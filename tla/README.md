# agenticOperator in TLA+

A verification companion to the concurrent core of agenticOperator, a Next.js
application that runs and supervises business agents on Inngest: how events get
onto the bus, how they are pulled in from the partner system, how a long brain
run lives in the background, how a human steers it or decides at a gate of the
agent chain, how an agent's functions get to the dev server, and how runs are
archived and deleted. Modules are translated
from the TypeScript sources; `PROJECT.json` maps each definition to its lines.

Run `tlc -config X.cfg MCModule` for a run and `tlapm XProofs.tla` for the proofs
about module `X`.

## 1. Inventory

| Component | State it keeps | Operations | Hard behaviour | What makes it correct |
|---|---|---|---|---|
| EM gateway `server/em` | `EventInstance`, `AuditLog` rows; in-process degraded flag | `em.publish` (self-check, schema, dedup, persist, send, fallback), rejection emitter, `recoverIfPossible` | concurrent deliveries of one id; failing database or bus at every await; restart; flag read early and used late | an answer tells the truth; one verdict per upstream event; nothing recorded is silently lost |
| Registry and Neo4j sync | event definitions, cache | `tryParse`, sync | a definition changes between deliveries | enforced mode lets only valid payloads through |
| RAAS bridge `raas-bridge.ts` | seen-set, timer | seed, poll, push, trim | outages, window of 20, trims, replayed ids, restart | no double push; history not re-fired; loop survives |
| Brain run registry `run-registry.ts` | run map, replay buffer, subscribers, `FactoryBrainRun` row | start, drive, subscribe, abort, mirror, finalize, evict | detached driver; clients leave and come back; stop during wind-down; restart | one `done`, honest status, complete replay, growing transcript |
| Human in the loop `mailbox.ts`, `conductor.ts` | mailbox rows and fallback, awaiting flags in `ctx` | inject, drain, park at a gate, tools, dispose | non-atomic drain; several gates open; time-outs; follow-up runs inherit gates | no turn while asking; a message is acted on once; parks end |
| Conversation store | LRU of 40, durable mirror | save, persist, rehydrate | cache against mirror; two runs of one conversation | no saved turn is lost |
| Ontology agent chain and human gate | claims, gate cards, suspended runs | claim, notify, wait, decide, time out | decision before the wait is registered; double decisions; time-out race; claims cleared | each case decided once, no suspended run without a card |
| Notification centre | alert rows, unique on (key, status) | record, resolve | four-statement resolve; re-firing | one firing row per key, never stuck |
| Domain apps and agent lifecycle | `AgentVersion`, `DomainInngestApp` rows | transition, deploy, restore, register | concurrent deploys; register fails after commit | one active version per agent |
| Inngest archive | run, step and event mirror, tombstones | poll, write through, delete | check-then-write; stale status | a deleted run stays deleted; status never goes back |
| Manage-axis run control | `WorkflowRun`, `HumanTask` rows | cancel, pause, resume, replay, restart | read-check-update races | a cancelled run stays cancelled |
| Agent pause guard | 5 s cache | check, toggle | stale cache | a pause takes effect |
| The rest | agents, partner SQL, LLM gateway, harness, console | request-scoped | outside services | covered by unit tests |

How they interact: the bridge, the agents and the HTTP routes call `em.publish`
directly; the bus starts the agents' functions. An agent at a human gate opens an
alert row, suspends its run and waits for a decision event, which the decision
service sends after it has resolved the row. The stream route starts a brain run and
subscribes to it; the driver pulls events out of the conductor, which polls the
mailbox that the inject route fills; what the conductor ships, and what operators
transition, changes the active rows of a domain, and the dev server is then made to
list the domain's app anew. A poller and write-through hooks copy what the dev server
says of a run into the archive, next to the operator who deletes it. The stop route
sets the run's abort signal. The health route, polled by the console, is what ends
degraded mode. Everything durable is in Postgres, and everything else dies with the
process.

## 2. Plan

Done, in this order: `EventGateway` with `PublishContract` and its proofs;
`RaasBridge`; `BrainRun`; `HumanLoop`; `HumanGate` with `AlertRows`; `RunArchive`;
`DomainApp`; the proofs of every safety property of all seven; `RelayContract` and the
proof that the bridge implements it; and proofs of what the liveness properties rest on
and of the exact gaps behind the violated claims.

What would add most next:

1. `AgentVersions`: version labels and drafts (`lib/agent-factory-gen/persist.ts`), with
   the collision described in section 8.
2. `ConversationStore`: cache against mirror, and two runs of one conversation.
3. `BridgedGateway`: the bridge composed with the gateway, so that seen-set,
   dedup row and bus dedup are checked as one chain.
4. Run control together with `HumanGate`, once the routes promise more than a status.

## 3. Modules

**`EventGateway`** Every invocation of `em.publish` is a process whose program
counter `pc[c]` names the await it stands at: `bypass` and `raw` are the two
fallback sends, `parse` the registry, `pass`/`reject`/`accept` the three row
writes, `lookup` the dedup read, `nack` the rejection emitter, `audit`, `send`.
`InsertRow` has the outcomes a create can have: success, unique violation,
failure before and failure after the commit; `Send` likewise. Whatever throws
goes through `Throw`, which sets the degraded flag and moves to the raw send. A
payload is its schema verdict, chosen afresh for each call because the
definition may have been synced in between. `mode` stands for the two
environment switches. The bus deduplicates by event id (`Land`), as the code
relies on it to. `ProbeStart`/`ProbeEnd` are the health route with its await.
`Restart` loses the calls in flight and the flag.

**`PublishContract`** The promise, without rows, flags or modes: a call is
opened, may put its event on the bus under its ids, and is answered once;
"accepted" only with the event on the bus, and one definitive answer per
external id. `EventGateway` instantiates it with a refinement mapping
(`Promise`), and `ContractHolds` is both a checked property and a theorem.

**`RaasBridge`** One action per step of the loop. The shared bus is a log: `Arrive` adds
an entry with an id of its own, `Replay` one with the id of an earlier entry, since RAAS
replays an id when it thinks its delivery failed (`raas-bridge.ts:118-119`); `id[e]` names
the first entry with the id of entry `e`. The seen-set holds ids in the order in which
they were added, and a hit does not move one. `batch` is the fetched page
still to be looked at, so entries arrive and the process restarts in the middle
of a page. The bridge ignores what a publish answers, so the call is a state it
waits in (`publishing`); that the call returns is the gateway's
`EveryCallAnswered`. Since a trim forgets ids and a replay may come at any time, the
bridge alone cannot promise to push an id once. What it does promise is a distance:
`PushMemory` entries (2500 - 2 * 20 + 2 = 2462 in the code) must lie between two pushes of
one id, and `SeedMemory` (2500 - 50 - 20 + 2 = 2432) between the seeding's look at an id
and a push of its replay. A replay from further back is pushed again and left to the gateway,
whose dedup by `externalEventId` answers "duplicate" if the first push left a row.

**`RelayContract`** What the bridge promises, without seen-set, page or trim: a process
may learn what is history before its first push (`Baseline`), then pushes any later
entry at most once, none a window or more older than one it has pushed and no replay of an
id that it pushed, or read as history, less than `Memory` entries ago; it forgets
everything when it is restarted. `RaasBridge` maps its push counters and its seeding to
it (`Promise`), with `SeedMemory` for `Memory`; `RelayHolds` is a checked property and a theorem.

**`BrainRun`** One run (every connection that starts one gets a fresh id), its
driver, its row and the connections. `log` is everything ever emitted; the replay
buffer is its first `MaxBuffer` entries, so a full buffer needs no second copy.
`got[c]` records which positions a client's current stream was given. Code between
two awaits is one action: emitting a `done`, settling the status and deciding what
the finally clause does happen in one `Yield`. `stopped` says of whom the stop route has
confirmed a stop first: of a running run (`aborted: true`, "live"), or by flipping the row
(`finalized: true`), either while a driver still winds down ("late") or when nobody drives
("orphan"). `StopIsFinal` has a clause for each.

**`HumanLoop`** The conductor's loop head, gates, model call, tools, end of turn
and cleanup, with a drain as two statements. What a turn does is open. `waiting` is
the set of awaiting flags in the context, which outlives the run; `heard[m]`
records what each message was taken for, and `Says` which kinds a user sends (a
"scrambled" one is a boundary classification whose JSON does not parse and is dropped). The shared tick counter is one variable
because the code has one.

**`HumanGate`** One case going through the ontology agents' common handler. A run is
named by the path of agents that led to it, so the depth cap bounds the runs; its
`at` is the step (`step.run`, `waitForEvent`) it stands at, and between two steps
anything may happen. `claimed` is the in-process claim set. The decision service is a
request with the two statements on the cards and the sending of the event, each of
which may fail. So may an agent's own emission, which ends its run, as the gate agents
have no retries (`Send`). `touched` records which gates' cards somebody has worked on. Its alert
rows are the module **`AlertRows`** (record, and the two statements of a resolution under the unique
key), which `HumanGate` extends.

**`RunArchive`** One run as the dev server has it (`live`), as the archive has it
(`row`), whether the poller's listing still shows it (`recent`: it started in the last 168
hours and is among the last 1000 runs), its tombstone, and everybody who writes: the poller with its listing and its
snapshot, the three write-through hooks, the deletion route. A look for a tombstone
and the write that follows are separate steps everywhere.

**`DomainApp`** The active rows of a domain, its app row and what the dev server
lists, under requests of every kind. A request is at one await at a time; what it has
read is in its record. A PUT is three steps: the status gate of the serve endpoint,
the collection of the functions, and the registration. `solo` and `orderly` say that
requests have not met and nothing has failed, because the code has no lock and
promises agreement only then.

Definitions named `X_Something` before an `X` are the altered forms listed under
"mutants" in `PROJECT.json`; no specification uses them.

## 4. Runs

| Run | Shows | Bounds |
|---|---|---|
| `gateway` | types, the safety properties, the contract; every call returns, degraded mode ends | 2 calls, 1 key, 3 modes, 3 faults, 1 restart |
| `gateway_rejected` | *violated*: a redelivered rejected payload reaches the bus | 2 calls, strict mode, no fault |
| `gateway_retry` | *violated*: the retry after `em_degraded` is dropped | 2 calls, strict mode, 2 faults |
| `raas_bridge` | bridge safety and liveness, the relay contract | 8 entries, 1 of them a replay, window 2, seeding of 3, seen-set of 6 trimmed to 5, 1 outage, 1 restart |
| `brain_run` | run registry safety and liveness | 2 clients, 2 events, buffer 2, 1 fault, 1 restart |
| `brain_stranded` | *violated*: a re-attached client is never unblocked | 2 clients, buffer never full, no fault |
| `human_loop` | gates, mailbox and termination | 2 messages of 4 kinds, 2 turns of 2 calls, 1 tick, 1 follow-up, 1 fault |
| `human_drain` | *violated*: a message is consumed unread | as above with all 5 kinds, no fault, no follow-up |
| `human_approval` | *violated*: a deployment before approval | as above with all 5 kinds, no fault, no follow-up |
| `human_gate` | claims, gates and cards of a case; the chain ends | depth 4, 1 decision at a time, 1 loss of the claims, 1 fault |
| `run_archive` | deletions stick; the archive catches up with a listed run | 1 run, every writer, 2 faults |
| `domain_app` | dev server and rows agree; off stays off; no empty app | 2 agents, 2 requests at a time, 2 faults, both kinds of domain |

Why the bounds are enough. Two calls on one key give a winner and a loser of the
unique index, or a later duplicate; the interactions of a key are pairwise, unkeyed
calls interact through the flag only, and the theorems hold for any number of calls.
Three faults let row, send and fallback fail in one history. The bridge's limits keep the
order the constants have in the code (fetch 20 < seed 50, window well below
keep 2500 < cap 5000), scaled so that eight entries trim the set and a replay of a dropped id gets through (`PushMemory` is
3 there, `SeedMemory` 2); the exact relations the bridge needs are `BridgeAssumption`. The main
run of `HumanLoop` leaves out plain steering, which every gate but one treats as it treats
a decision meant for the test cases, and that gate as it treats a classification. A buffer
of two holds a short run and is overflowed by the others before, with or after their `done`. Two messages are what an
interrupted drain needs, and two tool calls a turn open two gates. A depth of four lets
a case pass both gates, be sent back once and be cut off by the cap. Two requests are
what a race in `DomainApp` needs, and two agents tell an emptied app from one that has
lost an agent.

Deadlock is checked where the program never rests (the bridge; the run registry and
the domain apps, whose clients can always come back) and not where it may: when every
call has been made, a conversation has had its last run, a case has come to its end, or
an archived run is deleted.

The violated runs state what a comment or a test of the repository says; the
findings in `PROJECT.json` quote it. In short: publish treats a unique violation
as an outage; it writes the row that blocks a retry before the send that may fail;
`subscribeRun` takes "not running" for "done already emitted"; the drain's UPDATE
is wider than its SELECT; and `sandbox_run` asks whether cases exist, not whether
they were approved.

## 5. Fairness

- Gateway: weak fairness of each call's steps (awaits return or throw; the runtime
  schedules continuations) and of the health probe, because the console polls it
  every 30 s (`lib/api/em-health.ts`) and Neo4j is assumed reachable.
  Faults are bounded, so `DegradedEnds` says "once failures stop".
- Bridge: weak fairness of the loop, which re-arms its timer in `finally`.
- Brain run: weak fairness of the driver, which no client can stop. Clients, the
  stop button, eviction and restarts are not fair.
- Human loop: weak fairness of the conductor. No human answer is assumed: `RunEnds`
  rests on the park time-out and the turn limit.
- Human gate: weak fairness of the handlers of all runs together, since Inngest runs
  each step sooner or later and ends a wait after 30 days. Operators and losses of the
  claims are not fair: `ChainEnds` rests on the depth cap and the time-out.
- Archive: weak fairness of the poller's tick, which re-arms its timer. The hooks may
  be lost. Nobody is assumed to delete. The run may leave the poller's window at any
  moment, and `ArchiveCatchesUp` asks for nothing then; "stays listed for good" in it
  stands for long enough, fifteen steps of a tick every 30 s against a window of 7 days
  (theorem `ArchiverCatchesUp`).
- Domain apps: none; everything there happens on request.

## 6. Proofs

Each proof module `XProofs` extends `X` and proves its type invariant and all its
safety properties for every value of the constants that `X`'s assumption admits.
The shape is the same everywhere: an inductive invariant, one lemma per action or
kind of action that keeps it, and short theorems that read the properties off it.
Two kinds of theorem go beyond the properties the runs check. Where a run finds a claim
of the repository violated, a theorem states the exact gap: what must have happened
whenever the claim fails, for all values of the constants. And of each liveness property
the part that does not need fairness is proved: that every step of the process concerned
decreases a rank, and that nobody else's step raises it.

**`EventGatewayProofs`** (any calls, keys, modes, faults, restarts). The safety
properties speak about finished calls and are not inductive, because a call earns its
answer several steps earlier. `IInv` (theorem `Invariance`) adds what holds at each
await: every row is signed by a call that is past its row write (`RowsSigned`) and is
the only one of its call and of its external id (`RowsUnique`); the steps after a
write, and the answers and rejections they lead to, have their row (`StepsHaveRows`,
`VerdictsHaveRows`); a forwarded answer has its message, and a fresh fallback id is on
the bus only for a call answered `em_degraded` (`AnswersHaveMessages`); in strict mode
only the verdict "ok" leads past the schema check (`StrictVerdict`). From it:
`TypeCorrect`, `Delivery`, `VerdictUniqueness`, `LossIsReported`, `Enforcement`,
`AppendOnly` (an action property) and `Refinement` (`Spec => ContractHolds`, the step
simulation under `IInv`). `CallsEnd`: an await that returns brings its call nearer to the
answer, and only a restart takes it off. `RejectedGoesOutOnlyRaw` is the gap behind
`gateway_rejected` (from `MessagesSigned`: a message is raw or has a forwarded row), and
`DegradesForCause` says what can degrade the gateway at all.

**`RaasBridgeProofs`** (any log, replays, windows, caps). `NothingTwice` is an argument about
trims. What follows a pushed id in the seen-set is less than a window older
(`SpreadInv`), and nothing seen is newer than what has arrived; so the entries that follow an
id in the set are distinct numbers from a known stretch of the log (`Crowd`, by
the pigeonhole principle), and an id that a trim drops, with the `SeenKeep` ids it keeps
after it, lies that far behind (`PushedInv`: a pushed entry is remembered or `Behind`).
`HistoryStays` is the same argument with the seeding's reach (`NotingInv`, `SeededInv`); a
replay of what the seeding has read must not displace the original, hence `Kept`. Both need
that a trim keeps a seeding and a window, 50 + 20 - 1 of 2500 in the code
(`BridgeAssumption`). `Refinement` puts the arguments together, step by step: a push is
allowed by the contract because an entry still to be looked at and not seen was never
pushed, is not history, replays nothing recent (`PushFar`) and is less than a window older
than any pushed one. `NothingDropped` is the converse, that no entry is passed over unpushed;
`TicksEnd` ranks the steps of a tick and of the seeding.

**`BrainRunProofs`** (any clients, buffer, length of a run). `DoneInv` counts the done
events by where the driver stands, `StatusInv` says where a status can come from,
`HonestInv` ties a clean status to a clean log; they give `OneDoneEvent`, `StopSticks`
(a stop of a running or an orphaned run stays; one confirmed during the wind-down gives way
only to the verdict reached before it) and `DoneIsHonest`. `FrameInv` relates each stream to the log (a subscriber has all of
it while the buffer has not overflowed, and only open connections subscribe) and
`ScriptInv` orders saved transcript, write under way and buffer; they give
`StreamsAreFaithful` and the action property `TranscriptOnlyGrows`. `EndInv` says who is
still subscribed as the driver goes through its finally clause, and why a stream was
closed; it gives `NobodyStaysSubscribed` and `StreamsEndWithDone`. `VerdictIsRecorded`
(the row ends with the driver's verdict and the whole buffer) and `DriverWindsDown` are
what `RowSettles` rests on.

**`HumanLoopProofs`** (any messages, limits, faults). `TurnInv` says that a turn is only
begun below the limit, `AskInv` that no question is open at the turn boundary and
during the model call, `BoxInv` that only sent messages are in the mailbox or heard,
and none is both unless a statement failed. From them `AsksFirst`, `ApprovalIsTheUsers` and
`MessagesOnce`. `RunsWindDown` gives every step of the conductor a lexicographic rank
(turns, tools, parks and their time-outs) that no message or stop raises.
`LostOnlyInBetween` and `DeploysEarlyOrRedone` are the gaps behind `human_drain` and
`human_approval`. What a park ends with is decided by the last of the drained
decisions; `LastIndex` shows that there is a last one by the well-foundedness of finite
subsets, an induction the provers can be handed without an operator as parameter.

**`HumanGateProofs`** (any cap, decisions, losses, faults). A run is `Busy` from its claim
until it has released manualConfirm's. That at most one run waits at a gate is not
inductive: a rejection at finalizePlan's gate releases the claim of another agent.
`ClaimInv` adds that no run of manualConfirm is busy, and its claim held, while a run of
finalizePlan can still come to that release (`Open`). `CardInv` says that whoever works
on a card has touched it and an untouched card stays. From them `OneDecisionAtATime`,
`NobodyLeftSuspended` and `CardIsShown`. `RunsReplaceTheirCause` is an invariant about the
tree of runs (no run next to one it led to); with it `CaseWindsDown` can say that a run
only goes on or is replaced by deeper ones.

**`RunArchiveProofs`** (any number of faults): `DeletionIsFinal`, an action property, from the
types and what each writer can be at. `ArchiverCatchesUp` counts the steps the poller
needs, from wherever it is, until the row of an ended run that it can list is up to date (`Left`, fifteen at
most, under `PollerInv`), and `CaughtUpStays` that nothing short of a deletion or a wiped
dev server undoes it, the end of the window included.

**`DomainAppProofs`** (any agents, requests, faults). `Recorded` says what a request at a
step knows of the app row. A request that has the domain to itself is followed step by
step (`Progress`), and after it rows and dev server agree (`Steady`), which gives
`AgreesAfterEach` and `NoEmptyApp`; `OfflineIsKept` is an action property of any mix of
requests, and so is `RequestsEnd`, which ranks the steps of a request.

Only model-checked: the liveness properties themselves (`EveryCallAnswered`,
`DegradedEnds`, `LoopGoesOn`, `WindowIsRelayed`, `SubscribersUnblock`, `RowSettles`,
`RunEnds`, `ChainEnds`, `ArchiveCatchesUp`). Their last step, from "a step of the process
is possible and brings it nearer" to "it gets there", needs fairness and ENABLED, which
are beyond the proof system; what is proved of each is named above. Of `DegradedEnds` only
the other half is proved, when degraded mode can begin.

## 7. Not modelled

In the modelled parts: statistics, logging, notification side effects,
`EmSystemStatus`, the meta row of a rejection, the unused `idempotencyKey`
override, the filter stage (it always allows), token budgets, compaction,
sub-brains, the contents of tools, and two simultaneous runs of one conversation; in the
agent chain the branch agents (off by default), the re-entry of interpretData, the
risk gate and finalizePlan's skip under it, `HumanTask` rows, the acknowledging of alerts
and the time-out's own alert; in the archive the event archive (insert-only), the
cursor and the metadata; of the domain apps version labels and drafts, configuration
deploys of real agents, the pack domains (whose several fixed functions behave like the
sentinel) and a restart of the dev server.
The ids drawn by `randomUUID` are assumed distinct. Inngest and Postgres are
modelled by what the code relies on: event-id deduplication, steps that are run
again until they return, and unique indexes.

Whole components that are not modelled are listed with their reasons in
`PROJECT.json`: request pipelines over outside services, presentation, pure tables, and
unconditional single-row updates that promise nothing. Most of the repository's lines
are of this kind (pages, translations, prompts, seed data), which is why the map covers
a small share of them.

## 8. What the models brought to light

The violated runs check what a comment or a test says, see "findings". Reading and
modelling showed more, which the properties step around where the code promises nothing else:

- Agent chain: finalizePlan's claim is not among those a rejection releases
  (`REGEN_CLAIMS`), so a case rejected at the final gate is recomputed but can never be
  finalised again. If the claims are lost while a gate waits, a second run can wait
  there; `OneWaiterPerGate` therefore says `losses = 0`. A decision on an old card
  decides the present round. A decision sent before `waitForEvent` is registered wakes
  nobody, and the case waits for its time-out.
- RAAS bridge: a replay of an id that a trim has dropped is pushed again, by the same process
  and also when the original was history (see `PushMemory`, `SeedMemory` in section 3); it is
  the gateway's row, not the bridge's memory, that collapses it, and a historical id has no
  such row. Events that arrive while the process is down count as history and are
  never relayed, and so are lost those that more than twenty newer ones push out of the
  window between two polls.
- Brain run: a stop that arrives while the driver winds down is answered `finalized: true`, the
  row turns to aborted, and the finalizing write then puts the verdict reached before in its
  place, although the comment says "Either way the client's intent (it's stopped) is
  satisfied" (`app/api/factory-v3/brain/stop/route.ts:28`). `StopIsFinal` therefore allows
  that verdict, and no other, after a "late" stop.
- Brain run: a `done` that no longer fits into the replay buffer is given to nobody who
  attaches while the driver still waits for the transcript write after it: the run is
  "running", so the client is subscribed, and no second `done` follows. Hence
  `Len(log) > MaxBuffer` in `SubscribersUnblock`.
- Archive: the poller lists only runs that started within 168 hours and at most 1000 of them.
  A run that waits at a gate for longer (a gate waits up to 30 days) and is then cancelled, which no
  hook reports, or ends with a lost hook, stays Running in the archive for good, and its
  trace is never completed. `ArchiveCatchesUp` says `recent` for that reason.
- Archive: a run brought back by the race that `tombstones.ts:11-13` describes may come
  back as Running, and the deletion route refuses running runs, so it stays. A stale
  snapshot of the poller can take a completed run back to Running until the next tick,
  for good if the dev server was wiped before. The paged list
  (`inngest-source.ts:108`) reads the archive without looking at tombstones.
- Domain apps: a register or resync that races an offline request can have the PUT answered
  with no functions and so register an empty app, which the comments at
  `domain-app.ts:177-181` and `564-566` want to avoid: hence `orderly` in `NeverRed` and
  `InSync`. A resync of an app that is off returns early, so a failed deletion is
  repaired only by the next register or offline request. Two brain runs on one domain share
  its sandbox, and the first to end tears down the other's agents.
- Drafts: `persistSpecs` writes sandbox rows and final drafts under one version label,
  and the unique key (short, versionLabel) does not know the domain: the drafts are
  skipped as duplicates of rows that the end of the run deletes.
