----------------------------- MODULE RaasBridge -----------------------------
(***************************************************************************)
(* The RAAS event bridge (server/inngest/raas-bridge.ts): a polling loop   *)
(* that reads the newest events of the shared Inngest, skips the ids in    *)
(* its in-memory seen-set and pushes the rest through em.publish.          *)
(*                                                                         *)
(* The bridge treats every PublishResult alike, so a call of em.publish is *)
(* a state the loop waits in; that the call returns is EventGateway's      *)
(* EveryCallAnswered.  The entries of the shared bus's log are numbered in *)
(* arrival order; RAAS replays an id when it thinks its delivery failed,   *)
(* and a replay is an entry of its own with the id of an older one.        *)
(***************************************************************************)
EXTENDS Naturals, FiniteSets, Sequences, SequencesExt

CONSTANTS
  MaxEvents,    \* bound: entries of the shared bus's log
  MaxReplays,   \* bound: entries that replay an id
  Relayed,      \* the ids whose name is in RAAS_BRIDGE_EVENTS
  FetchLimit,   \* events one poll reads (20)
  SeedLimit,    \* events the seeding reads (50)
  SeenCap,      \* size above which the seen-set is trimmed (5000)
  SeenKeep,     \* ids a trim keeps (2500)
  MaxOutages,   \* bound: fetches of the shared bus that fail
  MaxRestarts   \* bound: restarts of the server process

Events == 1 .. MaxEvents

ASSUME BridgeAssumption ==
  /\ {MaxEvents, MaxReplays, SeenCap, MaxOutages, MaxRestarts} \subseteq Nat
  /\ FetchLimit \in Nat \ {0}
  /\ Relayed \subseteq Events
  /\ SeedLimit \in FetchLimit .. SeenCap
  /\ SeenKeep \in (SeedLimit + FetchLimit - 1) .. SeenCap

VARIABLES
  arrived,    \* entries of the log so far
  id,         \* id[e]: the first entry with the id of entry e
  loop,       \* where the bridge stands
  batch,      \* entries of this fetch still to be looked at, newest first
  seen,       \* _seenIds: the entry that added each id, in insertion order
  since,      \* the last entry when this process's seeding fetch succeeded; else 0
  tries,      \* tries[e]: times this process pushed entry e
  outages, restarts

vars == <<arrived, id, loop, batch, seen, since, tries, outages, restarts>>

\* GET /v1/events?limit=n of the shared bus: the newest n entries.
Fetched(n) == [i \in 1 .. (IF arrived < n THEN arrived ELSE n) |-> arrived + 1 - i]

\* Mutants: the seen-set is never trimmed; the trim keeps the oldest ids.
Trim_Never(s)      == s
Trim_KeepOldest(s) == IF Len(s) > SeenCap THEN SubSeq(s, 1, SeenKeep) ELSE s

Window      == ToSet(Fetched(FetchLimit))
Knows(s, e) == \E i \in 1 .. Len(s) : id[s[i]] = id[e]
Add(s, e)   == IF Knows(s, e) THEN s ELSE Append(s, e)
Trim(s)     == IF Len(s) > SeenCap THEN SubSeq(s, Len(s) - SeenKeep + 1, Len(s)) ELSE s

Outage == outages < MaxOutages /\ outages' = outages + 1

-----------------------------------------------------------------------------
\* RAAS sends a new event.
Arrive ==
  /\ arrived < MaxEvents
  /\ arrived' = arrived + 1
  /\ UNCHANGED <<id, loop, batch, seen, since, tries, outages, restarts>>

\* RAAS sends an earlier event once more, under its id.
Replay ==
  /\ arrived < MaxEvents
  /\ Cardinality({e \in Events : id[e] # e}) < MaxReplays
  /\ \E e \in 1 .. arrived : id' = [id EXCEPT ![arrived + 1] = id[e]]
  /\ arrived' = arrived + 1
  /\ UNCHANGED <<loop, batch, seen, since, tries, outages, restarts>>

Start ==
  /\ loop = "stopped"
  /\ loop' = "seeding"
  /\ UNCHANGED <<arrived, id, batch, seen, since, tries, outages, restarts>>

\* Mutant: the seeding remembers the newest entry only.
Seed_OnlyNewest ==
  /\ loop = "seeding"
  /\ loop' = "noting"
  /\ \/ batch' = Fetched(1) /\ since' = arrived /\ UNCHANGED outages
     \/ Outage /\ UNCHANGED <<batch, since>>
  /\ UNCHANGED <<arrived, id, seen, tries, restarts>>

\* seedSeen's fetch; a failure of the shared bus is swallowed.
Seed ==
  /\ loop = "seeding"
  /\ loop' = "noting"
  /\ \/ batch' = Fetched(SeedLimit) /\ since' = arrived /\ UNCHANGED outages
     \/ Outage /\ UNCHANGED <<batch, since>>
  /\ UNCHANGED <<arrived, id, seen, tries, restarts>>

\* seedSeen adds what it read, newest first, with no await in between: that the
\* log grows meanwhile makes no difference.  The first tick follows.
Note ==
  /\ loop = "noting"
  /\ \/ batch # <<>> /\ seen' = Add(seen, Head(batch)) /\ batch' = Tail(batch) /\ UNCHANGED loop
     \/ batch = <<>> /\ loop' = "waiting" /\ UNCHANGED <<seen, batch>>
  /\ UNCHANGED <<arrived, id, since, tries, outages, restarts>>

\* Mutant: a failed poll ends the loop without setting the timer again.
Poll_DiesOnOutage ==
  /\ loop = "waiting"
  /\ \/ batch' = Fetched(FetchLimit) /\ loop' = "scanning" /\ UNCHANGED outages
     \/ Outage /\ batch' = <<>> /\ loop' = "failed"
  /\ UNCHANGED <<arrived, id, seen, since, tries, restarts>>

\* Mutant: every polled id counts as seen before its entry is handled.
Poll_MarksAll ==
  /\ loop = "waiting"
  /\ loop' = "scanning"
  /\ batch' = Fetched(FetchLimit)
  /\ seen' = seen \o SelectSeq(batch', LAMBDA e : ~Knows(seen, e))
  /\ UNCHANGED <<arrived, id, since, tries, outages, restarts>>

\* A failed poll leaves the batch empty and still reaches the finally clause.
Poll ==
  /\ loop = "waiting"
  /\ loop' = "scanning"
  /\ \/ batch' = Fetched(FetchLimit) /\ UNCHANGED outages
     \/ Outage /\ batch' = <<>>
  /\ UNCHANGED <<arrived, id, seen, since, tries, restarts>>

Skip ==
  /\ loop = "scanning"
  /\ batch # <<>>
  /\ Knows(seen, Head(batch)) \/ id[Head(batch)] \notin Relayed
  /\ seen' = Add(seen, Head(batch))
  /\ batch' = Tail(batch)
  /\ UNCHANGED <<arrived, id, loop, since, tries, outages, restarts>>

Push ==
  /\ loop = "scanning"
  /\ batch # <<>>
  /\ ~Knows(seen, Head(batch))
  /\ id[Head(batch)] \in Relayed
  /\ loop' = "publishing"
  /\ tries' = [tries EXCEPT ![Head(batch)] = @ + 1]
  /\ UNCHANGED <<arrived, id, batch, seen, since, outages, restarts>>

\* Mutant: an id whose push was refused does not count as seen.
Pushed_UnlessRefused ==
  /\ loop = "publishing"
  /\ loop' = "scanning"
  /\ seen' \in {seen, Add(seen, Head(batch))}
  /\ batch' = Tail(batch)
  /\ UNCHANGED <<arrived, id, since, tries, outages, restarts>>

\* em.publish returned (or threw): the id is seen whatever the result was.
Pushed ==
  /\ loop = "publishing"
  /\ loop' = "scanning"
  /\ seen' = Add(seen, Head(batch))
  /\ batch' = Tail(batch)
  /\ UNCHANGED <<arrived, id, since, tries, outages, restarts>>

\* The seen-set is trimmed and the timer set for the next tick.  (A failed
\* poll skips the trim, which then finds the set as the last trim left it.)
EndTick ==
  /\ loop = "scanning"
  /\ batch = <<>>
  /\ loop' = "waiting"
  /\ seen' = Trim(seen)
  /\ UNCHANGED <<arrived, id, batch, since, tries, outages, restarts>>

Restart ==
  /\ restarts < MaxRestarts
  /\ restarts' = restarts + 1
  /\ loop' = "stopped"
  /\ batch' = <<>>
  /\ seen' = <<>>
  /\ since' = 0
  /\ tries' = [e \in Events |-> 0]
  /\ UNCHANGED <<arrived, id, outages>>

Init ==
  /\ arrived = 0
  /\ id = [e \in Events |-> e]
  /\ loop = "stopped"
  /\ batch = <<>>
  /\ seen = <<>>
  /\ since = 0
  /\ tries = [e \in Events |-> 0]
  /\ outages = 0
  /\ restarts = 0

Loop == Start \/ Seed \/ Note \/ Poll \/ Skip \/ Push \/ Pushed \/ EndTick

Next == Arrive \/ Replay \/ Loop \/ Restart

\* The loop re-arms its own timer, and em.publish always returns.
Spec == Init /\ [][Next]_vars /\ WF_vars(Loop)

-----------------------------------------------------------------------------
(* Properties *)

\* Types of the variables; an id is the number of the first entry that has it.
TypeOK ==
  /\ arrived \in 0 .. MaxEvents
  /\ id \in [Events -> Events] /\ \A e \in Events : id[e] <= e /\ id[id[e]] = id[e]
  /\ loop \in {"stopped", "seeding", "noting", "waiting", "scanning", "publishing"}
  /\ batch \in Seq(Events) /\ Len(batch) <= SeedLimit
  /\ seen \in Seq(Events) /\ Len(seen) <= SeenCap + FetchLimit
  /\ loop = "waiting" => Len(seen) <= SeenCap
  /\ since \in 0 .. MaxEvents
  /\ tries \in [Events -> Nat]

\* What a process can be sure to remember: the entries since an id was pushed,
\* or since the oldest of the seeding was listed, before a replay gets through.
PushMemory == SeenKeep - 2 * FetchLimit + 2
SeedMemory == SeenKeep - SeedLimit - FetchLimit + 2

\* One process pushes an entry at most once, and a replay of an id it has pushed
\* only when PushMemory entries lie between: the seen-set's trims drop no younger one,
\* although neither a hit nor a skipped replay refreshes the place of an id.
PushedOnce ==
  /\ \A e \in Events : tries[e] <= 1
  /\ \A e, f \in Events :
       tries[e] > 0 /\ tries[f] > 0 /\ id[e] = id[f] /\ e < f => e + PushMemory <= f

\* The page the seeding of this process has read.
Seeded == {e \in 1 .. since : since < e + SeedLimit}

\* Once the seeding succeeded, no entry from before it is pushed, and a replay of an
\* id it has read only when SeedMemory entries lie between, whatever the trims drop.
HistoryNotRefired ==
  \A e \in Events :
    tries[e] > 0 =>
      e > since /\ \A f \in Seeded : id[f] = id[e] => f + SeedMemory <= e

\* A poison event, an outage of the shared bus or a refused publish never
\* stops the poll loop.
LoopGoesOn == []<>(loop = "waiting")

\* An unseen id that the next poll can show is pushed, unless newer entries
\* displace it from the window first or the process restarts.
WindowIsRelayed ==
  \A e \in Events :
    (loop = "waiting" /\ e \in Window /\ id[e] \in Relayed /\ ~Knows(seen, e)) ~>
      \/ loop = "publishing" /\ id[Head(batch)] = id[e]
      \/ e \notin Window \/ loop = "stopped"

\* The promise the bridge implements: with a trimmed seen-set and no idea of what the
\* trims dropped it is a relay that collapses every replay within SeedMemory entries,
\* and its pushes are less than a window out of order.
Promise == INSTANCE RelayContract WITH
             Disorder <- FetchLimit,
             Reach    <- SeedLimit,
             Memory   <- SeedMemory,
             pushes   <- tries

RelayHolds == Promise!Contract
=============================================================================
