------------------------------- MODULE BrainRun -------------------------------
(***************************************************************************)
(* A background run of the factory brain: the in-process registry and its  *)
(* detached driver (lib/agent-factory-v3/brain/run-registry.ts), the SSE   *)
(* route that starts a run or re-attaches to it, the stop route, and the   *)
(* FactoryBrainRun row.                                                    *)
(*                                                                         *)
(* Every connection that starts a run gets a fresh run id, so runs do not  *)
(* interact here and one run is enough.  The conductor (runBrain) is the   *)
(* source of the events the driver consumes; an event is reduced to the    *)
(* kind the driver distinguishes.                                          *)
(***************************************************************************)
EXTENDS Naturals, Sequences, SequencesExt

CONSTANTS
  Clients,     \* browser connections
  MaxEvents,   \* bound: events the conductor yields before it winds down
  MaxBuffer,   \* events kept for replay (8000)
  MaxFaults,   \* bound: database writes that fail
  MaxRestarts  \* bound: restarts of the server process

ASSUME RunAssumption ==
  /\ MaxEvents \in Nat
  /\ MaxBuffer \in Nat \ {0}
  /\ MaxFaults \in Nat
  /\ MaxRestarts \in Nat

VARIABLES
  driver,    \* the driver: "none", where drive() stands, "evicted" or "gone"
  gen,       \* the conductor: "turns", "failed" (it caught an error), "over"
  status,    \* r.status
  log,       \* the events emitted so far, in order
  snapshot,  \* events in the transcript write under way
  conn,      \* conn[c]: "away", "open" or "closed"
  live,      \* r.subscribers
  got,       \* got[c]: positions in log of the frames on c's current stream
  row,       \* the FactoryBrainRun row: status, and length of the transcript
  stopped,   \* "no", or how the first confirmed stop found the run: "live" (it was
             \* aborted), "late" (the driver had left "running" and was winding
             \* down) or "orphan" (nobody wrote its row any more)
  faults, restarts

vars == <<driver, gen, status, log, snapshot, conn, live, got, row, stopped,
          faults, restarts>>

Progress  == {"message", "agent", "sandbox", "reflect"}
DoneKinds == {"finished", "errored", "incomplete"}
Kinds     == Progress \cup {"error"} \cup DoneKinds
Registry  == {"loop", "mirroring", "closing", "finalizing", "over"}
Verdicts  == {"done", "error", "failed", "aborted"}

Saw(kinds) == \E i \in 1 .. Len(log) : log[i] \in kinds
Positions(from, to) == [i \in 1 .. (to + 1 - from) |-> from + i - 1]
\* Mutant: the replay buffer has no limit.
Buffered_Unlimited(n) == n

Buffered(n) == IF n < MaxBuffer THEN n ELSE MaxBuffer

Fault == faults < MaxFaults /\ faults' = faults + 1

-----------------------------------------------------------------------------
(* The event stream *)

\* Emit events, the last of which may be the done event: subscribers get them
\* as they come, and a client that receives done closes its stream.
Emit(es) ==
  LET n == Len(log)
      ends == es # <<>> /\ Last(es) \in DoneKinds
  IN /\ log' = log \o es
     /\ got' = [c \in Clients |-> IF c \in live
                 THEN got[c] \o Positions(n + 1, n + Len(es)) ELSE got[c]]
     /\ conn' = [c \in Clients |-> IF c \in live /\ ends THEN "closed" ELSE conn[c]]
     /\ live' = IF ends THEN {} ELSE live

\* What a client that attaches now is replayed: the buffer, up to done.
ReplayEnd ==
  LET dones == {i \in 1 .. Buffered(Len(log)) : log[i] \in DoneKinds}
  IN IF dones = {} THEN Buffered(Len(log)) ELSE CHOOSE i \in dones : \A j \in dones : i <= j

-----------------------------------------------------------------------------
(* The driver *)

\* The acceptance gate passed with an agent built, or nothing was built at all.
CleanEnd(k) == (k = "finished" /\ Saw({"agent"})) \/ ~Saw({"agent", "sandbox"})

\* Mutants: a late event overwrites "aborted"; any done event is a success.
StatusAfter_Overwrites(k) ==
  IF k \in {"error", "errored"} THEN "error"
  ELSE IF k \in DoneKinds /\ ~CleanEnd(k) THEN "failed"
  ELSE status
StatusAfter_DoneIsDone(k) ==
  IF status = "running" /\ k \in {"error", "errored"} THEN "error" ELSE status

\* The status after the conductor yields k: only a running run gets a verdict.
StatusAfter(k) ==
  IF status # "running" THEN status
  ELSE IF k \in {"error", "errored"} THEN "error"
  ELSE IF k \in DoneKinds /\ ~CleanEnd(k) THEN "failed"
  ELSE "running"

\* The conductor yields the next event; it ends with one done event, which
\* says errored exactly when it caught an error.
MayYield(k) ==
  \/ k \in Progress /\ gen = "turns" /\ Len(log) < MaxEvents
  \/ k = "error" /\ gen = "turns"
  \/ k = "reflect" /\ gen = "failed" /\ ~Saw({"reflect"})
  \/ k \in {"finished", "incomplete"} /\ gen = "turns"
  \/ k = "errored" /\ gen = "failed"

\* What the guaranteed done event says.
LastWord(s) == IF s = "error" THEN "errored" ELSE "incomplete"

\* Mutants: done is emitted whether or not the conductor did; or never.
WindDown_DoneAgain(s, es) ==
  /\ status' = s
  /\ driver' = "finalizing"
  /\ Emit(es \o <<LastWord(s)>>)
WindDown_NoDone(s, es) ==
  /\ status' = s
  /\ driver' = "finalizing"
  /\ Emit(es)

\* The loop is left with status s once es has been emitted: the finally clause
\* first awaits the fail-safe reflection, if one is due, and otherwise emits the
\* guaranteed done event and starts the finalizing write at once.
WindDown(s, es) ==
  LET seen  == ToSet(log \o es)
      isDue == "agent" \in seen /\ "reflect" \notin seen
  IN /\ status' = s
     /\ driver' = IF isDue THEN "closing" ELSE "finalizing"
     /\ Emit(es \o IF isDue \/ seen \cap DoneKinds # {} THEN <<>> ELSE <<LastWord(s)>>)

Settled(s) == IF s = "running" THEN "done" ELSE s

\* The driver handles one event and, when the throttle lets it, mirrors the
\* transcript to the row; it waits for that write before it asks for the next.
Yield(k) ==
  /\ driver = "loop"
  /\ MayYield(k)
  /\ gen' = IF k \in DoneKinds THEN "over" ELSE IF k = "error" THEN "failed" ELSE gen
  /\ \/ /\ driver' = "mirroring"
        /\ snapshot' = Buffered(Len(log) + 1)
        /\ status' = StatusAfter(k)
        /\ Emit(<<k>>)
     \/ /\ k \notin DoneKinds
        /\ status' = StatusAfter(k)
        /\ Emit(<<k>>)
        /\ UNCHANGED <<driver, snapshot>>
     \/ /\ k \in DoneKinds
        /\ WindDown(Settled(StatusAfter(k)), <<k>>)
        /\ UNCHANGED snapshot
  /\ UNCHANGED <<row, stopped, faults, restarts>>

\* Mutant: the driver does not wait for the write.
Mirror_NotAwaited ==
  /\ \/ /\ driver = "mirroring"
        /\ IF gen = "over" THEN WindDown(Settled(status), <<>>)
           ELSE driver' = "loop" /\ UNCHANGED <<status, log, conn, live, got>>
        /\ UNCHANGED row
     \/ /\ snapshot > 0
        /\ row.status # "none"
        /\ row' = [row EXCEPT !.script = snapshot]
        /\ UNCHANGED <<driver, status, log, conn, live, got>>
  /\ UNCHANGED <<gen, snapshot, stopped, faults, restarts>>

\* The write returned; its failure is swallowed.
Mirror ==
  /\ driver = "mirroring"
  /\ \/ row.status # "none" /\ row' = [row EXCEPT !.script = snapshot] /\ UNCHANGED faults
     \/ row.status = "none" /\ UNCHANGED <<row, faults>>
     \/ Fault /\ UNCHANGED row
  /\ IF gen = "over" THEN WindDown(Settled(status), <<>>)
     ELSE driver' = "loop" /\ UNCHANGED <<status, log, conn, live, got>>
  /\ UNCHANGED <<gen, snapshot, stopped, restarts>>

\* The conductor throws instead of yielding.
Crash ==
  /\ driver = "loop"
  /\ gen' = "over"
  /\ IF status = "aborted" THEN WindDown("aborted", <<>>)
     ELSE WindDown(IF status = "running" THEN "error" ELSE status, <<"error">>)
  /\ UNCHANGED <<snapshot, row, stopped, faults, restarts>>

\* The fail-safe reflection was written, or its write failed.
Close ==
  LET done == IF Saw(DoneKinds) THEN <<>> ELSE <<LastWord(status)>>
  IN /\ driver = "closing"
     /\ driver' = "finalizing"
     /\ \/ Emit(<<"reflect">> \o done) /\ UNCHANGED faults
        \/ Fault /\ Emit(done)
     /\ UNCHANGED <<gen, status, snapshot, row, stopped, restarts>>

\* Mutant: a stopped run is left as it is in the database.
Finalize_SkipsAborted ==
  /\ driver = "finalizing"
  /\ driver' = "over"
  /\ row' = IF status = "aborted" THEN row
            ELSE [status |-> status, script |-> Buffered(Len(log))]
  /\ UNCHANGED <<gen, status, log, snapshot, conn, live, got, stopped, faults, restarts>>

\* finalizeBrainRun swallows its failure.
Finalize ==
  /\ driver = "finalizing"
  /\ driver' = "over"
  /\ \/ row.status # "none" /\ UNCHANGED faults
        /\ row' = [status |-> status, script |-> Buffered(Len(log))]
     \/ row.status = "none" /\ UNCHANGED <<row, faults>>
     \/ Fault /\ UNCHANGED row
  /\ UNCHANGED <<gen, status, log, snapshot, conn, live, got, stopped, restarts>>

\* The eviction timer, ten minutes later.
Evict ==
  /\ driver = "over"
  /\ driver' = "evicted"
  /\ UNCHANGED <<gen, status, log, snapshot, conn, live, got, row, stopped,
                 faults, restarts>>

-----------------------------------------------------------------------------
(* The stream and stop routes *)

\* GET stream?domain=&goal=: create the row (a failure is logged and ignored),
\* start the driver, subscribe.
Open(c) ==
  /\ driver = "none"
  /\ driver' = "loop"
  /\ status' = "running"
  /\ conn' = [conn EXCEPT ![c] = "open"]
  /\ live' = {c}
  /\ \/ row' = [status |-> "running", script |-> 0] /\ UNCHANGED faults
     \/ Fault /\ UNCHANGED row
  /\ UNCHANGED <<gen, log, snapshot, got, stopped, restarts>>

\* Mutant: a client that comes back gets the live events only.
Attach_LiveOnly(c) ==
  /\ driver \in Registry
  /\ conn[c] # "open"
  /\ status = "running"
  /\ got'  = [got EXCEPT ![c] = <<>>]
  /\ conn' = [conn EXCEPT ![c] = "open"]
  /\ live' = live \cup {c}
  /\ UNCHANGED <<driver, gen, status, log, snapshot, row, stopped, faults, restarts>>

\* GET stream?runId= with the run in the registry: subscribeRun replays the
\* buffer and adds the subscriber only while the status is "running".
Attach(c) ==
  /\ driver \in Registry
  /\ conn[c] # "open"
  /\ LET end    == ReplayEnd
         closes == end > 0 /\ log[end] \in DoneKinds
     IN /\ got'  = [got EXCEPT ![c] = Positions(1, end)]
        /\ conn' = [conn EXCEPT ![c] = IF closes THEN "closed" ELSE "open"]
        /\ live' = IF closes \/ status # "running" THEN live ELSE live \cup {c}
  /\ UNCHANGED <<driver, gen, status, log, snapshot, row, stopped, faults, restarts>>

\* The same with the run evicted or lost in a restart: the transcript of the
\* row is replayed, done is added, and the stream closed.
Replay(c) ==
  /\ driver \in {"evicted", "gone"}
  /\ conn[c] # "open"
  /\ got'  = [got EXCEPT ![c] = Positions(1, row.script)]
  /\ conn' = [conn EXCEPT ![c] = "closed"]
  /\ UNCHANGED <<driver, gen, status, log, snapshot, live, row, stopped, faults, restarts>>

\* The client navigates away: it is unsubscribed, the run goes on.
Leave(c) ==
  /\ conn[c] = "open"
  /\ conn' = [conn EXCEPT ![c] = "away"]
  /\ live' = live \ {c}
  /\ got'  = [got EXCEPT ![c] = <<>>]
  /\ UNCHANGED <<driver, gen, status, log, snapshot, row, stopped, faults, restarts>>

\* POST stop of a running run.
Abort ==
  /\ driver \in Registry
  /\ status = "running"
  /\ status' = "aborted"
  /\ stopped' = "live"
  /\ Emit(<<"message">>)
  /\ UNCHANGED <<driver, gen, snapshot, row, faults, restarts>>

\* POST stop of any other run: a row that still says running is flipped, and the
\* stop confirmed, whether or not a driver that winds down is still to write it.
ForceFinalize ==
  /\ driver \notin Registry \/ status # "running"
  /\ row.status = "running"
  /\ row' = [row EXCEPT !.status = "aborted"]
  /\ stopped' = IF stopped # "no" THEN stopped
                ELSE IF driver \in Registry \ {"over"} THEN "late" ELSE "orphan"
  /\ UNCHANGED <<driver, gen, status, log, snapshot, conn, live, got, faults, restarts>>

\* The server restarts (or HMR reloads the module): registry and connections go.
Restart ==
  /\ driver # "none"
  /\ restarts < MaxRestarts
  /\ restarts' = restarts + 1
  /\ driver' = "gone"
  /\ conn' = [c \in Clients |-> IF conn[c] = "open" THEN "away" ELSE conn[c]]
  /\ live' = {}
  /\ got'  = [c \in Clients |-> IF conn[c] = "open" THEN <<>> ELSE got[c]]
  /\ UNCHANGED <<gen, status, log, snapshot, row, stopped, faults>>

Init ==
  /\ driver = "none"
  /\ gen = "turns"
  /\ status = "running"
  /\ log = <<>>
  /\ snapshot = 0
  /\ conn = [c \in Clients |-> "away"]
  /\ live = {}
  /\ got = [c \in Clients |-> <<>>]
  /\ row = [status |-> "none", script |-> 0]
  /\ stopped = "no"
  /\ faults = 0
  /\ restarts = 0

Drive ==
  \/ \E k \in Kinds : Yield(k)
  \/ Mirror \/ Crash \/ Close \/ Finalize

Next ==
  \/ Drive
  \/ Evict
  \/ \E c \in Clients : Open(c) \/ Attach(c) \/ Replay(c) \/ Leave(c)
  \/ Abort \/ ForceFinalize
  \/ Restart

Spec == Init /\ [][Next]_vars

\* The driver keeps running without any client: every await in it returns.
LiveSpec == Spec /\ WF_vars(Drive)

-----------------------------------------------------------------------------
(* Properties *)

\* Types of the variables.
TypeOK ==
  /\ driver \in Registry \cup {"none", "evicted", "gone"}
  /\ gen \in {"turns", "failed", "over"}
  /\ status \in Verdicts \cup {"running"}
  /\ log \in Seq(Kinds)
  /\ snapshot \in 0 .. MaxBuffer
  /\ conn \in [Clients -> {"away", "open", "closed"}]
  /\ live \subseteq Clients
  /\ got \in [Clients -> Seq(Nat)]
  /\ row \in [status : Verdicts \cup {"none", "running"}, script : 0 .. MaxBuffer]
  /\ stopped \in {"no", "live", "late", "orphan"}
  /\ faults \in 0 .. MaxFaults
  /\ restarts \in 0 .. MaxRestarts

\* A stop confirmed of a running run is never overwritten by done, failed or
\* error, whatever the conductor still yields while it winds down, nor is a stop
\* confirmed of a run nobody drives.  A stop that comes when the driver has left
\* "running" is confirmed too (stop/route.ts:24-30), but the finalizing write may
\* then replace "aborted": by the verdict reached before the stop, no other.
StopIsFinal ==
  /\ stopped = "live" => row.status \in {"none", "running", "aborted"}
  /\ stopped = "orphan" => row.status = "aborted"
  /\ stopped = "late" => row.status \in {"aborted", status}

\* Only a clean run is recorded as done: no error, and either the acceptance
\* gate passed with an agent built, or nothing was built or deployed at all.
HonestVerdict ==
  row.status = "done" =>
    /\ ~Saw({"error", "errored"})
    /\ (Saw({"finished"}) /\ Saw({"agent"})) \/ ~Saw({"agent", "sandbox"})

\* A finished driver has emitted done exactly once, on every path: normal end,
\* caught error, crash, stop.
DoneOnce ==
  driver \in {"finalizing", "over", "evicted"} =>
    \E i \in 1 .. Len(log) : /\ log[i] \in DoneKinds
                             /\ \A j \in 1 .. Len(log) : log[j] \in DoneKinds => j = i

\* However clients leave and come back, each sees the events in order, none
\* twice, and none missing unless the replay buffer had overflowed.
FramesInOrder ==
  \A c \in Clients : \A i \in 1 .. Len(got[c]) :
    /\ Len(log) <= MaxBuffer => got[c][i] = i
    /\ i > 1 => got[c][i - 1] < got[c][i]

\* The saved transcript only grows, up to the event that ends the run.
TranscriptGrows ==
  [][row.status # "none" => row'.status # "none" /\ row'.script >= row.script]_vars

\* A client that subscribed to a running run is unblocked: it gets done, or
\* leaves, or loses the server.  A run longer than the replay buffer promises
\* less: who attaches while the driver waits for the write after done still
\* finds it running, but is replayed a buffer without done.
SubscribersUnblock ==
  \A c \in Clients : c \in live ~> conn[c] # "open" \/ Len(log) > MaxBuffer

\* A row does not stay "running" for ever unless a write failed or the server
\* restarted.
RowSettles ==
  row.status = "running" ~> (row.status # "running" \/ faults > 0 \/ driver = "gone")

\* run-registry.ts:173: a terminal done, so any subscriber unblocks even on
\* abort or crash: nobody is left on an open stream when the driver is through.
NobodyStranded ==
  driver \in {"over", "evicted"} => \A c \in Clients : conn[c] # "open"
=============================================================================
