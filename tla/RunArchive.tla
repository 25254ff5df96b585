------------------------------ MODULE RunArchive ------------------------------
(***************************************************************************)
(* The durable mirror of one Inngest run: the archiver that polls the dev  *)
(* server (scripts/inngest-archiver.ts, inngest-archive/writer.ts), the    *)
(* middleware that writes through from the run's own process               *)
(* (write-through-middleware.ts, write-through.ts), and the operator's     *)
(* deletion over tombstones (runs/delete/route.ts, tombstones.ts).         *)
(*                                                                         *)
(* Writers look for a tombstone and write later; nothing holds the row in  *)
(* between.  Runs do not interact, except that a write that fails ends the *)
(* poller's tick for all of them.                                          *)
(***************************************************************************)
EXTENDS Naturals

CONSTANT MaxFaults  \* bound: failing writes and fetches, and crashes

ASSUME ArchiveAssumption == MaxFaults \in Nat

VARIABLES
  live,     \* what the dev server says of the run
  recent,   \* the dev server lists it: it started within the poller's window
  row,      \* the InngestRunArchive row
  tomb,     \* the run has a tombstone
  poller,   \* the archiver: where it is, and the status it goes by
  start,    \* the start hook
  finish,   \* the finish hook, with the outcome it reports
  trace,    \* the trace capture the finish hook sets off
  deleter,  \* the delete request
  faults

hooks == <<start, finish, trace>>
vars == <<live, recent, row, tomb, poller, start, finish, trace, deleter, faults>>

Terminal == {"Completed", "Failed", "Cancelled"}
Statuses == {"Running"} \cup Terminal
NoRow    == [status |-> "none", traced |-> FALSE]
Idle     == [at |-> "idle", status |-> "none"]

Listed == live \in Statuses

Fault == faults < MaxFaults /\ faults' = faults + 1

-----------------------------------------------------------------------------
(* The writes.  Every one of them may fail and change nothing. *)

\* An upsert of the status: a new row has no trace, an old one keeps its own.
Upsert(s) == row' = [status |-> s, traced |-> row.traced]

\* recordRunStart: a row that exists keeps its status.
UpsertStart == row' = IF row = NoRow THEN [status |-> "Running", traced |-> FALSE] ELSE row

WriteTrace_CreatesRow(s) == row' = [row EXCEPT !.traced = TRUE]

\* archiveRunTrace, the transaction: the update of a missing row throws.
WriteTrace(s) == row' = IF row = NoRow THEN NoRow ELSE [status |-> s, traced |-> TRUE]

-----------------------------------------------------------------------------
(* The dev server and the process that executes the run *)

Begin ==
  /\ live = "unborn"
  /\ live' = "Running"
  /\ start' = [at |-> "check", status |-> "Running"]
  /\ UNCHANGED <<recent, row, tomb, poller, finish, trace, deleter, faults>>

\* onRunComplete, or onRunError of the last attempt.
End ==
  /\ live # "unborn" /\ finish = Idle
  /\ \E s \in {"Completed", "Failed"} : finish' = [at |-> "check", status |-> s]
  /\ UNCHANGED <<live, recent, row, tomb, poller, start, trace, deleter, faults>>

\* The dev server hears of the outcome, before or after the hooks have written it.
Settle ==
  /\ live = "Running" /\ finish # Idle
  /\ live' = finish.status
  /\ UNCHANGED <<recent, row, tomb, poller, deleter, faults>> /\ UNCHANGED hooks

\* An operator cancels the run on the dev server: no hook reports it.
Cancel ==
  /\ live = "Running"
  /\ live' = "Cancelled"
  /\ UNCHANGED <<recent, row, tomb, poller, deleter, faults>> /\ UNCHANGED hooks

\* The dev server restarts and has forgotten the run.
Wipe ==
  /\ Listed
  /\ live' = "wiped"
  /\ UNCHANGED <<recent, row, tomb, poller, deleter, faults>> /\ UNCHANGED hooks

\* The run leaves the listing the poller asks for, for good: it started longer ago
\* than the window (168 hours), or the limit (1000) has gone to runs started since.
Age ==
  /\ live # "unborn" /\ recent
  /\ recent' = FALSE
  /\ UNCHANGED <<live, row, tomb, poller, deleter, faults>> /\ UNCHANGED hooks

\* The application dies: hooks and requests are gone.  If the dev server has not
\* heard of the outcome, it has the last step executed again.
Crash ==
  /\ Fault
  /\ start' = IF start = Idle THEN Idle ELSE [start EXCEPT !.at = "done"]
  /\ finish' = IF finish = Idle \/ live = "Running" THEN Idle ELSE [finish EXCEPT !.at = "done"]
  /\ trace' = IF trace = Idle \/ live = "Running" THEN Idle ELSE [trace EXCEPT !.at = "done"]
  /\ deleter' = "idle"
  /\ UNCHANGED <<live, recent, row, tomb, poller>>

-----------------------------------------------------------------------------
(* The hooks *)

\* recordRunStart
StartHook ==
  /\ \/ /\ start.at = "check"
        /\ start' = [start EXCEPT !.at = IF tomb THEN "done" ELSE "write"]
        /\ UNCHANGED <<row, faults>>
     \/ /\ start.at = "write"
        /\ start' = [start EXCEPT !.at = "done"]
        /\ \/ UpsertStart /\ UNCHANGED faults
           \/ Fault /\ UNCHANGED row
  /\ UNCHANGED <<live, recent, tomb, poller, finish, trace, deleter>>

FinishHook_Unchecked ==
  /\ \/ /\ finish.at = "check"
        /\ finish' = [finish EXCEPT !.at = "write"]
        /\ UNCHANGED <<row, trace, faults>>
     \/ /\ finish.at = "write"
        /\ finish' = [finish EXCEPT !.at = "done"]
        /\ trace' = [at |-> "check", status |-> finish.status]
        /\ \/ Upsert(finish.status) /\ UNCHANGED faults
           \/ Fault /\ UNCHANGED row
  /\ UNCHANGED <<live, recent, tomb, poller, start, deleter>>

\* recordRunFinish; whatever becomes of it, the trace capture follows.
FinishHook ==
  /\ \/ /\ finish.at = "check"
        /\ finish' = [finish EXCEPT !.at = IF tomb THEN "done" ELSE "write"]
        /\ trace' = IF tomb THEN [at |-> "check", status |-> finish.status] ELSE trace
        /\ UNCHANGED <<row, faults>>
     \/ /\ finish.at = "write"
        /\ finish' = [finish EXCEPT !.at = "done"]
        /\ trace' = [at |-> "check", status |-> finish.status]
        /\ \/ Upsert(finish.status) /\ UNCHANGED faults
           \/ Fault /\ UNCHANGED row
  /\ UNCHANGED <<live, recent, tomb, poller, start, deleter>>

\* captureRunTrace: a check, the fetch, and the check of archiveRunTrace; the
\* status is forced to the outcome the hook knows.
TraceHook ==
  /\ \/ /\ trace.at \in {"check", "recheck"}
        /\ trace' = [trace EXCEPT !.at = IF tomb THEN "done"
                                         ELSE IF trace.at = "check" THEN "fetch" ELSE "write"]
        /\ UNCHANGED <<row, faults>>
     \/ /\ trace.at = "fetch"
        /\ \/ Listed /\ trace' = [trace EXCEPT !.at = "recheck"] /\ UNCHANGED faults
           \/ ~Listed /\ trace' = [trace EXCEPT !.at = "done"] /\ UNCHANGED faults
           \/ Fault /\ trace' = [trace EXCEPT !.at = "done"]
        /\ UNCHANGED row
     \/ /\ trace.at = "write"
        /\ trace' = [trace EXCEPT !.at = "done"]
        /\ \/ WriteTrace(trace.status) /\ UNCHANGED faults
           \/ Fault /\ UNCHANGED row
  /\ UNCHANGED <<live, recent, tomb, poller, start, finish, deleter>>

-----------------------------------------------------------------------------
(* The archiver.  Its stages: "list" with the listed status in hand, "check"   *)
(* and "write" of upsertRun, "fetch", "recheck" and "trace" of the step trace. *)

Poller(stage) == poller' = [poller EXCEPT !.at = stage]

\* The archiver's next stage once the status is up to date; needTrace.
AfterUpsert(had) ==
  IF poller.status \in Terminal /\ ~had THEN "fetch" ELSE "idle"

\* listRecentRuns: a run out of the window is not looked at again.
List ==
  /\ poller.at = "idle" /\ Listed /\ recent
  /\ poller' = [at |-> "list", status |-> live, had |-> FALSE]
  /\ UNCHANGED <<live, recent, row, tomb, deleter, faults>> /\ UNCHANGED hooks

\* readRunSyncState, and what tick makes of it.
ReadState_TraceOnlyIfChanged ==
  /\ poller.at = "list"
  /\ poller' = [poller EXCEPT !.had = row.traced,
                              !.at = IF row.status # poller.status THEN "check" ELSE "idle"]
  /\ UNCHANGED <<live, recent, row, tomb, deleter, faults>> /\ UNCHANGED hooks

ReadState ==
  /\ poller.at = "list"
  /\ poller' = [poller EXCEPT !.had = row.traced,
                              !.at = IF row.status # poller.status THEN "check"
                                     ELSE AfterUpsert(row.traced)]
  /\ UNCHANGED <<live, recent, row, tomb, deleter, faults>> /\ UNCHANGED hooks

\* upsertRun; if it throws, the tick is over.
UpsertRun ==
  /\ \/ /\ poller.at = "check"
        /\ Poller(IF tomb THEN AfterUpsert(poller.had) ELSE "write")
        /\ UNCHANGED <<row, faults>>
     \/ /\ poller.at = "write"
        /\ \/ Upsert(poller.status) /\ Poller(AfterUpsert(poller.had)) /\ UNCHANGED faults
           \/ Fault /\ Poller("idle") /\ UNCHANGED row
  /\ UNCHANGED <<live, recent, tomb, deleter>> /\ UNCHANGED hooks

\* getRunHistory and archiveRunTrace; what they throw is only logged.
FetchTrace ==
  /\ \/ /\ poller.at = "fetch"
        /\ \/ /\ Listed
              /\ poller' = [poller EXCEPT !.at = "recheck", !.status = live]
              /\ UNCHANGED faults
           \/ ~Listed /\ Poller("idle") /\ UNCHANGED faults
           \/ Fault /\ Poller("idle")
        /\ UNCHANGED row
     \/ /\ poller.at = "recheck"
        /\ Poller(IF tomb THEN "idle" ELSE "trace")
        /\ UNCHANGED <<row, faults>>
     \/ /\ poller.at = "trace"
        /\ Poller("idle")
        /\ \/ WriteTrace(poller.status) /\ UNCHANGED faults
           \/ Fault /\ UNCHANGED row
  /\ UNCHANGED <<live, recent, tomb, deleter>> /\ UNCHANGED hooks

\* The archiver is killed in the middle of a tick and starts again.
Die ==
  /\ poller.at # "idle"
  /\ Fault /\ Poller("idle")
  /\ UNCHANGED <<live, recent, row, tomb, deleter>> /\ UNCHANGED hooks

Tick == List \/ ReadState \/ UpsertRun \/ FetchTrace

-----------------------------------------------------------------------------
(* The operator's deletion *)

\* The route reads the status; a run the archive has never seen may go.
Ask ==
  /\ deleter = "idle" /\ live # "unborn"
  /\ row.status # "Running"
  /\ deleter' = "decided"
  /\ UNCHANGED <<live, recent, row, tomb, poller, faults>> /\ UNCHANGED hooks

\* tombstoneAndDeleteRuns: one transaction.
Delete ==
  /\ deleter = "decided"
  /\ deleter' = "idle"
  /\ \/ tomb' = TRUE /\ row' = NoRow /\ UNCHANGED faults
     \/ Fault /\ UNCHANGED <<tomb, row>>
  /\ UNCHANGED <<live, recent, poller>> /\ UNCHANGED hooks

-----------------------------------------------------------------------------

Init ==
  /\ live = "unborn"
  /\ recent = TRUE
  /\ row = NoRow
  /\ tomb = FALSE
  /\ poller = [at |-> "idle", status |-> "none", had |-> FALSE]
  /\ start = Idle /\ finish = Idle /\ trace = Idle
  /\ deleter = "idle"
  /\ faults = 0

Next ==
  \/ Begin \/ End \/ Settle \/ Cancel \/ Wipe \/ Age \/ Crash
  \/ StartHook \/ FinishHook \/ TraceHook
  \/ Tick \/ Die
  \/ Ask \/ Delete

Spec == Init /\ [][Next]_vars

\* The archiver goes on polling.  Nothing is assumed of hooks and operators.
LiveSpec == Spec /\ WF_vars(Tick)

-----------------------------------------------------------------------------
(* Properties *)

\* Types of the variables; only a row has a trace.
TypeOK ==
  /\ live \in Statuses \cup {"unborn", "wiped"}
  /\ recent \in BOOLEAN
  /\ row \in [status : Statuses \cup {"none"}, traced : BOOLEAN]
  /\ row.traced => row.status # "none"
  /\ tomb \in BOOLEAN
  /\ poller \in [at : {"idle", "list", "check", "write", "fetch", "recheck", "trace"},
                 status : Statuses \cup {"none"}, had : BOOLEAN]
  /\ \A h \in {start, finish, trace} :
       h \in [at : {"idle", "check", "fetch", "recheck", "write", "done"},
              status : Statuses \cup {"none"}]
  /\ deleter \in {"idle", "decided"}
  /\ faults \in 0 .. MaxFaults

\* Writers that looked before the tombstone was there and have yet to write.
Late ==
  \/ start.at = "write" \/ finish.at = "write" \/ trace.at = "write"
  \/ poller.at \in {"write", "trace"}

\* A deletion sticks: once the writers that were past their look for a tombstone
\* are through, nothing brings the run back or touches a row one of them left,
\* whatever the poller lists, the hooks report or the operator asks for again.
DeletionSticks ==
  [][tomb /\ ~Late => tomb' /\ ~Late' /\ row' \in {row, NoRow}]_vars

\* The archive catches up: while the dev server keeps and lists the ended run, its
\* row ends up with the dev server's verdict and the step trace, also when hooks
\* were lost, a stale listing overwrote a newer status, the run was cancelled while
\* it ended, or the archiver died between the status and the trace.  A run that has
\* left the window before it ended is not caught up with: its row keeps what the
\* hooks wrote, which may be "Running" for good.
ArchiveCatchesUp ==
  <>[](live \in Terminal /\ ~tomb /\ recent => row = [status |-> live, traced |-> TRUE])
=============================================================================
