--------------------------- MODULE RunArchiveProofs ---------------------------
(***************************************************************************)
(* Theorems about RunArchive, for any number of faults.                    *)
(***************************************************************************)
EXTENDS RunArchive, TLAPS

\* Whoever is at work on the run goes by a status the dev server has reported.
AtWork ==
  /\ poller.at # "idle" => poller.status \in Statuses
  /\ \A h \in {start, finish, trace} : h.at = "idle" \/ h.status \in Statuses
  /\ finish.at = "idle" => finish = Idle

TInv == TypeOK /\ AtWork

\* The archive starts empty and with nobody at work.
LEMMA InitTInv == Init => TInv
<1> SUFFICES ASSUME Init PROVE TInv
  OBVIOUS
<1>1. /\ live \in Statuses \cup {"unborn", "wiped"} /\ recent \in BOOLEAN
      /\ row \in [status : Statuses \cup {"none"}, traced : BOOLEAN]
      /\ row.traced => row.status # "none"
      /\ tomb \in BOOLEAN
  BY DEF Init, NoRow
<1>2. poller \in [at : {"idle", "list", "check", "write", "fetch", "recheck", "trace"},
                  status : Statuses \cup {"none"}, had : BOOLEAN]
  BY DEF Init
<1>3. \A h \in {start, finish, trace} :
        h \in [at : {"idle", "check", "fetch", "recheck", "write", "done"},
               status : Statuses \cup {"none"}]
  BY DEF Init, Idle
<1>4. deleter \in {"idle", "decided"} /\ faults \in 0 .. MaxFaults
  BY ArchiveAssumption DEF Init
<1>5. AtWork
  BY DEF Init, AtWork, Idle
<1>6. QED BY <1>1, <1>2, <1>3, <1>4, <1>5 DEF TInv, TypeOK

\* The row as TypeOK has it.
RowTyped ==
  /\ row \in [status : Statuses \cup {"none"}, traced : BOOLEAN]
  /\ row.traced => row.status # "none"

\* The writes keep the row well typed.
LEMMA WritesTyped ==
  ASSUME RowTyped, NEW s \in Statuses
  PROVE  /\ Upsert(s) => RowTyped'
         /\ UpsertStart => RowTyped'
         /\ WriteTrace(s) => RowTyped'
<1>1. /\ "none" \notin Statuses
      /\ "Running" \in Statuses
  BY DEF Statuses, Terminal
<1>2. CASE Upsert(s)
  BY <1>1, <1>2 DEF Upsert, RowTyped
<1>3. CASE UpsertStart
  BY <1>1, <1>3 DEF UpsertStart, RowTyped
<1>4. CASE WriteTrace(s)
  BY <1>1, <1>4 DEF WriteTrace, RowTyped, NoRow
<1>5. QED BY <1>2, <1>3, <1>4

\* The steps of the hooks keep the types.
LEMMA HooksTInv ==
  ASSUME TInv, StartHook \/ FinishHook \/ TraceHook
  PROVE  TInv'
<1> USE ArchiveAssumption
<1>1. CASE StartHook
  <2>1. RowTyped'
    BY <1>1, WritesTyped DEF RowTyped, StartHook, TInv, TypeOK, Statuses
  <2>2. QED BY <1>1, <2>1 DEF RowTyped, StartHook, TInv, TypeOK, AtWork, Fault, Idle
<1>2. CASE FinishHook
  <2>1. RowTyped'
    BY <1>2, WritesTyped DEF RowTyped, FinishHook, TInv, TypeOK, AtWork
  <2>2. QED BY <1>2, <2>1 DEF RowTyped, FinishHook, TInv, TypeOK, AtWork, Fault, Idle
<1>3. CASE TraceHook
  <2>1. RowTyped'
    BY <1>3, WritesTyped DEF RowTyped, TraceHook, TInv, TypeOK, AtWork
  <2>2. QED BY <1>3, <2>1 DEF RowTyped, TraceHook, TInv, TypeOK, AtWork, Fault, Idle
<1>4. QED BY <1>1, <1>2, <1>3

\* So do those of the archiver.
LEMMA PollerTInv ==
  ASSUME TInv, Tick \/ Die
  PROVE  TInv'
<1> USE ArchiveAssumption
<1>1. CASE List
  BY <1>1 DEF List, Listed, hooks, TInv, TypeOK, AtWork
<1>2. CASE ReadState
  <2>1. row.traced \in BOOLEAN
    BY DEF TInv, TypeOK
  <2>2. QED BY <1>2, <2>1 DEF ReadState, AfterUpsert, hooks, TInv, TypeOK, AtWork
<1>3. CASE UpsertRun
  <2>1. RowTyped'
    BY <1>3, WritesTyped DEF RowTyped, UpsertRun, TInv, TypeOK, AtWork
  <2>2. QED
    BY <1>3, <2>1 DEF RowTyped, UpsertRun, Poller, AfterUpsert, Fault, hooks, TInv, TypeOK, AtWork
<1>4. CASE FetchTrace
  <2>1. RowTyped'
    BY <1>4, WritesTyped DEF RowTyped, FetchTrace, TInv, TypeOK, AtWork
  <2>2. poller' \in [at : {"idle", "list", "check", "write", "fetch", "recheck", "trace"},
                     status : Statuses \cup {"none"}, had : BOOLEAN]
        /\ (poller'.at # "idle" => poller'.status \in Statuses)
    BY <1>4 DEF FetchTrace, Poller, Listed, TInv, TypeOK, AtWork
  <2>3. QED
    BY <1>4, <2>1, <2>2 DEF RowTyped, FetchTrace, Fault, hooks, TInv, TypeOK, AtWork
<1>5. CASE Die
  BY <1>5 DEF Die, Poller, Fault, hooks, TInv, TypeOK, AtWork
<1>6. QED BY <1>1, <1>2, <1>3, <1>4, <1>5 DEF Tick

\* And those of the dev server, the application and the operator.
LEMMA OthersTInv ==
  ASSUME TInv, Begin \/ End \/ Settle \/ Cancel \/ Wipe \/ Age \/ Crash \/ Ask \/ Delete
  PROVE  TInv'
<1> USE ArchiveAssumption DEF TInv, TypeOK, AtWork, hooks
<1>1. CASE Begin
  BY <1>1 DEF Begin, Statuses
<1>2. CASE End
  BY <1>2 DEF End, Statuses, Terminal, Idle
<1>3. CASE Settle
  BY <1>3 DEF Settle
<1>4. CASE Cancel
  BY <1>4 DEF Cancel, Statuses, Terminal
<1>5. CASE Wipe
  BY <1>5 DEF Wipe
<1>6. CASE Crash
  BY <1>6 DEF Crash, Fault, Idle
<1>7. CASE Ask
  BY <1>7 DEF Ask
<1>8. CASE Delete
  <2>1. CASE tomb' = TRUE /\ row' = NoRow /\ UNCHANGED faults
    <3>1. NoRow \in [status : Statuses \cup {"none"}, traced : BOOLEAN] /\ ~NoRow.traced
      BY DEF NoRow
    <3>2. QED BY <1>8, <2>1, <3>1 DEF Delete
  <2>2. CASE Fault /\ UNCHANGED <<tomb, row>>
    BY <1>8, <2>2 DEF Delete, Fault
  <2>3. QED BY <1>8, <2>1, <2>2 DEF Delete
<1>9. CASE Age
  BY <1>9 DEF Age
<1>10. QED BY <1>1, <1>2, <1>3, <1>4, <1>5, <1>6, <1>7, <1>8, <1>9

LEMMA NextTInv == TInv /\ [Next]_vars => TInv'
<1> SUFFICES ASSUME TInv, [Next]_vars PROVE TInv'
  OBVIOUS
<1>1. CASE UNCHANGED vars
  BY <1>1 DEF vars, hooks, TInv, TypeOK, AtWork
<1>2. QED BY <1>1, HooksTInv, PollerTInv, OthersTInv DEF Next

\* Every variable keeps its type, and nobody works with a status nobody reported.
THEOREM TypeCorrect == Spec => []TypeOK
<1>1. TInv => TypeOK
  BY DEF TInv
<1>2. QED BY <1>1, InitTInv, NextTInv, PTL DEF Spec

\* What a deletion leaves behind once the late writers are through: no step of
\* anybody takes it back.
LEMMA StepsKeepDeletion ==
  ASSUME TInv, [Next]_vars, tomb, ~Late
  PROVE  tomb' /\ ~Late' /\ row' \in {row, NoRow}
<1> USE DEF TInv, TypeOK, Late
<1>1. CASE StartHook
  BY <1>1 DEF StartHook
<1>2. CASE FinishHook
  BY <1>2 DEF FinishHook
<1>3. CASE TraceHook
  BY <1>3 DEF TraceHook
<1>4. CASE List \/ ReadState
  <2>1. CASE List
    BY <2>1 DEF List, hooks
  <2>2. CASE ReadState
    BY <2>2 DEF ReadState, AfterUpsert, hooks
  <2>3. QED BY <1>4, <2>1, <2>2
<1>5. CASE UpsertRun
  BY <1>5 DEF UpsertRun, Poller, AfterUpsert, hooks
<1>6. CASE FetchTrace
  BY <1>6 DEF FetchTrace, Poller, hooks
<1>7. CASE Die
  BY <1>7 DEF Die, Poller, hooks
<1>8. CASE Ask \/ Delete
  BY <1>8 DEF Ask, Delete, hooks
<1>9. CASE Begin \/ End
  <2>1. CASE Begin
    BY <2>1 DEF Begin
  <2>2. CASE End
    BY <2>2 DEF End
  <2>3. QED BY <1>9, <2>1, <2>2
<1>10. CASE Settle \/ Cancel \/ Wipe \/ Age
  BY <1>10 DEF Settle, Cancel, Wipe, Age, hooks
<1>11. CASE Crash
  BY <1>11 DEF Crash, Idle
<1>12. CASE UNCHANGED vars
  BY <1>12 DEF vars, hooks
<1>13. QED
  BY <1>1, <1>2, <1>3, <1>4, <1>5, <1>6, <1>7, <1>8, <1>9, <1>10, <1>11, <1>12
     DEF Next, Tick

\* However long the writers wait between their look for a tombstone and their
\* write, a deleted run stays deleted once those that were past the look are
\* through.
THEOREM DeletionIsFinal == Spec => DeletionSticks
<1>1. TInv /\ [Next]_vars => [tomb /\ ~Late => tomb' /\ ~Late' /\ row' \in {row, NoRow}]_vars
  BY StepsKeepDeletion
<1>2. QED BY <1>1, InitTInv, NextTInv, PTL DEF Spec, DeletionSticks
-----------------------------------------------------------------------------
(* How the archive catches up *)

\* What the archiver goes by in the middle of a tick: a terminal status is the
\* dev server's last word, unless it has forgotten the run; the trace is taken of
\* a run that has ended and has a row; and a trace the archiver found is there.
PollerInv ==
  /\ poller.at # "idle" /\ poller.status \in Terminal => live \in {poller.status, "wiped"}
  /\ poller.at \in {"fetch", "recheck", "trace"} => poller.status \in Terminal
  /\ ~tomb /\ poller.at \in {"check", "write"} /\ poller.had => row.traced
  /\ ~tomb /\ poller.at \in {"fetch", "recheck", "trace"} => row # NoRow

\* The dev server, hooks and operator, as far as the archiver cares: a run that
\* has begun has a status or is forgotten; a row is deleted with a tombstone; and
\* no write unsets the trace flag.
LEMMA OthersEffect ==
  ASSUME TInv, [Next]_vars
  PROVE  /\ live \in Terminal => live' \in {live, "wiped"}
         /\ live = "wiped" => live' = "wiped"
         /\ ~tomb' => /\ ~tomb
                      /\ row.traced => row'.traced
                      /\ row # NoRow => row' # NoRow
         /\ Tick \/ UNCHANGED poller \/ (Die /\ poller'.at = "idle")
<1> USE DEF TInv, TypeOK
<1>1. CASE StartHook
  BY <1>1 DEF StartHook, UpsertStart, NoRow
<1>2. CASE FinishHook
  BY <1>2 DEF FinishHook, Upsert, NoRow, AtWork, Statuses, Terminal
<1>3. CASE TraceHook
  BY <1>3 DEF TraceHook, WriteTrace, NoRow
<1>4. CASE List \/ ReadState
  BY <1>4 DEF List, ReadState, hooks, Tick
<1>5. CASE UpsertRun
  BY <1>5 DEF UpsertRun, Upsert, NoRow, AtWork, Statuses, Terminal, hooks, Tick
<1>6. CASE FetchTrace
  BY <1>6 DEF FetchTrace, WriteTrace, NoRow, hooks, Tick
<1>7. CASE Die
  BY <1>7 DEF Die, Poller, hooks
<1>8. CASE Ask \/ Delete
  BY <1>8 DEF Ask, Delete, hooks
<1>9. CASE Begin \/ End \/ Crash
  BY <1>9 DEF Begin, End, Crash, Terminal
<1>10. CASE Settle \/ Cancel \/ Wipe \/ Age
  BY <1>10 DEF Settle, Cancel, Wipe, Age, Listed, Statuses, Terminal, hooks
<1>11. CASE UNCHANGED vars
  BY <1>11 DEF vars, hooks
<1>12. QED
  BY <1>1, <1>2, <1>3, <1>4, <1>5, <1>6, <1>7, <1>8, <1>9, <1>10, <1>11 DEF Next, Tick

LEMMA PollerNext == TInv /\ PollerInv /\ [Next]_vars => PollerInv'
<1> SUFFICES ASSUME TInv, PollerInv, [Next]_vars PROVE PollerInv'
  OBVIOUS
<1>0. /\ live \in Terminal => live' \in {live, "wiped"}
      /\ live = "wiped" => live' = "wiped"
      /\ ~tomb' => /\ ~tomb
                   /\ row.traced => row'.traced
                   /\ row # NoRow => row' # NoRow
      /\ Tick \/ UNCHANGED poller \/ (Die /\ poller'.at = "idle")
  BY OthersEffect
<1>1. CASE UNCHANGED poller \/ poller'.at = "idle"
  BY <1>0, <1>1 DEF PollerInv
<1> USE DEF TInv, TypeOK, PollerInv
<1>2. CASE List
  BY <1>2 DEF List
<1>3. CASE ReadState
  <2>1. poller.status \in Statuses /\ poller.at = "list" /\ UNCHANGED <<live, row, tomb>>
    BY <1>3 DEF ReadState, AtWork
  <2>2. /\ poller' = [poller EXCEPT !.had = row.traced, !.at = poller'.at]
        /\ \/ poller'.at \in {"check", "idle"}
           \/ poller'.at = "fetch" /\ poller.status \in Terminal /\ row.status = poller.status
    BY <1>3, <2>1 DEF ReadState, AfterUpsert
  <2>3. row.status \in Statuses => row # NoRow
    BY DEF NoRow, Statuses, Terminal
  <2>4. QED BY <2>1, <2>2, <2>3
<1>4. CASE UpsertRun
  <2>1. poller.status \in Statuses /\ poller.at \in {"check", "write"} /\ UNCHANGED <<live, tomb>>
    BY <1>4 DEF UpsertRun, AtWork
  <2>2. /\ poller' = [poller EXCEPT !.at = poller'.at]
        /\ \/ poller'.at = "idle"
           \/ poller'.at = "write" /\ UNCHANGED row
           \/ /\ poller'.at = "fetch" /\ poller.status \in Terminal
              /\ tomb \/ Upsert(poller.status)
    BY <1>4, <2>1 DEF UpsertRun, AfterUpsert, Poller
  <2>3. Upsert(poller.status) => row' # NoRow
    BY <2>1 DEF Upsert, NoRow, Statuses, Terminal
  <2>4. QED BY <1>0, <2>1, <2>2, <2>3
<1>5. CASE FetchTrace
  <2>1. poller.status \in Terminal /\ live \in {poller.status, "wiped"} /\ UNCHANGED <<live, tomb>>
    BY <1>5 DEF FetchTrace
  <2>2. \/ poller'.at = "idle"
        \/ poller'.at = "recheck" /\ Listed /\ poller'.status = live /\ UNCHANGED row
             /\ poller.at = "fetch"
        \/ poller'.at = "trace" /\ poller'.status = poller.status /\ UNCHANGED row
             /\ poller.at = "recheck"
    BY <1>5 DEF FetchTrace, Poller
  <2>3. Listed => live = poller.status
    BY <2>1 DEF Listed, Statuses, Terminal
  <2>4. QED BY <1>0, <1>1, <2>1, <2>2, <2>3
<1>6. QED BY <1>0, <1>1, <1>2, <1>3, <1>4, <1>5 DEF Tick
\* The archive has the dev server's verdict and the trace.
CaughtUp == row = [status |-> live, traced |-> TRUE]

\* The archiver goes by a status the dev server no longer reports.
Stale == poller.at # "idle" /\ poller.status # live

\* The run has ended, the poller's listing still has it, and the archiver is the
\* only writer.
Quiet ==
  /\ live \in Terminal /\ recent /\ ~tomb
  /\ \A h \in {start, finish, trace} : h.at \in {"idle", "done"}

\* The steps of the archiver until the archive has caught up, at most: the rest
\* of a tick that goes by a stale status does not count.
StageLeft(stage) ==
  CASE stage = "idle" -> 7 [] stage = "list" -> 6 [] stage = "check" -> 5 [] stage = "write" -> 4
    [] stage = "fetch" -> 3 [] stage = "recheck" -> 2 [] OTHER -> 1
Left == IF Stale THEN 8 + StageLeft(poller.at)
        ELSE IF CaughtUp THEN 0 ELSE StageLeft(poller.at)

CatchesUp ==
  /\ Left \in 0 .. 15 /\ (Left = 0 <=> ~Stale /\ CaughtUp)
  /\ Quiet /\ Quiet' /\ faults' = faults =>
       IF Tick THEN Left' < Left \/ (Left = 0 /\ Left' = 0) ELSE Left' = Left

LEMMA LeftTyped == Left \in 0 .. 15 /\ (Left = 0 <=> ~Stale /\ CaughtUp)
<1>1. StageLeft(poller.at) \in 1 .. 7
  BY DEF StageLeft
<1>2. QED BY <1>1 DEF Left

LEMMA TickCatchesUp ==
  ASSUME TInv, PollerInv, Quiet, Quiet', Tick, faults' = faults
  PROVE  Left' < Left \/ (Left = 0 /\ Left' = 0)
<1> USE DEF TInv, TypeOK, PollerInv, Quiet
<1>0. live' = live /\ ~Fault /\ live \in Statuses /\ live # "wiped" /\ Listed
  BY DEF Tick, List, ReadState, UpsertRun, FetchTrace, Fault, Listed, Statuses, Terminal
<1>1. CASE List
  <2>1. poller.at = "idle" /\ poller'.at = "list" /\ poller'.status = live /\ UNCHANGED row
    BY <1>1 DEF List
  <2>2. ~Stale /\ ~Stale' /\ (CaughtUp' <=> CaughtUp)
    BY <1>0, <2>1 DEF Stale, CaughtUp
  <2>3. QED BY <2>1, <2>2 DEF Left, StageLeft
<1>2. CASE ReadState
  <2>1. /\ poller.at = "list" /\ UNCHANGED row /\ poller'.status = poller.status
        /\ poller'.at \in {"check", "fetch", "idle"}
        /\ row.status # poller.status => poller'.at = "check"
        /\ row.status = poller.status => poller'.at = AfterUpsert(row.traced)
    BY <1>2 DEF ReadState, AfterUpsert
  <2>2. CaughtUp' <=> CaughtUp
    BY <1>0, <2>1 DEF CaughtUp
  <2>3. CASE Stale
    BY <1>0, <2>1, <2>2, <2>3 DEF Left, StageLeft, Stale
  <2>4. CASE ~Stale
    <3>1. poller.status = live /\ ~Stale'
      BY <1>0, <2>1, <2>4 DEF Stale
    <3>2. poller'.at = "idle" => CaughtUp
      BY <2>1, <3>1 DEF AfterUpsert, CaughtUp
    <3>3. QED BY <2>1, <2>2, <2>4, <3>1, <3>2 DEF Left, StageLeft
  <2>5. QED BY <2>3, <2>4
<1>3. CASE UpsertRun /\ poller.at = "check"
  <2>1. UNCHANGED row /\ poller'.status = poller.status /\ poller'.at = "write"
    BY <1>3 DEF UpsertRun, Poller
  <2>2. (CaughtUp' <=> CaughtUp) /\ (Stale' <=> Stale)
    BY <1>0, <1>3, <2>1 DEF CaughtUp, Stale
  <2>3. QED BY <1>3, <2>1, <2>2 DEF Left, StageLeft
<1>4. CASE UpsertRun /\ poller.at = "write"
  <2>1. /\ row' = [status |-> poller.status, traced |-> row.traced]
        /\ poller' = [poller EXCEPT !.at = AfterUpsert(poller.had)]
    BY <1>0, <1>4 DEF UpsertRun, Upsert, Poller
  <2>2. poller'.status = poller.status /\ poller'.at = AfterUpsert(poller.had)
    BY <2>1
  <2>3. CASE Stale
    <3>1. poller'.at = "idle"
      BY <1>0, <1>4, <2>2, <2>3 DEF Stale, AfterUpsert
    <3>2. QED BY <1>4, <2>3, <3>1 DEF Left, StageLeft, Stale
  <2>4. CASE ~Stale
    <3>1. poller.status = live /\ ~Stale'
      BY <1>0, <1>4, <2>2, <2>4 DEF Stale
    <3>2. poller'.at \in {"fetch", "idle"} /\ (poller'.at = "idle" => CaughtUp')
      BY <1>0, <1>4, <2>1, <2>2, <3>1 DEF AfterUpsert, CaughtUp
    <3>3. CaughtUp => CaughtUp'
      BY <1>0, <2>1, <3>1 DEF CaughtUp
    <3>4. QED BY <1>4, <2>4, <3>1, <3>2, <3>3 DEF Left, StageLeft
  <2>5. QED BY <2>3, <2>4
<1>5. CASE FetchTrace
  <2>1. poller.status = live /\ ~Stale /\ poller.at \in {"fetch", "recheck", "trace"} /\ row # NoRow
    BY <1>0, <1>5 DEF FetchTrace, Stale
  <2>2. CASE poller.at = "fetch"
    <3>1. UNCHANGED row /\ poller'.status = live /\ poller'.at = "recheck"
      BY <1>0, <1>5, <2>2 DEF FetchTrace
    <3>2. ~Stale' /\ (CaughtUp' <=> CaughtUp)
      BY <1>0, <3>1 DEF Stale, CaughtUp
    <3>3. QED BY <2>1, <2>2, <3>1, <3>2 DEF Left, StageLeft
  <2>3. CASE poller.at = "recheck"
    <3>1. UNCHANGED row /\ poller'.status = live /\ poller'.at = "trace"
      BY <1>5, <2>1, <2>3 DEF FetchTrace, Poller
    <3>2. ~Stale' /\ (CaughtUp' <=> CaughtUp)
      BY <1>0, <3>1 DEF Stale, CaughtUp
    <3>3. QED BY <2>1, <2>3, <3>1, <3>2 DEF Left, StageLeft
  <2>4. CASE poller.at = "trace"
    <3>1. row' = [status |-> live, traced |-> TRUE] /\ poller'.at = "idle"
      BY <1>0, <1>5, <2>1, <2>4 DEF FetchTrace, Poller, WriteTrace
    <3>2. ~Stale' /\ CaughtUp'
      BY <1>0, <3>1 DEF Stale, CaughtUp
    <3>3. QED BY <2>1, <2>4, <3>2 DEF Left, StageLeft
  <2>5. QED BY <2>1, <2>2, <2>3, <2>4
<1>6. QED BY <1>1, <1>2, <1>3, <1>4, <1>5 DEF Tick, UpsertRun

LEMMA NextCatchesUp == TInv /\ PollerInv /\ [Next]_vars => CatchesUp
<1> SUFFICES ASSUME TInv, PollerInv, [Next]_vars, Quiet, Quiet', faults' = faults, ~Tick
             PROVE  Left' = Left
  BY LeftTyped, TickCatchesUp DEF CatchesUp
<1>1. UNCHANGED <<poller, row, live>>
  <2>1. ~Fault /\ TypeOK
    BY DEF Fault, TInv, TypeOK
  <2>2. CASE StartHook \/ FinishHook \/ TraceHook
    BY <2>2 DEF StartHook, FinishHook, TraceHook, Quiet
  <2>3. CASE Begin \/ End
    BY <2>3 DEF Begin, End, Quiet, Terminal
  <2>4. CASE Settle \/ Cancel \/ Wipe \/ Age
    BY <2>4 DEF Settle, Cancel, Wipe, Age, Quiet, Terminal
  <2>5. CASE Crash \/ Die \/ Ask \/ Delete
    BY <2>1, <2>5 DEF Crash, Die, Ask, Delete, Quiet
  <2>6. CASE UNCHANGED vars
    BY <2>6 DEF vars
  <2>7. QED BY <2>2, <2>3, <2>4, <2>5, <2>6 DEF Next
<1>2. QED BY <1>1 DEF Left, Stale, CaughtUp

\* The core of ArchiveCatchesUp: once a run has ended and the hooks are through, and
\* while its start lies within the poller's window, a few steps of the archiver
\* without a failure (Left bounds them), whatever it was in the middle of, bring the
\* row up to date, and no further tick changes that.
THEOREM ArchiverCatchesUp == Spec => [][CatchesUp]_vars
<1>1. Init => PollerInv
  BY DEF Init, PollerInv
<1>2. QED BY <1>1, InitTInv, NextTInv, PollerNext, NextCatchesUp, PTL DEF Spec

\* The archive has caught up, and nobody who still has a write before him goes by
\* another status.
Agreed ==
  /\ live \in Terminal /\ CaughtUp /\ ~Stale
  /\ finish # Idle /\ (finish.at \in {"check", "write"} => finish.status = live)
  /\ trace.at \notin {"idle", "done"} => trace.status = live

AgreedStays == Agreed => Agreed' \/ tomb' \/ live' = "wiped"

LEMMA NextAgreed == TInv /\ PollerInv /\ [Next]_vars => AgreedStays
<1> SUFFICES ASSUME TInv, PollerInv, [Next]_vars, Agreed, ~tomb', live' # "wiped" PROVE Agreed'
  BY DEF AgreedStays
<1>0. live' = live /\ live \in Statuses /\ row = [status |-> live, traced |-> TRUE] /\ row # NoRow
  BY OthersEffect DEF Agreed, Statuses, Terminal, CaughtUp, NoRow
<1> USE DEF Agreed, TInv, TypeOK
<1>1. CASE StartHook
  BY <1>0, <1>1 DEF StartHook, UpsertStart, Stale, CaughtUp
<1>2. CASE FinishHook
  BY <1>0, <1>2 DEF FinishHook, Upsert, Stale, CaughtUp, Idle
<1>3. CASE TraceHook
  BY <1>0, <1>3 DEF TraceHook, WriteTrace, Stale, CaughtUp
<1>4. CASE Tick
  <2>1. UNCHANGED <<finish, trace>>
    BY <1>4 DEF Tick, List, ReadState, UpsertRun, FetchTrace, hooks
  <2>2. ~Stale' /\ CaughtUp'
    <3>1. CASE List \/ ReadState
      <4>1. UNCHANGED row /\ (poller.at # "idle" => poller.status = live)
        BY <3>1 DEF List, ReadState, Stale
      <4>2. CASE List
        BY <1>0, <4>1, <4>2 DEF List, Stale, CaughtUp
      <4>3. CASE ReadState
        <5>1. poller'.status = poller.status
          BY <4>3 DEF ReadState
        <5>2. QED BY <1>0, <4>1, <4>3, <5>1 DEF ReadState, Stale, CaughtUp
      <4>4. QED BY <3>1, <4>2, <4>3
    <3>2. CASE UpsertRun
      BY <1>0, <3>2 DEF UpsertRun, Upsert, Poller, Stale, CaughtUp
    <3>3. CASE FetchTrace
      BY <1>0, <3>3 DEF FetchTrace, WriteTrace, Poller, Stale, CaughtUp
    <3>4. QED BY <1>4, <3>1, <3>2, <3>3 DEF Tick
  <2>3. QED BY <1>0, <2>1, <2>2
<1>5. CASE Begin \/ End \/ Settle \/ Cancel \/ Wipe
  BY <1>5 DEF Begin, End, Settle, Cancel, Wipe, Terminal
<1>6. CASE Crash
  BY <1>0, <1>6 DEF Crash, Stale, CaughtUp, Idle, Terminal
<1>7. CASE Die \/ Ask \/ Delete
  BY <1>0, <1>7 DEF Die, Ask, Delete, Poller, Stale, CaughtUp, hooks
<1>8. CASE UNCHANGED vars
  BY <1>8 DEF vars, hooks, Stale, CaughtUp
<1>9. CASE Age
  BY <1>0, <1>9 DEF Age, Stale, CaughtUp, hooks
<1>10. QED BY <1>1, <1>2, <1>3, <1>4, <1>5, <1>6, <1>7, <1>8, <1>9 DEF Next

\* A row that has caught up stays so, through hooks that report late, crashes and
\* failing writes and the end of the poller's window, until the dev server forgets
\* the run or an operator deletes it.
THEOREM CaughtUpStays == Spec => [][AgreedStays]_vars
<1>1. Init => PollerInv
  BY DEF Init, PollerInv
<1>2. QED BY <1>1, InitTInv, NextTInv, PollerNext, NextAgreed, PTL DEF Spec
=============================================================================
