---------------------------- MODULE BrainRunProofs ----------------------------
(***************************************************************************)
(* Theorems about BrainRun, for any clients, any length of a run, any      *)
(* replay buffer, and any number of failing writes and restarts.           *)
(***************************************************************************)
EXTENDS BrainRun, SequenceTheorems, TLAPS

\* What a sequence of events holds.
Has(s, kinds) == \E i \in 1 .. Len(s) : s[i] \in kinds

NoDone(s)  == ~Has(s, DoneKinds)
OneDone(s) ==
  \E i \in 1 .. Len(s) : s[i] \in DoneKinds /\ \A j \in 1 .. Len(s) : s[j] \in DoneKinds => j = i

Honest(s) ==
  /\ ~Has(s, {"error", "errored"})
  /\ (Has(s, {"finished"}) /\ Has(s, {"agent"})) \/ ~Has(s, {"agent", "sandbox"})

\* Events of a sequence that is continued.
LEMMA HasCat ==
  ASSUME NEW s \in Seq(Kinds), NEW t \in Seq(Kinds), NEW kinds
  PROVE  /\ s \o t \in Seq(Kinds)
         /\ Has(s \o t, kinds) <=> Has(s, kinds) \/ Has(t, kinds)
<1>1. /\ s \o t \in Seq(Kinds)
      /\ Len(s \o t) = Len(s) + Len(t)
      /\ \A i \in 1 .. Len(s) : (s \o t)[i] = s[i]
      /\ \A i \in 1 .. Len(t) : (s \o t)[Len(s) + i] = t[i]
      /\ Len(s) \in Nat /\ Len(t) \in Nat
  OBVIOUS
<1>2. ASSUME NEW i \in 1 .. Len(s) + Len(t), (s \o t)[i] \in kinds
      PROVE  Has(s, kinds) \/ Has(t, kinds)
  <2>1. CASE i \in 1 .. Len(s)
    BY <1>1, <1>2, <2>1 DEF Has
  <2>2. CASE i \notin 1 .. Len(s)
    <3>1. i - Len(s) \in 1 .. Len(t) /\ i = Len(s) + (i - Len(s))
      BY <1>1, <2>2
    <3>2. QED BY <1>1, <1>2, <3>1 DEF Has
  <2>3. QED BY <2>1, <2>2
<1>3. ASSUME NEW i \in 1 .. Len(t), t[i] \in kinds PROVE Has(s \o t, kinds)
  BY <1>1, <1>3 DEF Has
<1>4. ASSUME NEW i \in 1 .. Len(s), s[i] \in kinds PROVE Has(s \o t, kinds)
  BY <1>1, <1>4 DEF Has
<1>5. QED BY <1>1, <1>2, <1>3, <1>4 DEF Has

LEMMA OneDoneCat ==
  ASSUME NEW s \in Seq(Kinds), NEW t \in Seq(Kinds),
         (NoDone(s) /\ OneDone(t)) \/ (OneDone(s) /\ NoDone(t))
  PROVE  OneDone(s \o t)
<1>1. /\ Len(s \o t) = Len(s) + Len(t)
      /\ \A i \in 1 .. Len(s) : (s \o t)[i] = s[i]
      /\ \A i \in 1 .. Len(t) : (s \o t)[Len(s) + i] = t[i]
      /\ Len(s) \in Nat /\ Len(t) \in Nat
  OBVIOUS
<1>2. \A i \in 1 .. Len(s) + Len(t) :
        i \in 1 .. Len(s) \/ (i - Len(s) \in 1 .. Len(t) /\ (s \o t)[i] = t[i - Len(s)])
  <2>1. TAKE i \in 1 .. Len(s) + Len(t)
  <2>2. CASE i \notin 1 .. Len(s)
    <3>1. i - Len(s) \in 1 .. Len(t) /\ i = Len(s) + (i - Len(s))
      BY <1>1, <2>2
    <3>2. QED BY <1>1, <3>1
  <2>3. QED BY <2>2
<1>3. CASE NoDone(s) /\ OneDone(t)
  <2>1. PICK i \in 1 .. Len(t) :
          t[i] \in DoneKinds /\ \A j \in 1 .. Len(t) : t[j] \in DoneKinds => j = i
    BY <1>3 DEF OneDone
  <2>2. Len(s) + i \in 1 .. Len(s \o t) /\ (s \o t)[Len(s) + i] \in DoneKinds
    BY <1>1, <2>1
  <2>3. \A j \in 1 .. Len(s \o t) : (s \o t)[j] \in DoneKinds => j = Len(s) + i
    <3>1. TAKE j \in 1 .. Len(s \o t)
    <3>2. HAVE (s \o t)[j] \in DoneKinds
    <3>3. j \notin 1 .. Len(s)
      BY <1>1, <1>3, <3>2 DEF NoDone, Has
    <3>4. j - Len(s) \in 1 .. Len(t) /\ t[j - Len(s)] \in DoneKinds
      BY <1>1, <1>2, <3>2, <3>3
    <3>5. j - Len(s) = i
      BY <2>1, <3>4
    <3>6. j \in Int
      BY <1>1
    <3>7. QED BY <1>1, <3>5, <3>6
  <2>4. QED BY <2>2, <2>3 DEF OneDone
<1>4. CASE OneDone(s) /\ NoDone(t)
  <2>1. PICK i \in 1 .. Len(s) :
          s[i] \in DoneKinds /\ \A j \in 1 .. Len(s) : s[j] \in DoneKinds => j = i
    BY <1>4 DEF OneDone
  <2>2. i \in 1 .. Len(s \o t) /\ (s \o t)[i] \in DoneKinds
    BY <1>1, <2>1
  <2>3. \A j \in 1 .. Len(s \o t) : (s \o t)[j] \in DoneKinds => j = i
    BY <1>1, <1>2, <1>4, <2>1 DEF NoDone, Has
  <2>4. QED BY <2>2, <2>3 DEF OneDone
<1>5. QED BY <1>3, <1>4

LEMMA Single ==
  ASSUME NEW k \in Kinds
  PROVE  /\ <<k>> \in Seq(Kinds)
         /\ \A kinds : Has(<<k>>, kinds) <=> k \in kinds
         /\ OneDone(<<k>>) <=> k \in DoneKinds
  BY DEF Has, OneDone

LEMMA Nothing ==
  /\ <<>> \in Seq(Kinds)
  /\ \A kinds : ~Has(<<>>, kinds)
  BY DEF Has

-----------------------------------------------------------------------------
(* The inductive invariant *)

\* How many done events there are, from where the driver stands.
DoneInv ==
  /\ driver \in {"none", "loop"} => gen # "over" /\ NoDone(log)
  /\ driver = "mirroring" => IF gen = "over" THEN OneDone(log) ELSE NoDone(log)
  /\ driver = "closing" => NoDone(log) \/ OneDone(log)
  /\ driver \in {"finalizing", "over", "evicted"} => OneDone(log)

\* Where the status of the run, and that of its row, come from.
StatusInv ==
  /\ driver = "none" => stopped = "no" /\ status = "running" /\ row.status = "none"
  /\ stopped = "live" => status = "aborted"
  /\ stopped = "late" => status # "running" /\ row.status \in {"aborted", status}
  /\ stopped = "orphan" => driver \in {"over", "evicted", "gone"} /\ row.status = "aborted"
  /\ driver \in {"loop", "mirroring"} => status # "done"
  /\ driver \in {"closing", "finalizing", "over", "evicted"} => status # "running"
  /\ driver \notin {"over", "evicted", "gone"} => row.status \in {"none", "running", "aborted"}
  /\ stopped = "live" => row.status \in {"none", "running", "aborted"}

\* A stop fixes the verdict s from which the driver still has to write the row.
Fixed(s) ==
  /\ stopped = "live" => s = "aborted"
  /\ stopped = "late" => s = status

\* A clean status means a clean run.
HonestInv ==
  /\ status = "running" => ~Has(log, {"error", "errored"})
  /\ driver = "mirroring" /\ gen = "over" /\ status = "running" => Honest(log)
  /\ status = "done" => Honest(log)
  /\ row.status = "done" => Honest(log)

Inv == TypeOK /\ DoneInv /\ StatusInv /\ HonestInv

LEMMA InitInv == Init => Inv
<1> SUFFICES ASSUME Init PROVE Inv
  OBVIOUS
<1>1. NoDone(log) /\ ~Has(log, {"error", "errored"})
  BY Nothing DEF Init, NoDone
<1>2. TypeOK
  <2>1. log \in Seq(Kinds) /\ got \in [Clients -> Seq(Nat)] /\ live \subseteq Clients
    BY DEF Init
  <2>2. /\ driver \in Registry \cup {"none", "evicted", "gone"}
        /\ gen \in {"turns", "failed", "over"}
        /\ status \in Verdicts \cup {"running"}
        /\ conn \in [Clients -> {"away", "open", "closed"}]
    BY DEF Init, Registry, Verdicts
  <2>0. {0} \subseteq (0 .. MaxBuffer) \cap (0 .. MaxFaults) \cap (0 .. MaxRestarts)
    BY RunAssumption
  <2>3. /\ snapshot \in 0 .. MaxBuffer
        /\ row \in [status : Verdicts \cup {"none", "running"}, script : 0 .. MaxBuffer]
        /\ stopped \in {"no", "live", "late", "orphan"}
        /\ faults \in 0 .. MaxFaults
        /\ restarts \in 0 .. MaxRestarts
    BY <2>0 DEF Init
  <2>4. QED BY <2>1, <2>2, <2>3 DEF TypeOK
<1>3. DoneInv /\ StatusInv /\ HonestInv
  BY <1>1 DEF Init, DoneInv, StatusInv, HonestInv
<1>4. QED BY <1>2, <1>3 DEF Inv

-----------------------------------------------------------------------------
(* The event stream *)

\* What emitting touches, besides the log.
StreamTypes ==
  /\ conn \in [Clients -> {"away", "open", "closed"}]
  /\ live \subseteq Clients
  /\ got \in [Clients -> Seq(Nat)]

LEMMA PositionsTyped ==
  ASSUME NEW m \in Nat, NEW n \in Nat, m <= n + 1
  PROVE  Positions(m, n) \in Seq(Nat)
<1>1. n + 1 - m \in Nat /\ \A i \in 1 .. (n + 1 - m) : m + i - 1 \in Nat
  OBVIOUS
<1>2. QED BY <1>1 DEF Positions

LEMMA EmitTyped ==
  ASSUME TypeOK, NEW es \in Seq(Kinds), Emit(es)
  PROVE  log' = log \o es /\ log' \in Seq(Kinds) /\ StreamTypes'
<1>1. log \in Seq(Kinds) /\ Len(log) \in Nat /\ Len(es) \in Nat
  BY DEF TypeOK
<1>2. log' = log \o es /\ log' \in Seq(Kinds)
  BY <1>1, HasCat DEF Emit
<1>3. Positions(Len(log) + 1, Len(log) + Len(es)) \in Seq(Nat)
  BY <1>1, PositionsTyped
<1>4. \A c \in Clients : got[c] \o Positions(Len(log) + 1, Len(log) + Len(es)) \in Seq(Nat)
  BY <1>3 DEF TypeOK
<1>5. got' \in [Clients -> Seq(Nat)]
  BY <1>4 DEF Emit, TypeOK
<1>6. conn' \in [Clients -> {"away", "open", "closed"}] /\ live' \subseteq Clients
  BY DEF Emit, TypeOK
<1>7. QED BY <1>2, <1>5, <1>6 DEF StreamTypes

LEMMA BufferedTyped == \A n \in Nat : Buffered(n) \in 0 .. MaxBuffer
  BY RunAssumption DEF Buffered

\* What happens when the loop is left: the log ends with one done event, unless
\* the driver still has a reflection to write.
LEMMA WindDownEnds ==
  ASSUME TypeOK, NEW s \in Verdicts, NEW es \in Seq(Kinds), WindDown(s, es),
         NoDone(log \o es) \/ OneDone(log \o es)
  PROVE  /\ status' = s /\ driver' \in {"closing", "finalizing"}
         /\ log' \in Seq(Kinds) /\ StreamTypes'
         /\ driver' = "closing" => log' = log \o es
         /\ driver' = "finalizing" => OneDone(log')
         /\ log' \in {log \o es, log \o es \o <<LastWord(s)>>}
<1>0. log \in Seq(Kinds) /\ log \o es \in Seq(Kinds)
  BY HasCat DEF TypeOK
<1>1. LastWord(s) \in DoneKinds /\ LastWord(s) \in Kinds
  BY DEF LastWord, DoneKinds, Kinds
<1> DEFINE t  == log \o es
           more == IF ("agent" \in ToSet(t) /\ "reflect" \notin ToSet(t))
                      \/ ToSet(t) \cap DoneKinds # {} THEN <<>> ELSE <<LastWord(s)>>
<1>2. more \in Seq(Kinds)
  BY <1>1, Single, Nothing
<1>3. Emit(es \o more) /\ es \o more \in Seq(Kinds)
  BY <1>2, HasCat DEF WindDown
<1>4. log' = log \o (es \o more) /\ log' \in Seq(Kinds) /\ StreamTypes'
  BY <1>3, EmitTyped
<1> HIDE DEF more
<1>5. log' = t \o more
  <2>1. log \in Seq(Kinds)
    BY DEF TypeOK
  <2>2. (log \o es) \o more = log \o (es \o more)
    BY <1>2, <2>1, ConcatAssociative
  <2>3. QED BY <1>4, <2>2
<1>6. /\ status' = s
      /\ driver' = IF "agent" \in ToSet(t) /\ "reflect" \notin ToSet(t)
                   THEN "closing" ELSE "finalizing"
  BY DEF WindDown
<1>7. ToSet(t) \cap DoneKinds # {} <=> Has(t, DoneKinds)
  BY <1>0 DEF ToSet, Has
<1> HIDE DEF t
<1>8. t \o <<>> = t /\ t \in Seq(Kinds)
  BY <1>0 DEF t
<1>9. CASE ToSet(t) \cap DoneKinds # {} \/ driver' = "closing"
  <2>1. more = <<>>
    BY <1>6, <1>9 DEF more
  <2>2. log' = t
    BY <1>5, <1>8, <2>1
  <2>3. driver' = "finalizing" => OneDone(t)
    BY <1>7, <1>9 DEF NoDone, t
  <2>4. QED BY <1>4, <1>6, <2>2, <2>3 DEF t
<1>10. CASE ToSet(t) \cap DoneKinds = {} /\ driver' # "closing"
  <2>1. more = <<LastWord(s)>>
    BY <1>6, <1>10 DEF more
  <2>2. NoDone(t) /\ OneDone(more) /\ more \in Seq(Kinds)
    BY <1>1, <1>2, <1>7, <1>10, <2>1, Single DEF NoDone
  <2>3. OneDone(t \o more)
    BY <1>8, <2>2, OneDoneCat
  <2>4. log' = t \o <<LastWord(s)>>
    BY <1>5, <2>1, Zenon
  <2>5. driver' = "finalizing"
    BY <1>6, <1>10
  <2>6. OneDone(log')
    BY <1>5, <2>3
  <2>7. QED BY <1>4, <1>6, <2>4, <2>5, <2>6, Zenon DEF t
<1>11. QED BY <1>9, <1>10

-----------------------------------------------------------------------------
(* The steps *)

\* A step that leaves the run and its row alone.
LEMMA Bystander ==
  ASSUME Inv, UNCHANGED <<driver, gen, status, log, snapshot, row, stopped, faults, restarts>>,
         StreamTypes'
  PROVE  Inv'
<1>1. DoneInv' /\ StatusInv' /\ HonestInv'
  BY DEF Inv, DoneInv, StatusInv, HonestInv
<1>2. TypeOK'
  BY DEF Inv, TypeOK, StreamTypes
<1>3. QED BY <1>1, <1>2 DEF Inv

\* The replay ends inside the log: there is at most one done event in it.
LEMMA ReplayTyped ==
  ASSUME Inv, driver \in Registry
  PROVE  ReplayEnd \in Nat
<1> DEFINE dones == {i \in 1 .. Buffered(Len(log)) : log[i] \in DoneKinds}
<1>1. Len(log) \in Nat /\ Buffered(Len(log)) \in Nat /\ Buffered(Len(log)) <= Len(log)
  BY RunAssumption DEF Inv, TypeOK, Buffered
<1>2. NoDone(log) \/ OneDone(log)
  BY DEF Inv, DoneInv, Registry
<1>3. \A i, j \in dones : i = j
  BY <1>1, <1>2 DEF NoDone, OneDone, Has
<1>4. dones \subseteq Nat
  BY <1>1
<1>5. ASSUME NEW i \in dones PROVE \A j \in dones : i <= j
  BY <1>3, <1>4, <1>5
<1> HIDE DEF dones
<1>6. CASE dones = {}
  BY <1>1, <1>6 DEF ReplayEnd, dones
<1>7. CASE dones # {}
  <2>1. PICK m \in dones : \A j \in dones : m <= j
    BY <1>5, <1>7
  <2>2. (CHOOSE i \in dones : \A j \in dones : i <= j) \in dones
    BY <2>1
  <2>3. QED BY <1>4, <1>7, <2>2 DEF ReplayEnd, dones
<1>8. QED BY <1>6, <1>7

\* Connections that come and go.
LEMMA ClientsInv ==
  ASSUME Inv, NEW c \in Clients, Attach(c) \/ Replay(c) \/ Leave(c)
  PROVE  Inv'
<1>0. TypeOK
  BY DEF Inv
<1>1. CASE Attach(c)
  <2>1. ReplayEnd \in Nat
    BY <1>1, ReplayTyped DEF Attach
  <2>2. Positions(1, ReplayEnd) \in Seq(Nat)
    BY <2>1, PositionsTyped
  <2>3. got' = [got EXCEPT ![c] = Positions(1, ReplayEnd)]
    BY <1>1 DEF Attach
  <2>4. /\ conn' \in {[conn EXCEPT ![c] = "closed"], [conn EXCEPT ![c] = "open"]}
        /\ live' \in {live, live \cup {c}}
        /\ UNCHANGED <<driver, gen, status, log, snapshot, row, stopped, faults, restarts>>
    BY <1>1 DEF Attach
  <2>5. StreamTypes'
    BY <1>0, <2>2, <2>3, <2>4 DEF TypeOK, StreamTypes
  <2>6. QED BY <2>4, <2>5, Bystander
<1>2. CASE Replay(c)
  <2>1. Positions(1, row.script) \in Seq(Nat)
    BY <1>0, PositionsTyped, RunAssumption DEF TypeOK
  <2>2. StreamTypes'
    BY <1>0, <1>2, <2>1 DEF TypeOK, Replay, StreamTypes
  <2>3. QED BY <1>2, <2>2, Bystander DEF Replay
<1>3. CASE Leave(c)
  <2>1. <<>> \in Seq(Nat)
    OBVIOUS
  <2>2. StreamTypes'
    BY <1>0, <1>3, <2>1 DEF TypeOK, Leave, StreamTypes
  <2>3. QED BY <1>3, <2>2, Bystander DEF Leave
<1>4. QED BY <1>1, <1>2, <1>3

\* A run is started; its row is written, or not.
LEMMA OpenInv ==
  ASSUME Inv, NEW c \in Clients, Open(c)
  PROVE  Inv'
<1>0. TypeOK
  BY DEF Inv
<1>1. /\ driver = "none" /\ driver' = "loop" /\ status' = "running"
      /\ row' \in {row, [status |-> "running", script |-> 0]}
      /\ UNCHANGED <<gen, log, snapshot, got, stopped, restarts>>
      /\ conn' = [conn EXCEPT ![c] = "open"] /\ live' = {c}
  BY DEF Open
<1>2. faults' \in 0 .. MaxFaults
  BY <1>0, RunAssumption DEF Open, Fault, TypeOK
<1>3. row' \in [status : Verdicts \cup {"none", "running"}, script : 0 .. MaxBuffer]
  <2>1. 0 \in 0 .. MaxBuffer
    BY RunAssumption
  <2>2. QED BY <1>0, <1>1, <2>1 DEF TypeOK
<1>4. TypeOK'
  BY <1>0, <1>1, <1>2, <1>3 DEF TypeOK, Registry
<1>5. DoneInv' /\ StatusInv'
  BY <1>0, <1>1 DEF Inv, DoneInv, StatusInv
<1>6. HonestInv'
  <2>1. ~Has(log, {"error", "errored"})
    BY <1>1 DEF Inv, StatusInv, HonestInv
  <2>2. QED BY <1>1, <2>1 DEF Inv, HonestInv
<1>7. QED BY <1>4, <1>5, <1>6 DEF Inv

\* An event that is not done, and no error, changes neither verdict.
LEMMA Harmless ==
  ASSUME NEW s \in Seq(Kinds), NEW k \in {"message", "reflect", "incomplete"}
  PROVE  /\ Has(s \o <<k>>, {"error", "errored"}) <=> Has(s, {"error", "errored"})
         /\ Honest(s) => Honest(s \o <<k>>)
         /\ k # "incomplete" => /\ NoDone(s) => NoDone(s \o <<k>>)
                                /\ OneDone(s) => OneDone(s \o <<k>>)
<1>1. k \in Kinds /\ <<k>> \in Seq(Kinds) /\ \A kinds : Has(<<k>>, kinds) <=> k \in kinds
  BY Single DEF Kinds, Progress, DoneKinds
<1>2. \A kinds : Has(s \o <<k>>, kinds) <=> Has(s, kinds) \/ k \in kinds
  BY <1>1, HasCat
<1>3. Honest(s) => Honest(s \o <<k>>)
  BY <1>2 DEF Honest
<1>4. ASSUME k # "incomplete" PROVE NoDone(<<k>>) /\ (NoDone(s) => NoDone(s \o <<k>>))
  BY <1>1, <1>2, <1>4 DEF NoDone, DoneKinds
<1>5. ASSUME k # "incomplete", OneDone(s) PROVE OneDone(s \o <<k>>)
  BY <1>1, <1>4, <1>5, OneDoneCat
<1>6. QED BY <1>2, <1>3, <1>4, <1>5

\* The stop route.
LEMMA AbortInv ==
  ASSUME Inv, Abort
  PROVE  Inv'
<1>0. TypeOK
  BY DEF Inv
<1>1. /\ driver \in Registry /\ status = "running" /\ status' = "aborted" /\ stopped' = "live"
      /\ Emit(<<"message">>)
      /\ UNCHANGED <<driver, gen, snapshot, row, faults, restarts>>
  BY DEF Abort
<1>2. "message" \in Kinds /\ log \in Seq(Kinds)
  BY <1>0 DEF Kinds, Progress, TypeOK
<1>3. log' = log \o <<"message">> /\ log' \in Seq(Kinds) /\ StreamTypes'
  BY <1>0, <1>1, <1>2, Single, EmitTyped
<1>4. /\ NoDone(log) => NoDone(log')
      /\ OneDone(log) => OneDone(log')
      /\ Honest(log) => Honest(log')
  BY <1>2, <1>3, Harmless
<1>5. TypeOK'
  BY <1>0, <1>1, <1>3 DEF TypeOK, StreamTypes, Verdicts
<1>6. DoneInv'
  BY <1>1, <1>4 DEF Inv, DoneInv
<1>7. StatusInv'
  BY <1>1 DEF Inv, StatusInv, Registry
<1>8. HonestInv'
  BY <1>1, <1>4 DEF Inv, HonestInv
<1>9. QED BY <1>5, <1>6, <1>7, <1>8 DEF Inv

\* The rest of the life of a run that is not in its loop.
LEMMA AfterwardsInv ==
  ASSUME Inv, Finalize \/ Evict \/ ForceFinalize \/ Restart
  PROVE  Inv'
<1>0. TypeOK
  BY DEF Inv
<1>1. CASE Finalize
  <2>1. /\ driver = "finalizing" /\ driver' = "over"
        /\ row' \in {row, [status |-> status, script |-> Buffered(Len(log))]}
        /\ UNCHANGED <<gen, status, log, snapshot, conn, live, got, stopped, restarts>>
    BY <1>1 DEF Finalize
  <2>2. faults' \in 0 .. MaxFaults
    BY <1>0, <1>1, RunAssumption DEF Finalize, Fault, TypeOK
  <2>3. Buffered(Len(log)) \in 0 .. MaxBuffer
    BY <1>0, BufferedTyped DEF TypeOK
  <2>4. row' \in [status : Verdicts \cup {"none", "running"}, script : 0 .. MaxBuffer]
    BY <1>0, <2>1, <2>3 DEF TypeOK
  <2>5. TypeOK'
    BY <1>0, <2>1, <2>2, <2>4 DEF TypeOK, Registry
  <2>6. DoneInv' /\ StatusInv' /\ HonestInv'
    BY <2>1 DEF Inv, DoneInv, StatusInv, HonestInv
  <2>7. QED BY <2>5, <2>6 DEF Inv
<1>2. CASE Evict
  <2>1. /\ driver = "over" /\ driver' = "evicted"
        /\ UNCHANGED <<gen, status, log, snapshot, conn, live, got, row, stopped,
                       faults, restarts>>
    BY <1>2 DEF Evict
  <2>2. TypeOK'
    BY <1>0, <2>1 DEF TypeOK
  <2>3. DoneInv' /\ StatusInv' /\ HonestInv'
    BY <2>1 DEF Inv, DoneInv, StatusInv, HonestInv
  <2>4. QED BY <2>2, <2>3 DEF Inv
<1>3. CASE ForceFinalize
  <2>1. /\ driver \notin Registry \/ status # "running"
        /\ row.status = "running" /\ row' = [row EXCEPT !.status = "aborted"]
        /\ stopped' = (IF stopped # "no" THEN stopped
                       ELSE IF driver \in Registry \ {"over"} THEN "late" ELSE "orphan")
        /\ UNCHANGED <<driver, gen, status, log, snapshot, conn, live, got, faults, restarts>>
    BY <1>3 DEF ForceFinalize
  <2>2. /\ row' \in [status : Verdicts \cup {"none", "running"}, script : 0 .. MaxBuffer]
        /\ row'.status = "aborted"
    BY <1>0, <2>1 DEF TypeOK, Verdicts
  <2>3. TypeOK'
    BY <1>0, <2>1, <2>2 DEF TypeOK
  <2>4. DoneInv' /\ HonestInv'
    BY <2>1, <2>2 DEF Inv, DoneInv, HonestInv
  <2>5. StatusInv'
    BY <1>0, <2>1, <2>2 DEF Inv, StatusInv, TypeOK, Registry
  <2>6. QED BY <2>3, <2>4, <2>5 DEF Inv
<1>4. CASE Restart
  <2>1. /\ driver # "none" /\ driver' = "gone"
        /\ restarts' = restarts + 1 /\ restarts < MaxRestarts
        /\ conn' = [c \in Clients |-> IF conn[c] = "open" THEN "away" ELSE conn[c]]
        /\ live' = {}
        /\ got'  = [c \in Clients |-> IF conn[c] = "open" THEN <<>> ELSE got[c]]
        /\ UNCHANGED <<gen, status, log, snapshot, row, stopped, faults>>
    BY <1>4 DEF Restart
  <2>2. restarts' \in 0 .. MaxRestarts
    BY <1>0, <2>1, RunAssumption DEF TypeOK
  <2>3. got' \in [Clients -> Seq(Nat)]
    BY <1>0, <2>1 DEF TypeOK
  <2>4. conn' \in [Clients -> {"away", "open", "closed"}]
    BY <1>0, <2>1 DEF TypeOK
  <2>5. TypeOK'
    BY <1>0, <2>1, <2>2, <2>3, <2>4 DEF TypeOK
  <2>6. DoneInv' /\ StatusInv' /\ HonestInv'
    BY <2>1 DEF Inv, DoneInv, StatusInv, HonestInv
  <2>7. QED BY <2>5, <2>6 DEF Inv
<1>5. QED BY <1>1, <1>2, <1>3, <1>4

\* The loop is left once the driver has emitted what it had to: with a verdict
\* that the events so far bear out.
LEMMA WindDownInv ==
  ASSUME Inv, NEW s \in Verdicts, NEW es \in Seq(Kinds), WindDown(s, es),
         driver \in {"loop", "mirroring"},
         NoDone(log \o es) \/ OneDone(log \o es),
         s = "done" => Honest(log \o es),
         Fixed(s),
         gen' \in {"turns", "failed", "over"},
         row' \in {row, [row EXCEPT !.script = snapshot]},
         faults' \in 0 .. MaxFaults, UNCHANGED <<snapshot, stopped, restarts>>
  PROVE  Inv'
<1>0. TypeOK /\ log \o es \in Seq(Kinds)
  BY HasCat DEF Inv, TypeOK
<1>1. /\ status' = s /\ driver' \in {"closing", "finalizing"}
      /\ log' \in Seq(Kinds) /\ StreamTypes'
      /\ driver' = "closing" => log' = log \o es
      /\ driver' = "finalizing" => OneDone(log')
      /\ log' \in {log \o es, log \o es \o <<LastWord(s)>>}
  BY <1>0, WindDownEnds
<1>2. row' \in [status : Verdicts \cup {"none", "running"}, script : 0 .. MaxBuffer]
      /\ row'.status = row.status
  BY <1>0 DEF TypeOK
<1>3. row.status \in {"none", "running", "aborted"}
  BY DEF Inv, StatusInv
<1>4. TypeOK'
  BY <1>0, <1>1, <1>2 DEF TypeOK, StreamTypes, Registry
<1>5. DoneInv'
  BY <1>1 DEF DoneInv
<1>6. StatusInv'
  <2>1. /\ stopped # "orphan" /\ stopped' = stopped
        /\ stopped = "live" => status = "aborted"
        /\ stopped = "late" => status # "running" /\ row.status \in {"aborted", status}
    BY DEF Inv, StatusInv
  <2>2. QED BY <1>1, <1>2, <1>3, <2>1 DEF StatusInv, Fixed, Verdicts
<1>7. s = "done" => Honest(log')
  <2>1. s = "done" => LastWord(s) = "incomplete"
    BY DEF LastWord
  <2>2. QED BY <1>0, <1>1, <2>1, Harmless
<1>8. HonestInv'
  BY <1>1, <1>2, <1>3, <1>7 DEF HonestInv, Verdicts
<1>9. QED BY <1>4, <1>5, <1>6, <1>8 DEF Inv

\* The driver has written the transcript and goes on.
LEMMA MirrorInv ==
  ASSUME Inv, Mirror
  PROVE  Inv'
<1>0. TypeOK
  BY DEF Inv
<1>1. /\ driver = "mirroring"
      /\ row' \in {row, [row EXCEPT !.script = snapshot]}
      /\ UNCHANGED <<gen, snapshot, stopped, restarts>>
  BY DEF Mirror
<1>2. faults' \in 0 .. MaxFaults
  BY <1>0, RunAssumption DEF Mirror, Fault, TypeOK
<1>3. CASE gen = "over"
  <2>1. WindDown(Settled(status), <<>>)
    BY <1>3 DEF Mirror
  <2>2. Settled(status) \in Verdicts /\ Fixed(Settled(status))
    BY <1>0 DEF Settled, Fixed, TypeOK, Verdicts, Inv, StatusInv
  <2>3. log \o <<>> = log /\ <<>> \in Seq(Kinds)
    BY <1>0, ConcatEmptySeq, Nothing DEF TypeOK
  <2>4. OneDone(log \o <<>>)
    BY <1>1, <1>3, <2>3 DEF Inv, DoneInv
  <2>5. Settled(status) = "done" => Honest(log \o <<>>)
    BY <1>1, <1>3, <2>3 DEF Inv, HonestInv, Settled
  <2>6. gen' \in {"turns", "failed", "over"}
    BY <1>1, <1>3
  <2>7. QED BY <1>1, <1>2, <2>1, <2>2, <2>3, <2>4, <2>5, <2>6, WindDownInv
<1>4. CASE gen # "over"
  <2>1. driver' = "loop" /\ UNCHANGED <<status, log, conn, live, got>>
    BY <1>4 DEF Mirror
  <2>2. row' \in [status : Verdicts \cup {"none", "running"}, script : 0 .. MaxBuffer]
        /\ row'.status = row.status
    BY <1>0, <1>1 DEF TypeOK
  <2>3. TypeOK'
    BY <1>0, <1>1, <1>2, <2>1, <2>2 DEF TypeOK, Registry
  <2>4. DoneInv' /\ StatusInv' /\ HonestInv'
    BY <1>1, <1>4, <2>1, <2>2 DEF Inv, DoneInv, StatusInv, HonestInv
  <2>5. QED BY <2>3, <2>4 DEF Inv
<1>5. QED BY <1>3, <1>4

\* The conductor throws.
LEMMA CrashInv ==
  ASSUME Inv, Crash
  PROVE  Inv'
<1>0. TypeOK
  BY DEF Inv
<1>1. /\ driver = "loop" /\ gen' = "over"
      /\ UNCHANGED <<snapshot, row, stopped, faults, restarts>>
  BY DEF Crash
<1>2. NoDone(log) /\ log \in Seq(Kinds)
  BY <1>0, <1>1 DEF Inv, DoneInv, TypeOK
<1>3. faults' \in 0 .. MaxFaults
  BY <1>0, <1>1 DEF TypeOK
<1>4. CASE status = "aborted"
  <2>1. WindDown("aborted", <<>>) /\ "aborted" \in Verdicts
    BY <1>4 DEF Crash, Verdicts
  <2>2. log \o <<>> = log /\ <<>> \in Seq(Kinds)
    BY <1>2, ConcatEmptySeq, Nothing
  <2>3. NoDone(log \o <<>>) /\ Fixed("aborted")
    BY <1>2, <1>4, <2>2 DEF Fixed
  <2>4. QED BY <1>1, <1>3, <2>1, <2>2, <2>3, WindDownInv
<1>5. CASE status # "aborted"
  <2> DEFINE s == IF status = "running" THEN "error" ELSE status
  <2>1. WindDown(s, <<"error">>) /\ s \in Verdicts
    BY <1>0, <1>5 DEF Crash, Verdicts, TypeOK
  <2>2. "error" \in Kinds \ DoneKinds
    BY DEF Kinds, DoneKinds
  <2>3. <<"error">> \in Seq(Kinds) /\ NoDone(<<"error">>)
    BY <2>2, Single DEF NoDone
  <2>4. NoDone(log \o <<"error">>)
    BY <1>2, <2>3, HasCat DEF NoDone
  <2>5. Fixed(s)
    BY <1>5 DEF Inv, StatusInv, Fixed
  <2>6. s # "done"
    BY <1>1 DEF Inv, StatusInv
  <2>7. QED BY <1>1, <1>3, <2>1, <2>3, <2>4, <2>5, <2>6, WindDownInv
<1>6. QED BY <1>4, <1>5

\* The fail-safe reflection, and the done event if there was none.
LEMMA CloseInv ==
  ASSUME Inv, Close
  PROVE  Inv'
<1>0. TypeOK /\ log \in Seq(Kinds)
  BY DEF Inv, TypeOK
<1>1. /\ driver = "closing" /\ driver' = "finalizing"
      /\ UNCHANGED <<gen, status, snapshot, row, stopped, restarts>>
  BY DEF Close
<1>2. faults' \in 0 .. MaxFaults
  BY <1>0, RunAssumption DEF Close, Fault, TypeOK
<1> DEFINE done == IF Saw(DoneKinds) THEN <<>> ELSE <<LastWord(status)>>
<1>3. LastWord(status) \in DoneKinds /\ DoneKinds \subseteq Kinds /\ "reflect" \in Kinds \ DoneKinds
  BY DEF LastWord, DoneKinds, Kinds, Progress
<1>4. done \in Seq(Kinds) /\ <<"reflect">> \in Seq(Kinds) /\ <<>> \in Seq(Kinds)
  BY <1>3, Single, Nothing
<1>5. Saw(DoneKinds) <=> ~NoDone(log)
  BY DEF Saw, NoDone, Has
<1>6. PICK first \in {<<>>, <<"reflect">>} : Emit(first \o done)
  <2>1. <<>> \o done = done
    BY <1>4, ConcatEmptySeq
  <2>2. Emit(<<"reflect">> \o done) \/ Emit(done)
    BY DEF Close
  <2>3. QED BY <2>1, <2>2
<1>7. first \in Seq(Kinds) /\ NoDone(first)
  <2>1. NoDone(<<"reflect">>) /\ NoDone(<<>>)
    BY <1>3, Single, Nothing DEF NoDone
  <2>2. QED BY <1>4, <2>1
<1> HIDE DEF done
<1>8. /\ log' = (log \o first) \o done /\ log' \in Seq(Kinds) /\ StreamTypes'
      /\ log \o first \in Seq(Kinds)
  <2>1. first \o done \in Seq(Kinds) /\ log \o first \in Seq(Kinds)
    BY <1>0, <1>4, <1>7, HasCat
  <2>2. log' = log \o (first \o done) /\ log' \in Seq(Kinds) /\ StreamTypes'
    BY <1>0, <1>6, <2>1, EmitTyped
  <2>3. log \o (first \o done) = (log \o first) \o done
    BY SMTT(30), <1>0, <1>4, <1>7, ConcatAssociative
  <2>4. QED BY <2>1, <2>2, <2>3
<1>9. OneDone(log')
  <2>1. CASE NoDone(log)
    <3>1. NoDone(log \o first)
      BY <1>0, <1>7, <2>1, HasCat DEF NoDone
    <3>2. done = <<LastWord(status)>>
      BY <1>5, <2>1 DEF done
    <3>3. OneDone(done)
      BY <1>3, <3>2, Single
    <3>4. QED BY <1>4, <1>8, <3>1, <3>3, OneDoneCat
  <2>2. CASE ~NoDone(log)
    <3>1. OneDone(log)
      BY <1>1, <2>2 DEF Inv, DoneInv
    <3>2. OneDone(log \o first)
      BY <1>0, <1>7, <3>1, OneDoneCat
    <3>3. done = <<>>
      BY <1>5, <2>2 DEF done
    <3>4. log' = log \o first
      BY <1>8, <3>3, ConcatEmptySeq
    <3>5. QED BY <3>2, <3>4
  <2>3. QED BY <2>1, <2>2
<1>10. status = "done" => Honest(log')
  <2>1. SUFFICES ASSUME status = "done" PROVE Honest(log')
    OBVIOUS
  <2>2. Honest(log)
    BY <2>1 DEF Inv, HonestInv
  <2>3. Honest(log \o first)
    BY <1>0, <2>2, Harmless, ConcatEmptySeq
  <2>4. done \in {<<>>, <<"incomplete">>}
    BY <2>1 DEF done, LastWord
  <2>5. QED BY <1>8, <2>3, <2>4, Harmless, ConcatEmptySeq
<1>11. TypeOK'
  BY <1>0, <1>1, <1>2, <1>8 DEF TypeOK, StreamTypes, Registry
<1>12. DoneInv'
  BY <1>1, <1>9 DEF DoneInv
<1>13. StatusInv' /\ status # "running" /\ row.status # "done"
  BY <1>1 DEF Inv, StatusInv
<1>14. HonestInv'
  BY <1>1, <1>10, <1>13 DEF HonestInv
<1>15. QED BY <1>11, <1>12, <1>13, <1>14 DEF Inv

\* What an event tells of the run.
LEMMA VerdictOf ==
  ASSUME Inv, NEW k \in Kinds, status = "running",
         StatusAfter(k) = "running"
  PROVE  /\ ~Has(log \o <<k>>, {"error", "errored"})
         /\ k \in DoneKinds => Honest(log \o <<k>>)
<1>1. log \in Seq(Kinds) /\ ~Has(log, {"error", "errored"})
  BY DEF Inv, TypeOK, HonestInv
<1>2. \A kinds : Has(log \o <<k>>, kinds) <=> Has(log, kinds) \/ k \in kinds
  BY <1>1, Single, HasCat
<1>3. \A kinds : Saw(kinds) <=> Has(log, kinds)
  BY DEF Saw, Has
<1>4. k \notin {"error", "errored"}
  BY DEF StatusAfter
<1>5. ASSUME k \in DoneKinds PROVE Honest(log \o <<k>>)
  <2>1. ~Has(log \o <<k>>, {"error", "errored"})
    BY <1>1, <1>2, <1>4
  <2>2. CASE k = "finished" /\ Saw({"agent"})
    BY <1>2, <1>3, <2>1, <2>2 DEF Honest
  <2>3. CASE ~Saw({"agent", "sandbox"})
    BY <1>2, <1>3, <1>5, <2>1, <2>3 DEF Honest, DoneKinds
  <2>4. QED BY <1>4, <1>5, <2>2, <2>3 DEF StatusAfter, CleanEnd
<1>6. QED BY <1>1, <1>2, <1>4, <1>5

\* The conductor yields.
LEMMA YieldInv ==
  ASSUME Inv, NEW k \in Kinds, Yield(k)
  PROVE  Inv'
<1>0. TypeOK /\ log \in Seq(Kinds) /\ <<k>> \in Seq(Kinds)
  BY Single DEF Inv, TypeOK
<1>1. /\ driver = "loop"
      /\ gen' = (IF k \in DoneKinds THEN "over" ELSE IF k = "error" THEN "failed" ELSE gen)
      /\ UNCHANGED <<row, stopped, faults, restarts>>
  BY DEF Yield
<1>2. NoDone(log) /\ gen # "over" /\ status # "done" /\ gen' \in {"turns", "failed", "over"}
  BY <1>0, <1>1 DEF Inv, DoneInv, StatusInv, TypeOK
<1>3. IF k \in DoneKinds THEN OneDone(log \o <<k>>) ELSE NoDone(log \o <<k>>)
  <2>1. CASE k \in DoneKinds
    <3>1. OneDone(<<k>>)
      BY <2>1, Single
    <3>2. QED BY <1>0, <1>2, <2>1, <3>1, OneDoneCat
  <2>2. CASE k \notin DoneKinds
    BY <1>0, <1>2, <2>2, Single, HasCat DEF NoDone
  <2>3. QED BY <2>1, <2>2
<1>4. /\ StatusAfter(k) \in Verdicts \cup {"running"} /\ StatusAfter(k) # "done"
      /\ Fixed(StatusAfter(k))
      /\ StatusAfter(k) = "running" => status = "running"
  <2>1. /\ StatusAfter(k) \in {status, "error", "failed"}
        /\ status # "running" => StatusAfter(k) = status
    BY DEF StatusAfter
  <2>2. Fixed(StatusAfter(k))
    BY <2>1 DEF Inv, StatusInv, Fixed
  <2>3. status \in Verdicts \cup {"running"}
    BY <1>0 DEF TypeOK
  <2>4. QED BY <1>2, <2>1, <2>2, <2>3 DEF Verdicts
<1>5. StatusAfter(k) = "running" =>
        /\ ~Has(log \o <<k>>, {"error", "errored"})
        /\ k \in DoneKinds => Honest(log \o <<k>>)
  BY <1>4, VerdictOf
<1>6. row.status \in {"none", "running", "aborted"}
  BY <1>1 DEF Inv, StatusInv
<1>7. ASSUME status' = StatusAfter(k), Emit(<<k>>), snapshot' \in 0 .. MaxBuffer,
             driver' = "mirroring" \/ (driver' = "loop" /\ k \notin DoneKinds)
      PROVE  Inv'
  <2>1. log' = log \o <<k>> /\ log' \in Seq(Kinds) /\ StreamTypes'
    BY <1>0, <1>7, EmitTyped
  <2>2. TypeOK'
    <3>1. driver' \in Registry
      BY <1>7 DEF Registry
    <3>2. QED BY <1>0, <1>1, <1>2, <1>4, <1>7, <2>1, <3>1 DEF TypeOK, StreamTypes
  <2>3. gen' = "over" <=> k \in DoneKinds
    BY <1>1, <1>2
  <2>4. DoneInv'
    BY <1>3, <1>7, <2>1, <2>3 DEF DoneInv
  <2>5. StatusInv'
    <3>1. /\ stopped # "orphan" /\ stopped' = stopped /\ row' = row
          /\ stopped = "live" => status = "aborted"
          /\ stopped = "late" => status # "running" /\ row.status \in {"aborted", status}
      BY <1>1 DEF Inv, StatusInv
    <3>2. QED BY <1>1, <1>4, <1>6, <1>7, <3>1 DEF StatusInv, Fixed
  <2>6. HonestInv'
    BY <1>1, <1>4, <1>5, <1>6, <1>7, <2>1, <2>3 DEF HonestInv
  <2>7. QED BY <2>2, <2>4, <2>5, <2>6 DEF Inv
<1>8. CASE /\ driver' = "mirroring" /\ snapshot' = Buffered(Len(log) + 1)
           /\ status' = StatusAfter(k) /\ Emit(<<k>>)
  <2>1. snapshot' \in 0 .. MaxBuffer
    BY <1>0, <1>8, BufferedTyped
  <2>2. QED BY <1>7, <1>8, <2>1
<1>9. CASE /\ k \notin DoneKinds /\ status' = StatusAfter(k) /\ Emit(<<k>>)
           /\ UNCHANGED <<driver, snapshot>>
  <2>1. snapshot' \in 0 .. MaxBuffer /\ driver' = "loop"
    BY <1>0, <1>1, <1>9 DEF TypeOK
  <2>2. QED BY <1>7, <1>9, <2>1
<1>10. CASE k \in DoneKinds /\ WindDown(Settled(StatusAfter(k)), <<k>>) /\ UNCHANGED snapshot
  <2> DEFINE s == Settled(StatusAfter(k))
  <2>1. s \in Verdicts /\ Fixed(s)
    <3>1. stopped = "late" => status # "running"
      BY DEF Inv, StatusInv
    <3>2. QED BY <1>4, <3>1 DEF Settled, Verdicts, Fixed
  <2>2. s = "done" => Honest(log \o <<k>>)
    BY <1>4, <1>5, <1>10 DEF Settled
  <2>3. faults' \in 0 .. MaxFaults
    BY <1>0, <1>1 DEF TypeOK
  <2>4. WindDown(s, <<k>>) /\ (NoDone(log \o <<k>>) \/ OneDone(log \o <<k>>))
    BY <1>3, <1>10
  <2> HIDE DEF s
  <2>5. QED BY <1>0, <1>1, <1>2, <1>10, <2>1, <2>2, <2>3, <2>4, WindDownInv
<1>11. QED BY <1>8, <1>9, <1>10 DEF Yield

LEMMA NextInv == Inv /\ [Next]_vars => Inv'
<1> SUFFICES ASSUME Inv, [Next]_vars PROVE Inv'
  OBVIOUS
<1>1. CASE UNCHANGED vars
  <2>1. StreamTypes'
    BY <1>1 DEF vars, Inv, TypeOK, StreamTypes
  <2>2. QED BY <1>1, <2>1, Bystander DEF vars
<1>2. CASE Drive
  BY <1>2, YieldInv, MirrorInv, CrashInv, CloseInv, AfterwardsInv DEF Drive
<1>3. CASE \E c \in Clients : Open(c) \/ Attach(c) \/ Replay(c) \/ Leave(c)
  BY <1>3, OpenInv, ClientsInv
<1>4. CASE Evict \/ Abort \/ ForceFinalize \/ Restart
  BY <1>4, AfterwardsInv, AbortInv
<1>5. QED BY <1>1, <1>2, <1>3, <1>4 DEF Next

LEMMA SpecInv == Spec => []Inv
  BY InitInv, NextInv, PTL DEF Spec

-----------------------------------------------------------------------------
(* The theorems *)

\* The types are right in every state of a run.
THEOREM TypeCorrect == Spec => []TypeOK
<1>1. Inv => TypeOK
  BY DEF Inv
<1>2. QED BY <1>1, SpecInv, PTL

\* A driver that is through has emitted exactly one done event, on every path.
THEOREM OneDoneEvent == Spec => []DoneOnce
<1>1. Inv => DoneOnce
  BY DEF Inv, DoneInv, DoneOnce, OneDone
<1>2. QED BY <1>1, SpecInv, PTL

\* A stop confirmed of a running run, or of one nobody drives, is never overwritten
\* in the database; one confirmed while the driver winds down only by the verdict
\* the driver had reached before it.
THEOREM StopSticks == Spec => []StopIsFinal
<1>1. Inv => StopIsFinal
  BY DEF Inv, StatusInv, StopIsFinal
<1>2. QED BY <1>1, SpecInv, PTL

\* A run recorded as done was a clean one.
THEOREM DoneIsHonest == Spec => []HonestVerdict
<1>1. \A kinds : Saw(kinds) <=> Has(log, kinds)
  BY DEF Saw, Has
<1>2. Inv => HonestVerdict
  BY <1>1 DEF Inv, HonestInv, Honest, HonestVerdict
<1>3. QED BY <1>2, SpecInv, PTL

-----------------------------------------------------------------------------
(* Frames and transcript *)

\* A stream holds increasing positions of the log; while nothing has been lost to
\* the limit of the replay buffer, the first ones, and all of them for a subscriber,
\* whose stream is open.
FrameInv ==
  \A c \in Clients :
    /\ c \in live => conn[c] = "open"
    /\ \A i \in 1 .. Len(got[c]) :
         got[c][i] <= Len(log) /\ (i > 1 => got[c][i - 1] < got[c][i])
    /\ Len(log) <= MaxBuffer => \A i \in 1 .. Len(got[c]) : got[c][i] = i
    /\ c \in live /\ Len(log) <= MaxBuffer => Len(got[c]) = Len(log)

\* A transcript is never ahead of the replay buffer, nor of the write under way.
ScriptInv ==
  /\ row.script <= Buffered(Len(log)) /\ snapshot <= Buffered(Len(log))
  /\ driver = "mirroring" => row.script <= snapshot
  /\ driver = "none" => row.script = 0 /\ Len(log) = 0

FInv == Inv /\ FrameInv /\ ScriptInv

LEMMA Sizes ==
  ASSUME TypeOK
  PROVE  /\ Len(log) \in Nat /\ MaxBuffer \in Nat /\ MaxBuffer > 0
         /\ row.script \in Nat /\ snapshot \in Nat
         /\ \A c \in Clients : got[c] \in Seq(Nat) /\ Len(got[c]) \in Nat
         /\ \A c \in Clients : \A i \in 1 .. Len(got[c]) : got[c][i] \in Nat
<1>1. \A c \in Clients : got[c] \in Seq(Nat)
  BY DEF TypeOK
<1>2. Len(log) \in Nat /\ row.script \in Nat /\ snapshot \in Nat /\ MaxBuffer \in Nat
  BY RunAssumption DEF TypeOK
<1>3. QED BY <1>1, <1>2, RunAssumption

LEMMA BufferedGrows ==
  \A m, n \in Nat : /\ Buffered(m) \in Nat /\ Buffered(m) <= m
                    /\ m <= MaxBuffer => Buffered(m) = m
                    /\ m <= n => Buffered(m) <= Buffered(n)
  BY RunAssumption DEF Buffered

LEMMA PositionsAre ==
  ASSUME NEW m \in Nat, NEW n \in Nat, m <= n + 1
  PROVE  /\ Positions(m, n) \in Seq(Nat) /\ Len(Positions(m, n)) = n + 1 - m
         /\ \A i \in 1 .. (n + 1 - m) : Positions(m, n)[i] = m + i - 1
<1>1. n + 1 - m \in Nat /\ \A i \in 1 .. (n + 1 - m) : m + i - 1 \in Nat
  OBVIOUS
<1>2. Positions(m, n) = [i \in 1 .. (n + 1 - m) |-> m + i - 1]
  BY DEF Positions
<1>3. QED BY <1>1, <1>2

LEMMA CatIs ==
  ASSUME NEW s \in Seq(Nat), NEW t \in Seq(Nat)
  PROVE  /\ Len(s \o t) = Len(s) + Len(t)
         /\ \A i \in 1 .. Len(s) : (s \o t)[i] = s[i]
         /\ \A i \in 1 .. Len(t) : (s \o t)[Len(s) + i] = t[i]
  OBVIOUS

LEMMA EmitFrames ==
  ASSUME TypeOK, FrameInv, NEW es \in Seq(Kinds), Emit(es)
  PROVE  FrameInv' /\ Len(log') \in Nat /\ Len(log) <= Len(log')
<1> DEFINE n == Len(log)
           k == Len(es)
           more == Positions(n + 1, n + k)
<1>1. n \in Nat /\ k \in Nat /\ log \in Seq(Kinds) /\ MaxBuffer \in Nat
  BY Sizes DEF TypeOK
<1>2. Len(log') = n + k
  BY <1>1 DEF Emit
<1>3. more \in Seq(Nat) /\ Len(more) = k /\ \A i \in 1 .. k : more[i] = n + i
  <2>1. n + 1 \in Nat /\ n + k \in Nat /\ n + 1 <= n + k + 1 /\ n + k + 1 - (n + 1) = k
    BY <1>1
  <2>2. /\ more \in Seq(Nat) /\ Len(more) = n + k + 1 - (n + 1)
        /\ \A i \in 1 .. (n + k + 1 - (n + 1)) : more[i] = n + 1 + i - 1
    BY <2>1, PositionsAre
  <2>3. QED BY <1>1, <2>1, <2>2
<1>4. /\ \A c \in Clients : got'[c] = IF c \in live THEN got[c] \o more ELSE got[c]
      /\ live' \subseteq live /\ \A c \in live' : conn'[c] = conn[c]
  BY DEF Emit, TypeOK
<1>9. FrameInv =>
        \A c \in Clients :
          /\ c \in live => conn[c] = "open"
          /\ \A i \in 1 .. Len(got[c]) :
               got[c][i] <= n /\ (i > 1 => got[c][i - 1] < got[c][i])
          /\ n <= MaxBuffer => \A i \in 1 .. Len(got[c]) : got[c][i] = i
          /\ c \in live /\ n <= MaxBuffer => Len(got[c]) = n
  BY DEF FrameInv
<1> HIDE DEF more, n, k
<1>5. ASSUME NEW c \in Clients
      PROVE  /\ c \in live' => conn'[c] = "open"
             /\ \A i \in 1 .. Len(got'[c]) :
                  got'[c][i] <= n + k /\ (i > 1 => got'[c][i - 1] < got'[c][i])
             /\ n + k <= MaxBuffer => \A i \in 1 .. Len(got'[c]) : got'[c][i] = i
             /\ c \in live' /\ n + k <= MaxBuffer => Len(got'[c]) = n + k
  <2>1. /\ got[c] \in Seq(Nat) /\ Len(got[c]) \in Nat
        /\ \A i \in 1 .. Len(got[c]) :
             got[c][i] \in Nat /\ got[c][i] <= n /\ (i > 1 => got[c][i - 1] < got[c][i])
        /\ n <= MaxBuffer => \A i \in 1 .. Len(got[c]) : got[c][i] = i
        /\ c \in live /\ n <= MaxBuffer => Len(got[c]) = n
        /\ c \in live' => conn'[c] = "open"
    BY <1>4, <1>9, Sizes
  <2>2. CASE c \notin live
    <3>1. got'[c] = got[c] /\ c \notin live'
      BY <1>4, <2>2
    <3>2. QED BY <1>1, <2>1, <3>1
  <2>3. CASE c \in live
    <3> DEFINE g == got[c]
               l == Len(got[c])
    <3>1. /\ Len(g \o more) = l + k
          /\ \A i \in 1 .. l : (g \o more)[i] = g[i]
          /\ \A i \in 1 .. k : (g \o more)[l + i] = n + i
      <4>1. /\ Len(g \o more) = l + Len(more)
            /\ \A i \in 1 .. l : (g \o more)[i] = g[i]
            /\ \A i \in 1 .. Len(more) : (g \o more)[l + i] = more[i]
        BY <1>3, <2>1, CatIs
      <4>2. QED BY <1>3, <4>1
    <3>2. got'[c] = g \o more
      BY <1>4, <2>3
    <3>3. \A i \in 1 .. l + k :
            \/ i \in 1 .. l /\ got'[c][i] = g[i]
            \/ i - l \in 1 .. k /\ got'[c][i] = n + (i - l)
      <4>1. TAKE i \in 1 .. l + k
      <4>2. CASE i \notin 1 .. l
        <5>1. i - l \in 1 .. k /\ l + (i - l) = i
          BY <1>1, <2>1, <4>2
        <5>2. QED BY <3>1, <3>2, <5>1
      <4>3. QED BY <3>1, <3>2, <4>2
    <3>4. Len(got'[c]) = l + k
      BY <3>1, <3>2
    <3>11. \A i \in 1 .. l : (g \o more)[i] = g[i]
      BY <3>1
    <3> HIDE DEF g, l
    <3>5. l \in Nat /\ \A i \in 1 .. l : g[i] \in Nat /\ g[i] <= n /\ (i > 1 => g[i - 1] < g[i])
      BY <2>1 DEF g, l
    <3>6. \A i \in 1 .. l + k : got'[c][i] <= n + k
      <4>1. TAKE i \in 1 .. l + k
      <4>2. CASE i \in 1 .. l /\ got'[c][i] = g[i]
        BY <1>1, <3>5, <4>2
      <4>3. CASE i - l \in 1 .. k /\ got'[c][i] = n + (i - l)
        BY <1>1, <3>5, <4>3
      <4>4. QED BY <3>3, <4>2, <4>3
    <3>7. ASSUME NEW i \in 1 .. l + k, i > 1 PROVE got'[c][i - 1] < got'[c][i]
      <4>1. i - 1 \in 1 .. l + k
        BY <1>1, <3>5, <3>7
      <4>2. CASE i \in 1 .. l
        <5>1. i - 1 \in 1 .. l
          BY <3>5, <3>7, <4>2
        <5>2. got'[c][i] = g[i] /\ got'[c][i - 1] = g[i - 1]
          BY <3>2, <3>11, <4>2, <5>1
        <5>3. QED BY <3>5, <3>7, <4>2, <5>2
      <4>3. CASE i \notin 1 .. l
        BY <1>1, <3>3, <3>5, <3>7, <4>1, <4>3
      <4>4. QED BY <4>2, <4>3
    <3>8. n + k <= MaxBuffer => l = n /\ \A i \in 1 .. l : g[i] = i
      BY <1>1, <2>1, <2>3 DEF g, l
    <3>9. ASSUME n + k <= MaxBuffer, NEW i \in 1 .. l + k PROVE got'[c][i] = i
      <4>1. l = n /\ \A j \in 1 .. l : g[j] = j
        BY <3>8, <3>9
      <4>2. CASE i \in 1 .. l /\ got'[c][i] = g[i]
        BY <4>1, <4>2
      <4>3. CASE i - l \in 1 .. k /\ got'[c][i] = n + (i - l)
        BY <1>1, <4>1, <4>3
      <4>4. QED BY <3>3, <4>2, <4>3
    <3>10. QED BY <2>1, <3>4, <3>6, <3>7, <3>8, <3>9
  <2>4. QED BY <2>2, <2>3
<1>6. FrameInv'
  BY <1>2, <1>5 DEF FrameInv
<1>7. QED BY <1>1, <1>2, <1>6 DEF n

\* Leaving the loop emits something, too.
LEMMA WindDownEmits ==
  ASSUME NEW s, NEW es \in Seq(Kinds), WindDown(s, es)
  PROVE  (\E fs \in Seq(Kinds) : Emit(fs)) /\ driver' \in {"closing", "finalizing"}
<1>1. LastWord(s) \in Kinds
  BY DEF LastWord, Kinds, DoneKinds
<1>2. es \o <<LastWord(s)>> \in Seq(Kinds) /\ es \o <<>> \in Seq(Kinds)
  BY <1>1
<1>3. Emit(es \o <<>>) \/ Emit(es \o <<LastWord(s)>>)
  BY DEF WindDown
<1>4. driver' \in {"closing", "finalizing"}
  BY DEF WindDown
<1>5. QED BY <1>2, <1>3, <1>4

\* What the driver's steps do to the stream, the transcript and the write under way.
LEMMA DriveEffect ==
  ASSUME FInv, Drive \/ Abort
  PROVE  /\ (\E fs \in Seq(Kinds) : Emit(fs)) \/ UNCHANGED <<log, conn, live, got>>
         /\ driver # "none" /\ driver' # "none"
         /\ \/ row' = row
            \/ /\ driver = "mirroring" /\ row.status # "none" /\ row'.status = row.status
               /\ row'.script = snapshot
            \/ /\ driver = "finalizing" /\ row' = [status |-> status, script |-> Buffered(Len(log))]
               /\ UNCHANGED log /\ driver' = "over"
         /\ \/ snapshot' = snapshot /\ (driver' = "mirroring" => driver = "mirroring" /\ row' = row)
            \/ snapshot' = Buffered(Len(log')) /\ row' = row
<1>0. TypeOK /\ log \in Seq(Kinds) /\ row = [status |-> row.status, script |-> row.script]
  BY DEF FInv, Inv, TypeOK
<1>1. ASSUME NEW k \in Kinds, Yield(k)
      PROVE  /\ \E fs \in Seq(Kinds) : Emit(fs)
             /\ driver = "loop" /\ driver' # "none" /\ row' = row
             /\ \/ snapshot' = snapshot /\ driver' # "mirroring"
                \/ snapshot' = Buffered(Len(log'))
  <2>0. <<k>> \in Seq(Kinds) /\ driver = "loop" /\ row' = row
    BY <1>1 DEF Yield
  <2>1. CASE driver' = "mirroring" /\ snapshot' = Buffered(Len(log) + 1) /\ Emit(<<k>>)
    <3>1. log' = log \o <<k>>
      BY <2>1 DEF Emit
    <3>2. Len(log') = Len(log) + 1
      BY <1>0, <2>0, <3>1
    <3>3. QED BY <2>0, <2>1, <3>2
  <2>2. CASE Emit(<<k>>) /\ UNCHANGED <<driver, snapshot>>
    BY <2>0, <2>2
  <2>3. CASE WindDown(Settled(StatusAfter(k)), <<k>>) /\ UNCHANGED snapshot
    <3>1. (\E fs \in Seq(Kinds) : Emit(fs)) /\ driver' \in {"closing", "finalizing"}
      BY <2>0, <2>3, WindDownEmits
    <3>2. QED BY <2>0, <2>3, <3>1
  <2>4. QED BY <1>1, <2>1, <2>2, <2>3 DEF Yield
<1>2. CASE Mirror
  <2>1. /\ driver = "mirroring" /\ snapshot' = snapshot
        /\ row' = row \/ (row.status # "none" /\ row' = [row EXCEPT !.script = snapshot])
    BY <1>2 DEF Mirror
  <2>2. row' = row \/ (row.status # "none" /\ row'.status = row.status /\ row'.script = snapshot)
    <3>1. row \in [status : Verdicts \cup {"none", "running"}, script : 0 .. MaxBuffer]
      BY <1>0 DEF TypeOK
    <3>2. QED BY <2>1, <3>1
  <2>3. CASE gen = "over"
    <3>1. WindDown(Settled(status), <<>>) /\ <<>> \in Seq(Kinds)
      BY <1>2, <2>3 DEF Mirror
    <3>2. (\E fs \in Seq(Kinds) : Emit(fs)) /\ driver' \in {"closing", "finalizing"}
      BY <3>1, WindDownEmits
    <3>3. QED BY <2>1, <2>2, <3>2
  <2>4. CASE gen # "over"
    BY <1>2, <2>1, <2>2, <2>4 DEF Mirror
  <2>5. QED BY <2>3, <2>4
<1>3. CASE Crash
  <2>1. /\ driver = "loop" /\ UNCHANGED <<snapshot, row>>
        /\ \E s : \E es \in {<<>>, <<"error">>} : WindDown(s, es)
    BY <1>3 DEF Crash
  <2>2. <<>> \in Seq(Kinds) /\ <<"error">> \in Seq(Kinds)
    BY DEF Kinds
  <2>3. (\E fs \in Seq(Kinds) : Emit(fs)) /\ driver' \in {"closing", "finalizing"}
    BY <2>1, <2>2, WindDownEmits
  <2>4. QED BY <2>1, <2>3
<1>4. CASE Close
  <2>1. driver = "closing" /\ driver' = "finalizing" /\ UNCHANGED <<snapshot, row>>
    BY <1>4 DEF Close
  <2>2. \E done \in {<<>>, <<LastWord(status)>>} : Emit(<<"reflect">> \o done) \/ Emit(done)
    BY <1>4 DEF Close
  <2>3. ASSUME NEW done \in {<<>>, <<LastWord(status)>>}
        PROVE  done \in Seq(Kinds) /\ <<"reflect">> \o done \in Seq(Kinds)
    <3>1. LastWord(status) \in Kinds /\ "reflect" \in Kinds
      BY DEF LastWord, Kinds, DoneKinds, Progress
    <3>2. <<>> \in Seq(Kinds) /\ <<LastWord(status)>> \in Seq(Kinds) /\ <<"reflect">> \in Seq(Kinds)
      BY <3>1, Single, Nothing
    <3>3. done \in Seq(Kinds)
      BY <3>2
    <3>4. QED BY <3>2, <3>3, HasCat
  <2>4. QED BY <2>1, <2>2, <2>3
<1>5. CASE Finalize
  BY <1>5 DEF Finalize
<1>6. CASE Abort
  <2>1. Emit(<<"message">>) /\ <<"message">> \in Seq(Kinds)
    BY <1>6 DEF Abort, Kinds, Progress
  <2>2. QED BY <1>6, <2>1 DEF Abort, Registry
<1>7. QED BY <1>1, <1>2, <1>3, <1>4, <1>5, <1>6 DEF Drive

LEMMA DriveFrames ==
  ASSUME FInv, Drive \/ Abort
  PROVE  FrameInv' /\ ScriptInv'
<1>1. /\ (\E fs \in Seq(Kinds) : Emit(fs)) \/ UNCHANGED <<log, conn, live, got>>
      /\ driver # "none" /\ driver' # "none"
      /\ \/ row' = row
         \/ driver = "mirroring" /\ row'.script = snapshot
         \/ row'.script = Buffered(Len(log)) /\ UNCHANGED log /\ driver' = "over"
      /\ \/ snapshot' = snapshot /\ (driver' = "mirroring" => driver = "mirroring" /\ row' = row)
         \/ snapshot' = Buffered(Len(log')) /\ row' = row
  BY DriveEffect
<1>2. TypeOK /\ FrameInv /\ ScriptInv
  BY DEF FInv, Inv
<1>3. FrameInv' /\ Len(log') \in Nat /\ Len(log) <= Len(log')
  <2>1. CASE \E fs \in Seq(Kinds) : Emit(fs)
    BY <1>2, <2>1, EmitFrames
  <2>2. CASE UNCHANGED <<log, conn, live, got>>
    BY <1>2, <2>2, Sizes DEF FrameInv
  <2>3. QED BY <1>1, <2>1, <2>2
<1>4. /\ Len(log) \in Nat /\ row.script \in Nat /\ snapshot \in Nat
      /\ Buffered(Len(log)) \in Nat /\ Buffered(Len(log')) \in Nat
      /\ Buffered(Len(log)) <= Buffered(Len(log'))
  BY <1>2, <1>3, Sizes, BufferedGrows
<1>5. ScriptInv'
  BY <1>1, <1>2, <1>4 DEF ScriptInv
<1>6. QED BY <1>3, <1>5

LEMMA ClientFrames ==
  ASSUME FInv, NEW c \in Clients, Open(c) \/ Attach(c) \/ Replay(c) \/ Leave(c)
  PROVE  FrameInv' /\ ScriptInv'
<1>0. /\ TypeOK /\ FrameInv /\ ScriptInv /\ log' = log /\ snapshot' = snapshot
      /\ got \in [Clients -> Seq(Nat)]
  BY DEF FInv, Inv, TypeOK, Open, Attach, Replay, Leave
<1>1. Len(log) \in Nat /\ MaxBuffer \in Nat
  BY <1>0, Sizes
<1>2. CASE Open(c)
  <2>1. driver = "none" /\ driver' = "loop" /\ live' = {c} /\ got' = got /\ Len(log) = 0
        /\ row'.script = row.script
    BY <1>0, <1>2 DEF Open, ScriptInv
  <2>2. \A d \in Clients : Len(got[d]) = 0
    <3>1. TAKE d \in Clients
    <3>2. Len(got[d]) \in Nat /\ \A i \in 1 .. Len(got[d]) : got[d][i] = i /\ got[d][i] <= 0
      BY <1>0, <1>1, <2>1, Sizes DEF FrameInv
    <3>3. QED BY <3>2
  <2>3. FrameInv'
    <3>1. conn'[c] = "open"
      BY <1>0, <1>2 DEF Open, TypeOK
    <3>2. QED BY <1>0, <2>1, <2>2, <3>1 DEF FrameInv
  <2>4. ScriptInv'
    BY <1>0, <2>1 DEF ScriptInv
  <2>5. QED BY <2>3, <2>4
<1>3. ASSUME NEW n \in Nat, got' = [got EXCEPT ![c] = Positions(1, n)], n <= Len(log),
             live' \subseteq live \cup {c}, c \in live' /\ Len(log) <= MaxBuffer => n = Len(log),
             c \in live' => conn'[c] = "open", \A d \in Clients \ {c} : conn'[d] = conn[d]
      PROVE  FrameInv'
  <2>1. /\ Positions(1, n) \in Seq(Nat) /\ Len(Positions(1, n)) = n
        /\ \A i \in 1 .. n : Positions(1, n)[i] = i
    <3>1. /\ Positions(1, n) \in Seq(Nat) /\ Len(Positions(1, n)) = n + 1 - 1
          /\ \A i \in 1 .. (n + 1 - 1) : Positions(1, n)[i] = 1 + i - 1
      <4>1. 1 \in Nat /\ 1 <= n + 1
        OBVIOUS
      <4>2. QED BY <4>1, PositionsAre
    <3>2. n + 1 - 1 = n /\ \A i \in 1 .. n : 1 + i - 1 = i
      OBVIOUS
    <3>3. QED BY <3>1, <3>2
  <2>2. got'[c] = Positions(1, n) /\ \A d \in Clients \ {c} : got'[d] = got[d]
    BY <1>0, <1>3
  <2>3. ASSUME NEW d \in Clients
        PROVE  /\ d \in live' => conn'[d] = "open"
               /\ \A i \in 1 .. Len(got'[d]) :
                    got'[d][i] <= Len(log) /\ (i > 1 => got'[d][i - 1] < got'[d][i])
               /\ Len(log) <= MaxBuffer => \A i \in 1 .. Len(got'[d]) : got'[d][i] = i
               /\ d \in live' /\ Len(log) <= MaxBuffer => Len(got'[d]) = Len(log)
    <3>1. CASE d = c
      BY <1>1, <1>3, <2>1, <2>2, <3>1
    <3>2. CASE d # c
      BY <1>0, <1>3, <2>2, <3>2 DEF FrameInv
    <3>3. QED BY <3>1, <3>2
  <2>4. QED BY <1>0, <2>3 DEF FrameInv
<1>4. Attach(c) \/ Replay(c) \/ Leave(c) => ScriptInv'
  BY <1>0 DEF ScriptInv, Attach, Replay, Leave
<1>5. CASE Attach(c)
  <2> DEFINE dones == {i \in 1 .. Buffered(Len(log)) : log[i] \in DoneKinds}
             end   == ReplayEnd
  <2>1. driver \in Registry /\ end \in Nat
    BY <1>5, ReplayTyped DEF Attach, FInv
  <2>2. Buffered(Len(log)) \in Nat /\ Buffered(Len(log)) <= Len(log)
        /\ (Len(log) <= MaxBuffer => Buffered(Len(log)) = Len(log))
    BY <1>1, BufferedGrows
  <2>3. end <= Len(log) /\ (end = Buffered(Len(log)) \/ (end > 0 /\ log[end] \in DoneKinds))
    <3>1. CASE dones = {}
      BY <2>2, <3>1 DEF ReplayEnd
    <3>2. CASE dones # {}
      <4>1. NoDone(log) \/ OneDone(log)
        BY <2>1 DEF FInv, Inv, DoneInv, Registry
      <4>2. \A i, j \in dones : i \in 1 .. Len(log) /\ i = j
        BY <1>1, <2>2, <4>1 DEF NoDone, OneDone, Has
      <4>3. PICK m \in dones : \A j \in dones : m <= j
        BY <3>2, <4>2
      <4>4. (CHOOSE i \in dones : \A j \in dones : i <= j) \in dones
        BY <4>3
      <4>5. ReplayEnd = CHOOSE i \in dones : \A j \in dones : i <= j
        BY <3>2 DEF ReplayEnd
      <4>6. end \in dones
        BY <4>4, <4>5
      <4>7. QED BY <1>1, <2>2, <4>2, <4>6
    <3>3. QED BY <3>1, <3>2
  <2> HIDE DEF dones, end
  <2>4. /\ got' = [got EXCEPT ![c] = Positions(1, end)]
        /\ live' = IF (end > 0 /\ log[end] \in DoneKinds) \/ status # "running"
                   THEN live ELSE live \cup {c}
        /\ conn' = [conn EXCEPT ![c] = IF end > 0 /\ log[end] \in DoneKinds
                                       THEN "closed" ELSE "open"]
        /\ conn[c] # "open"
    BY <1>5 DEF Attach, end
  <2>5. c \notin live
    BY <1>0, <2>4 DEF FrameInv
  <2>6. c \in live' => end = Buffered(Len(log)) /\ conn'[c] = "open"
    BY <1>0, <2>3, <2>4, <2>5 DEF TypeOK
  <2>7. live' \subseteq live \cup {c} /\ \A d \in Clients \ {c} : conn'[d] = conn[d]
    BY <1>0, <2>4 DEF TypeOK
  <2>8. FrameInv'
    BY <1>3, <2>1, <2>2, <2>3, <2>4, <2>6, <2>7
  <2>9. QED BY <1>4, <1>5, <2>8
<1>6. CASE Replay(c)
  <2>1. row.script \in Nat /\ row.script <= Len(log)
    <3>1. row.script \in Nat /\ row.script <= Buffered(Len(log))
      BY <1>0, Sizes DEF ScriptInv
    <3>2. Buffered(Len(log)) \in Nat /\ Buffered(Len(log)) <= Len(log)
      BY <1>1, BufferedGrows
    <3>3. QED BY <1>1, <3>1, <3>2
  <2>2. /\ got' = [got EXCEPT ![c] = Positions(1, row.script)] /\ live' = live /\ c \notin live
        /\ \A d \in Clients \ {c} : conn'[d] = conn[d]
    BY <1>0, <1>6 DEF Replay, FrameInv, TypeOK
  <2>3. FrameInv'
    BY <1>3, <2>1, <2>2
  <2>4. QED BY <1>4, <1>6, <2>3
<1>7. CASE Leave(c)
  <2>1. Positions(1, 0) = <<>>
    BY DEF Positions
  <2>2. /\ got' = [got EXCEPT ![c] = Positions(1, 0)] /\ live' = live \ {c}
        /\ \A d \in Clients \ {c} : conn'[d] = conn[d]
    BY <1>0, <1>7, <2>1 DEF Leave, TypeOK
  <2>3. 0 \in Nat /\ 0 <= Len(log) /\ live' \subseteq live \cup {c} /\ c \notin live'
    BY <1>1, <2>2
  <2>4. FrameInv'
    BY <1>3, <2>2, <2>3
  <2>5. QED BY <1>4, <1>7, <2>4
<1>8. QED BY <1>2, <1>5, <1>6, <1>7

LEMMA AfterFrames ==
  ASSUME FInv, Evict \/ ForceFinalize \/ Restart \/ UNCHANGED vars
  PROVE  FrameInv' /\ ScriptInv'
<1>0. /\ TypeOK /\ FrameInv /\ ScriptInv /\ UNCHANGED <<log, snapshot>>
      /\ driver' \in {driver, "evicted", "gone"} /\ row'.script = row.script
  BY DEF FInv, Inv, TypeOK, Evict, ForceFinalize, Restart, vars
<1>1. ScriptInv'
  BY <1>0 DEF ScriptInv
<1>2. CASE UNCHANGED <<conn, live, got>>
  <2>1. log' = log /\ conn' = conn /\ live' = live /\ got' = got
    BY <1>0, <1>2
  <2>2. QED BY <1>0, <1>1, <2>1 DEF FrameInv
<1>3. CASE Restart
  <2>1. log' = log /\ live' = {} /\ \A c \in Clients : got'[c] \in {got[c], <<>>}
    BY <1>0, <1>3 DEF Restart
  <2>2. ASSUME NEW c \in Clients
        PROVE  /\ \A i \in 1 .. Len(got'[c]) :
                    got'[c][i] <= Len(log) /\ (i > 1 => got'[c][i - 1] < got'[c][i])
               /\ Len(log) <= MaxBuffer => \A i \in 1 .. Len(got'[c]) : got'[c][i] = i
    <3>1. CASE got'[c] = got[c]
      BY <1>0, <3>1 DEF FrameInv
    <3>2. CASE got'[c] = <<>>
      BY <3>2
    <3>3. QED BY <2>1, <3>1, <3>2
  <2>3. QED BY <1>1, <2>1, <2>2 DEF FrameInv
<1>4. QED BY <1>1, <1>2, <1>3 DEF Evict, ForceFinalize, vars

LEMMA FInit == Init => FInv
<1> SUFFICES ASSUME Init PROVE FInv
  OBVIOUS
<1>1. Inv
  BY InitInv
<1>2. Len(log) = 0 /\ Buffered(0) = 0
  BY RunAssumption DEF Init, Buffered
<1>3. FrameInv /\ ScriptInv
  BY <1>2 DEF Init, FrameInv, ScriptInv
<1>4. QED BY <1>1, <1>3 DEF FInv

LEMMA FNext == FInv /\ [Next]_vars => FInv'
<1> SUFFICES ASSUME FInv, [Next]_vars PROVE FInv'
  OBVIOUS
<1>1. Inv'
  BY NextInv DEF FInv
<1>2. FrameInv' /\ ScriptInv'
  BY DriveFrames, ClientFrames, AfterFrames DEF Next
<1>3. QED BY <1>1, <1>2 DEF FInv

LEMMA SpecFInv == Spec => []FInv
  BY FInit, FNext, PTL DEF Spec

\* Whoever comes and goes, a stream shows the events in order, none twice, and
\* none left out unless the replay buffer had overflowed.
THEOREM StreamsAreFaithful == Spec => []FramesInOrder
<1>1. FInv => FramesInOrder
  BY DEF FInv, FrameInv, FramesInOrder
<1>2. QED BY <1>1, SpecFInv, PTL

\* A transcript write never takes anything back, however writes, stops and
\* restarts interleave.
THEOREM TranscriptOnlyGrows == Spec => TranscriptGrows
<1>1. ASSUME FInv, [Next]_vars
      PROVE  [row.status # "none" => row'.status # "none" /\ row'.script >= row.script]_vars
  <2>1. SUFFICES ASSUME Next, row.status # "none"
                 PROVE  row'.status # "none" /\ row'.script >= row.script
    BY <1>1 DEF vars
  <2>2. /\ TypeOK /\ ScriptInv /\ row.script \in Nat /\ snapshot \in Nat /\ Len(log) \in Nat
        /\ Buffered(Len(log)) \in Nat
    BY <1>1, Sizes, BufferedGrows DEF FInv, Inv
  <2>3. CASE row'.status = row.status /\ row'.script = row.script
    BY <2>1, <2>2, <2>3
  <2>4. CASE Drive \/ Abort
    <3>1. \/ row' = row
          \/ /\ driver = "mirroring" /\ row.status # "none" /\ row'.status = row.status
             /\ row'.script = snapshot
          \/ row' = [status |-> status, script |-> Buffered(Len(log))]
      BY <1>1, <2>4, DriveEffect
    <3>2. status # "none"
      BY <2>2 DEF TypeOK, Verdicts
    <3>3. QED BY <2>1, <2>2, <3>1, <3>2 DEF ScriptInv
  <2>5. CASE \E c \in Clients : Open(c)
    BY <2>2, <2>3, <2>5 DEF Open, ScriptInv
  <2>6. CASE ForceFinalize
    BY <2>1, <2>2, <2>6 DEF ForceFinalize, TypeOK
  <2>7. CASE Evict \/ Restart \/ \E c \in Clients : Attach(c) \/ Replay(c) \/ Leave(c)
    BY <2>3, <2>7 DEF Evict, Restart, Attach, Replay, Leave
  <2>8. QED BY <2>1, <2>4, <2>5, <2>6, <2>7 DEF Next
<1>2. QED BY <1>1, SpecFInv, PTL DEF Spec, TranscriptGrows

-----------------------------------------------------------------------------
(* How streams end *)

\* A done event is the last of those emitted together.
DoneLast(es) == NoDone(es) \/ (es # <<>> /\ Last(es) \in DoneKinds)

\* While the buffer has not overflowed, nobody is subscribed any more once done
\* has been emitted.
ReleaseInv == Has(log, DoneKinds) /\ Len(log) <= MaxBuffer => live = {}

\* A stream that was closed while the run is in the registry has shown done.
ClosedInv ==
  driver \in Registry \cup {"none"} =>
    \A c \in Clients : conn[c] = "closed" =>
      \E i \in 1 .. Len(got[c]) : got[c][i] \in 1 .. Len(log) /\ log[got[c][i]] \in DoneKinds

\* Nobody is connected to a process that does not run the run.
AloneInv == driver \in {"none", "gone"} => live = {}

EndInv == FInv /\ ReleaseInv /\ ClosedInv /\ AloneInv

LEMMA LastCat ==
  ASSUME NEW es \in Seq(Kinds), NEW k \in Kinds
  PROVE  es \o <<k>> # <<>> /\ Last(es \o <<k>>) = k
<1>1. Len(es \o <<k>>) = Len(es) + 1 /\ Len(es) \in Nat /\ (es \o <<k>>)[Len(es) + 1] = k
  OBVIOUS
<1>2. QED BY <1>1 DEF Last

LEMMA SingleDone ==
  ASSUME NEW k \in Kinds
  PROVE  <<k>> \in Seq(Kinds) /\ DoneLast(<<k>>)
<1>1. <<k>> \in Seq(Kinds) /\ (Has(<<k>>, DoneKinds) <=> k \in DoneKinds)
  BY Single
<1>2. <<k>> # <<>> /\ Last(<<k>>) = k
  BY DEF Last
<1>3. QED BY <1>1, <1>2 DEF DoneLast, NoDone

\* Leaving the loop emits done last, if at all.
LEMMA WindDownDone ==
  ASSUME NEW s, NEW es \in Seq(Kinds), DoneLast(es), WindDown(s, es)
  PROVE  \E fs \in Seq(Kinds) : Emit(fs) /\ DoneLast(fs)
<1>1. LastWord(s) \in Kinds /\ LastWord(s) \in DoneKinds
  BY DEF LastWord, Kinds, DoneKinds
<1>2. es \o <<>> = es /\ es \o <<LastWord(s)>> \in Seq(Kinds)
  BY <1>1, ConcatEmptySeq
<1>3. DoneLast(es \o <<LastWord(s)>>)
  BY <1>1, LastCat DEF DoneLast
<1>4. Emit(es \o <<>>) \/ Emit(es \o <<LastWord(s)>>)
  BY DEF WindDown
<1>5. QED BY <1>2, <1>3, <1>4

LEMMA DriveDone ==
  ASSUME FInv, Drive \/ Abort
  PROVE  \/ \E fs \in Seq(Kinds) : Emit(fs) /\ DoneLast(fs)
         \/ UNCHANGED <<log, conn, live, got>>
<1>0. {"message", "error", "reflect"} \subseteq Kinds
  BY DEF Kinds, Progress
<1>1. <<>> \in Seq(Kinds) /\ DoneLast(<<>>)
  BY Nothing DEF DoneLast, NoDone
<1>2. ASSUME NEW k \in Kinds, Yield(k) PROVE \E fs \in Seq(Kinds) : Emit(fs) /\ DoneLast(fs)
  <2>1. <<k>> \in Seq(Kinds) /\ DoneLast(<<k>>)
    BY SingleDone
  <2>2. Emit(<<k>>) \/ WindDown(Settled(StatusAfter(k)), <<k>>)
    BY <1>2 DEF Yield
  <2>3. QED BY <2>1, <2>2, WindDownDone
<1>3. CASE Mirror
  BY <1>1, <1>3, WindDownDone DEF Mirror
<1>4. CASE Crash
  <2>1. <<"error">> \in Seq(Kinds) /\ DoneLast(<<"error">>)
    BY <1>0, SingleDone
  <2>2. \E s : WindDown(s, <<>>) \/ WindDown(s, <<"error">>)
    BY <1>4 DEF Crash
  <2>3. QED BY <1>1, <2>1, <2>2, WindDownDone
<1>5. CASE Close
  <2>1. LastWord(status) \in Kinds /\ LastWord(status) \in DoneKinds
    BY DEF LastWord, Kinds, DoneKinds
  <2>2. /\ <<"reflect">> \in Seq(Kinds) /\ DoneLast(<<"reflect">>)
        /\ <<LastWord(status)>> \in Seq(Kinds) /\ DoneLast(<<LastWord(status)>>)
        /\ <<"reflect">> \o <<>> = <<"reflect">>
    BY <1>0, <2>1, SingleDone, ConcatEmptySeq
  <2>3. /\ <<"reflect">> \o <<LastWord(status)>> \in Seq(Kinds)
        /\ DoneLast(<<"reflect">> \o <<LastWord(status)>>)
    <3>1. <<"reflect">> \o <<LastWord(status)>> \in Seq(Kinds)
      BY <2>2, HasCat
    <3>2. /\ <<"reflect">> \o <<LastWord(status)>> # <<>>
          /\ Last(<<"reflect">> \o <<LastWord(status)>>) = LastWord(status)
      BY <2>1, <2>2, LastCat
    <3>3. QED BY <2>1, <3>1, <3>2 DEF DoneLast
  <2>4. \/ Emit(<<"reflect">> \o <<>>) \/ Emit(<<>>)
        \/ Emit(<<"reflect">> \o <<LastWord(status)>>) \/ Emit(<<LastWord(status)>>)
    BY <1>5 DEF Close
  <2>5. QED BY <1>1, <2>2, <2>3, <2>4
<1>6. CASE Finalize
  BY <1>6 DEF Finalize
<1>7. CASE Abort
  BY <1>0, <1>7, SingleDone DEF Abort
<1>8. QED BY <1>2, <1>3, <1>4, <1>5, <1>6, <1>7 DEF Drive

\* What is emitted reaches every subscriber, done closes their streams.
LEMMA EmitEnds ==
  ASSUME EndInv, driver \in Registry, driver' \in Registry,
         NEW es \in Seq(Kinds), Emit(es), DoneLast(es)
  PROVE  ReleaseInv' /\ ClosedInv'
<1> DEFINE n == Len(log)
           k == Len(es)
<1>1. /\ TypeOK /\ log \in Seq(Kinds) /\ n \in Nat /\ k \in Nat
      /\ \A c \in Clients : got[c] \in Seq(Nat) /\ Len(got[c]) \in Nat
  BY Sizes DEF EndInv, FInv, Inv, TypeOK
<1>2. /\ log' = log \o es /\ Len(log') = n + k
      /\ \A i \in 1 .. n : log'[i] = log[i]
      /\ \A i \in 1 .. k : log'[n + i] = es[i]
  BY <1>1 DEF Emit
<1>3. Has(log', DoneKinds) <=> Has(log, DoneKinds) \/ Has(es, DoneKinds)
  BY <1>1, <1>2, HasCat
<1>4. ReleaseInv'
  <2>1. CASE NoDone(es)
    <3>1. live' \subseteq live
      BY DEF Emit
    <3>2. n <= n + k
      BY <1>1
    <3>3. Len(log') <= MaxBuffer => Len(log) <= MaxBuffer
      BY <1>1, <1>2, <3>2, RunAssumption
    <3>4. QED BY <1>3, <2>1, <3>1, <3>3 DEF EndInv, ReleaseInv, NoDone
  <2>2. CASE es # <<>> /\ Last(es) \in DoneKinds
    BY <2>2 DEF Emit, ReleaseInv
  <2>3. QED BY <2>1, <2>2 DEF DoneLast
<1>5. ASSUME NEW c \in Clients, conn'[c] = "closed"
      PROVE  \E i \in 1 .. Len(got'[c]) :
               got'[c][i] \in 1 .. Len(log') /\ log'[got'[c][i]] \in DoneKinds
  <2>1. CASE c \notin live
    <3>1. got'[c] = got[c] /\ conn[c] = "closed"
      BY <1>5, <2>1 DEF Emit
    <3>2. PICK i \in 1 .. Len(got[c]) : got[c][i] \in 1 .. n /\ log[got[c][i]] \in DoneKinds
      BY <3>1 DEF EndInv, ClosedInv
    <3>3. got[c][i] \in 1 .. n + k /\ log'[got[c][i]] \in DoneKinds
      BY <1>1, <1>2, <3>2
    <3>4. QED BY <1>2, <3>1, <3>2, <3>3
  <2>2. CASE c \in live
    <3>1. es # <<>> /\ Last(es) \in DoneKinds
      <4>1. conn[c] = "open"
        BY <2>2 DEF EndInv, FInv, FrameInv
      <4>2. QED BY <1>5, <2>2, <4>1 DEF Emit
    <3>2. k > 0 /\ Last(es) = es[k]
      BY <3>1 DEF Last
    <3>3. /\ n + 1 \in Nat /\ n + k \in Nat /\ n + 1 <= n + k + 1 /\ n + k + 1 - (n + 1) = k
          /\ n + 1 + k - 1 = n + k
      BY <1>1
    <3> DEFINE more == Positions(n + 1, n + k)
    <3>4. more \in Seq(Nat) /\ Len(more) = k /\ more[k] = n + k
      <4>1. /\ more \in Seq(Nat) /\ Len(more) = n + k + 1 - (n + 1)
            /\ \A i \in 1 .. (n + k + 1 - (n + 1)) : more[i] = n + 1 + i - 1
        BY <3>3, PositionsAre
      <4>2. k \in 1 .. k
        BY <1>1, <3>2
      <4>3. QED BY <3>3, <4>1, <4>2
    <3>5. got'[c] = got[c] \o more
      BY <2>2 DEF Emit
    <3> HIDE DEF more
    <3>6. Len(got'[c]) = Len(got[c]) + k /\ got'[c][Len(got[c]) + k] = n + k
      <4>1. Len(got[c] \o more) = Len(got[c]) + Len(more)
            /\ \A i \in 1 .. Len(more) : (got[c] \o more)[Len(got[c]) + i] = more[i]
        BY <1>1, <3>4, CatIs
      <4>2. k \in 1 .. k
        BY <1>1, <3>2
      <4>3. QED BY <3>4, <3>5, <4>1, <4>2
    <3>7. n + k \in 1 .. Len(log') /\ log'[n + k] \in DoneKinds
      <4>1. k \in 1 .. k /\ n + k \in 1 .. n + k
        BY <1>1, <3>2
      <4>2. QED BY <1>2, <3>1, <3>2, <4>1
    <3>8. Len(got[c]) + k \in 1 .. Len(got'[c])
      BY <1>1, <3>2, <3>6
    <3>9. QED BY <3>6, <3>7, <3>8
  <2>3. QED BY <2>1, <2>2
<1>6. QED BY <1>4, <1>5 DEF ClosedInv

LEMMA DriveEnds ==
  ASSUME EndInv, Drive \/ Abort
  PROVE  ReleaseInv' /\ ClosedInv' /\ AloneInv'
<1>1. driver \in Registry /\ driver' \in Registry
  <2>1. CASE Mirror \/ Crash \/ \E k \in Kinds : Yield(k)
    BY <2>1 DEF Mirror, Crash, Yield, WindDown, Registry
  <2>2. CASE Close \/ Finalize \/ Abort
    BY <2>2 DEF Close, Finalize, Abort, Registry
  <2>3. QED BY <2>1, <2>2 DEF Drive
<1>2. ReleaseInv' /\ ClosedInv'
  <2>1. CASE \E fs \in Seq(Kinds) : Emit(fs) /\ DoneLast(fs)
    BY <1>1, <2>1, EmitEnds
  <2>2. CASE UNCHANGED <<log, conn, live, got>>
    BY <1>1, <2>2 DEF EndInv, ReleaseInv, ClosedInv
  <2>3. QED BY <2>1, <2>2, DriveDone DEF EndInv
<1>3. QED BY <1>1, <1>2 DEF AloneInv, Registry

\* A client that attaches sees the log up to done, if it is in the buffer.
LEMMA AttachEnds ==
  ASSUME EndInv, NEW c \in Clients, Attach(c)
  PROVE  ReleaseInv' /\ ClosedInv' /\ AloneInv'
<1> DEFINE end   == ReplayEnd
           dones == {i \in 1 .. Buffered(Len(log)) : log[i] \in DoneKinds}
<1>1. /\ driver \in Registry /\ TypeOK /\ end \in Nat /\ Len(log) \in Nat
      /\ Buffered(Len(log)) \in Nat /\ Buffered(Len(log)) <= Len(log)
      /\ Len(log) <= MaxBuffer => Buffered(Len(log)) = Len(log)
  <2>1. driver \in Registry /\ TypeOK /\ Inv
    BY DEF Attach, EndInv, FInv, Inv
  <2>2. end \in Nat
    BY <2>1, ReplayTyped
  <2>3. QED BY <2>1, <2>2, Sizes, BufferedGrows
<1>2. /\ got' = [got EXCEPT ![c] = Positions(1, end)]
      /\ conn' = [conn EXCEPT ![c] = IF end > 0 /\ log[end] \in DoneKinds THEN "closed" ELSE "open"]
      /\ live' = IF (end > 0 /\ log[end] \in DoneKinds) \/ status # "running"
                 THEN live ELSE live \cup {c}
      /\ UNCHANGED <<driver, log>>
  BY DEF Attach
<1>3. /\ dones = {} => end = Buffered(Len(log))
      /\ dones # {} => end > 0 /\ log[end] \in DoneKinds
      /\ end <= Len(log)
  <2>1. CASE dones = {}
    BY <1>1, <2>1 DEF ReplayEnd
  <2>2. CASE dones # {}
    <3>1. NoDone(log) \/ OneDone(log)
      BY <1>1 DEF EndInv, FInv, Inv, DoneInv, Registry
    <3>2. \A i, j \in dones : i \in 1 .. Len(log) /\ i = j
      BY <1>1, <3>1 DEF NoDone, OneDone, Has
    <3>3. PICK m \in dones : \A j \in dones : m <= j
      BY <1>1, <2>2, <3>2
    <3>4. (CHOOSE i \in dones : \A j \in dones : i <= j) \in dones
      BY <3>3
    <3>5. end \in dones
      BY <2>2, <3>4 DEF ReplayEnd
    <3>6. QED BY <1>1, <2>2, <3>2, <3>5
  <2>3. QED BY <2>1, <2>2
<1> HIDE DEF end
<1>4. ReleaseInv'
  <2>1. SUFFICES ASSUME Has(log, DoneKinds), Len(log) <= MaxBuffer PROVE live' = {}
    BY <1>2 DEF ReleaseInv
  <2>2. live = {}
    BY <2>1 DEF EndInv, ReleaseInv
  <2>3. dones # {}
    BY <1>1, <2>1 DEF Has
  <2>4. QED BY <1>2, <1>3, <2>2, <2>3
<1>5. ASSUME NEW d \in Clients, conn'[d] = "closed"
      PROVE  \E i \in 1 .. Len(got'[d]) : got'[d][i] \in 1 .. Len(log) /\ log[got'[d][i]] \in DoneKinds
  <2>1. CASE d = c
    <3>1. end > 0 /\ log[end] \in DoneKinds /\ end \in 1 .. Len(log)
      BY <1>1, <1>2, <1>3, <1>5, <2>1 DEF TypeOK
    <3>2. got'[d] = Positions(1, end)
      BY <1>1, <1>2, <2>1 DEF TypeOK
    <3>3. Len(Positions(1, end)) = end /\ Positions(1, end)[end] = end
      <4>1. 1 \in Nat /\ 1 <= end + 1 /\ end + 1 - 1 = end /\ 1 + end - 1 = end /\ end \in 1 .. end
        BY <1>1, <3>1
      <4>2. /\ Len(Positions(1, end)) = end + 1 - 1
            /\ \A i \in 1 .. (end + 1 - 1) : Positions(1, end)[i] = 1 + i - 1
        BY <1>1, <4>1, PositionsAre
      <4>3. QED BY <4>1, <4>2
    <3>4. end \in 1 .. Len(got'[d]) /\ got'[d][end] = end
      BY <1>1, <3>1, <3>2, <3>3
    <3>5. QED BY <3>1, <3>4
  <2>2. CASE d # c
    <3>1. got'[d] = got[d] /\ conn[d] = "closed"
      BY <1>1, <1>2, <1>5, <2>2 DEF TypeOK
    <3>2. QED BY <1>1, <3>1 DEF EndInv, ClosedInv
  <2>3. QED BY <2>1, <2>2
<1>6. QED BY <1>1, <1>2, <1>4, <1>5 DEF ClosedInv, AloneInv, Registry

LEMMA OthersEnd ==
  ASSUME EndInv, \/ \E c \in Clients : Open(c) \/ Replay(c) \/ Leave(c)
                 \/ Evict \/ ForceFinalize \/ Restart \/ UNCHANGED vars
  PROVE  ReleaseInv' /\ ClosedInv' /\ AloneInv'
<1>0. TypeOK /\ ReleaseInv /\ ClosedInv /\ AloneInv
  BY DEF EndInv, FInv, Inv
<1>1. ASSUME NEW c \in Clients, Open(c) PROVE ReleaseInv' /\ ClosedInv' /\ AloneInv'
  <2>1. driver = "none" /\ driver' = "loop" /\ ~Has(log, DoneKinds) /\ UNCHANGED <<log, got>>
    BY <1>1 DEF Open, EndInv, FInv, Inv, DoneInv, NoDone
  <2>2. \A d \in Clients : conn'[d] \in {"open", conn[d]}
    BY <1>0, <1>1 DEF Open, TypeOK
  <2>3. QED BY <1>0, <2>1, <2>2 DEF ReleaseInv, ClosedInv, AloneInv
<1>2. ASSUME NEW c \in Clients, Replay(c) PROVE ReleaseInv' /\ ClosedInv' /\ AloneInv'
  <2>1. driver \in {"evicted", "gone"} /\ UNCHANGED <<driver, log, live>>
    BY <1>2 DEF Replay
  <2>2. QED BY <1>0, <2>1 DEF ReleaseInv, ClosedInv, AloneInv, Registry
<1>3. ASSUME NEW c \in Clients, Leave(c) PROVE ReleaseInv' /\ ClosedInv' /\ AloneInv'
  <2>1. /\ UNCHANGED <<driver, log>> /\ live' \subseteq live
        /\ \A d \in Clients : conn'[d] = "closed" => conn[d] = "closed" /\ got'[d] = got[d]
    BY <1>0, <1>3 DEF Leave, TypeOK
  <2>2. QED BY <1>0, <2>1 DEF ReleaseInv, ClosedInv, AloneInv
<1>4. CASE Evict
  <2>1. driver' = "evicted" /\ UNCHANGED <<log, live>>
    BY <1>4 DEF Evict
  <2>2. QED BY <1>0, <2>1 DEF ReleaseInv, ClosedInv, AloneInv, Registry
<1>5. CASE ForceFinalize \/ UNCHANGED vars
  <2>1. UNCHANGED <<driver, log, conn, live, got>>
    BY <1>5 DEF ForceFinalize, vars
  <2>2. QED BY <1>0, <2>1 DEF ReleaseInv, ClosedInv, AloneInv
<1>6. CASE Restart
  <2>1. driver' = "gone" /\ live' = {}
    BY <1>6 DEF Restart
  <2>2. QED BY <2>1 DEF ReleaseInv, ClosedInv, AloneInv, Registry
<1>7. QED BY <1>1, <1>2, <1>3, <1>4, <1>5, <1>6

LEMMA EndInit == Init => EndInv
<1> SUFFICES ASSUME Init PROVE EndInv
  OBVIOUS
<1>1. FInv
  BY FInit
<1>2. ReleaseInv /\ AloneInv /\ ClosedInv
  BY DEF Init, ReleaseInv, AloneInv, ClosedInv
<1>3. QED BY <1>1, <1>2 DEF EndInv

LEMMA EndNext == EndInv /\ [Next]_vars => EndInv'
<1> SUFFICES ASSUME EndInv, [Next]_vars PROVE EndInv'
  OBVIOUS
<1>1. FInv'
  BY FNext DEF EndInv
<1>2. ReleaseInv' /\ ClosedInv' /\ AloneInv'
  BY DriveEnds, AttachEnds, OthersEnd DEF Next
<1>3. QED BY <1>1, <1>2 DEF EndInv

LEMMA SpecEndInv == Spec => []EndInv
  BY EndInit, EndNext, PTL DEF Spec

\* Once the driver has left its loop and the buffer has not overflowed, no client
\* is subscribed any more, whoever attached before, between or after done.
Released ==
  driver \in {"finalizing", "over", "evicted", "gone"} /\ Len(log) <= MaxBuffer => live = {}

\* Nobody stays subscribed to a run that is through: what SubscribersUnblock rests on.
THEOREM NobodyStaysSubscribed == Spec => []Released
<1>1. ASSUME EndInv PROVE Released
  <2>1. SUFFICES ASSUME driver \in {"finalizing", "over", "evicted", "gone"},
                        Len(log) <= MaxBuffer
                 PROVE  live = {}
    BY DEF Released
  <2>2. CASE driver = "gone"
    BY <1>1, <2>2 DEF EndInv, AloneInv
  <2>3. CASE driver # "gone"
    <3>1. Has(log, DoneKinds)
      BY <1>1, <2>1, <2>3 DEF EndInv, FInv, Inv, DoneInv, OneDone, Has
    <3>2. QED BY <1>1, <2>1, <3>1 DEF EndInv, ReleaseInv
  <2>4. QED BY <2>2, <2>3
<1>2. QED BY <1>1, SpecEndInv, PTL

\* While the run is in the registry, a stream is closed only after its done event
\* was shown on it.
EndsWithDone ==
  driver \in Registry => \A c \in Clients : conn[c] = "closed" =>
    \E i \in 1 .. Len(got[c]) : got[c][i] \in 1 .. Len(log) /\ log[got[c][i]] \in DoneKinds

\* No stream is cut off before done, live or replayed.
THEOREM StreamsEndWithDone == Spec => []EndsWithDone
<1>1. EndInv => EndsWithDone
  BY DEF EndInv, ClosedInv, EndsWithDone
<1>2. QED BY <1>1, SpecEndInv, PTL

-----------------------------------------------------------------------------
(* How the row ends *)

\* The row of a finished run says what the driver decided, which is never that it is
\* running, unless a write failed.
Recorded ==
  driver \in {"over", "evicted"} /\ faults = 0 =>
    row = [status |-> status, script |-> Buffered(Len(log))] /\ row.status # "running"

\* A run that was opened has a row, unless a write failed.
RowInv == (driver # "none" /\ faults = 0 => row.status # "none") /\ Recorded

LEMMA RowNext == Inv /\ RowInv /\ [Next]_vars => RowInv'
<1> SUFFICES ASSUME Inv, RowInv, [Next]_vars PROVE RowInv'
  OBVIOUS
<1>0. TypeOK /\ StatusInv /\ faults \in Nat /\ RowInv
  BY RunAssumption DEF Inv, TypeOK
<1>1. ASSUME NEW k \in Kinds, Yield(k) PROVE RowInv'
  <2>1. /\ driver = "loop" /\ driver' \in {"loop", "mirroring", "closing", "finalizing"}
        /\ UNCHANGED <<row, faults>>
    BY <1>1 DEF Yield, WindDown
  <2>2. QED BY <1>0, <2>1 DEF RowInv, Recorded
<1>2. CASE Mirror
  <2>1. /\ driver = "mirroring" /\ driver' \in {"loop", "closing", "finalizing"}
        /\ \/ row' \in {row, [row EXCEPT !.script = snapshot]} /\ UNCHANGED faults
           \/ row' = row /\ faults' = faults + 1
    BY <1>2 DEF Mirror, Fault, WindDown
  <2>2. row'.status = row.status
    BY <1>0, <2>1 DEF TypeOK
  <2>3. faults' = 0 => faults = 0
    BY <1>0, <2>1
  <2>4. QED BY <1>0, <2>1, <2>2, <2>3 DEF RowInv, Recorded
<1>3. CASE Crash
  <2>1. driver = "loop" /\ driver' \in {"closing", "finalizing"} /\ UNCHANGED <<row, faults>>
    BY <1>3 DEF Crash, WindDown
  <2>2. QED BY <1>0, <2>1 DEF RowInv, Recorded
<1>4. CASE Close
  <2>1. /\ driver = "closing" /\ driver' = "finalizing" /\ row' = row
        /\ faults' \in {faults, faults + 1}
    BY <1>4 DEF Close, Fault
  <2>2. faults' = 0 => faults = 0
    BY <1>0, <2>1
  <2>3. QED BY <1>0, <2>1, <2>2 DEF RowInv, Recorded
<1>5. CASE Finalize
  <2>1. /\ driver = "finalizing" /\ driver' = "over" /\ UNCHANGED <<status, log>>
        /\ \/ row' = [status |-> status, script |-> Buffered(Len(log))] /\ UNCHANGED faults
           \/ row.status = "none" /\ UNCHANGED <<row, faults>>
           \/ row' = row /\ faults' = faults + 1
    BY <1>5 DEF Finalize, Fault
  <2>2. status \notin {"none", "running"} /\ (faults' = 0 => faults = 0 /\ faults' # faults + 1)
    BY <1>0, <2>1 DEF TypeOK, Verdicts, StatusInv
  <2>3. QED BY <1>0, <2>1, <2>2 DEF RowInv, Recorded
<1>6. ASSUME NEW c \in Clients, Open(c) PROVE RowInv'
  <2>1. /\ driver' = "loop" /\ faults' \in {faults, faults + 1}
        /\ row' = [status |-> "running", script |-> 0] \/ faults' = faults + 1
    BY <1>6 DEF Open, Fault
  <2>2. faults' = faults + 1 => faults' # 0
    BY <1>0
  <2>3. QED BY <2>1, <2>2 DEF RowInv, Recorded
<1>7. CASE Evict \/ Restart
  <2>1. /\ UNCHANGED <<row, faults, status, log>> /\ driver # "none"
        /\ driver' = "gone" \/ (driver = "over" /\ driver' = "evicted")
    BY <1>7 DEF Evict, Restart
  <2>2. QED BY <1>0, <2>1 DEF RowInv, Recorded
<1>8. CASE Abort
  <2>1. driver \notin {"over", "evicted"} /\ UNCHANGED <<driver, row, faults>>
    BY <1>0, <1>8 DEF Abort, StatusInv
  <2>2. QED BY <1>0, <2>1 DEF RowInv, Recorded
<1>9. CASE ForceFinalize
  <2>1. /\ UNCHANGED <<driver, status, log, faults>> /\ row.status = "running"
        /\ row'.status = "aborted"
    BY <1>0, <1>9 DEF ForceFinalize, TypeOK
  <2>2. driver \in {"over", "evicted"} => status # "running"
    BY <1>0 DEF StatusInv
  <2>3. QED BY <1>0, <2>1, <2>2 DEF RowInv, Recorded
<1>10. CASE UNCHANGED vars \/ \E c \in Clients : Attach(c) \/ Replay(c) \/ Leave(c)
  <2>1. UNCHANGED <<driver, status, log, row, faults>>
    BY <1>10 DEF vars, Attach, Replay, Leave
  <2>2. QED BY <1>0, <2>1 DEF RowInv, Recorded
<1>11. QED BY <1>1, <1>2, <1>3, <1>4, <1>5, <1>6, <1>7, <1>8, <1>9, <1>10 DEF Next, Drive

\* Without a failing write, a finished run is recorded with the driver's verdict and
\* its whole replay buffer, whatever mirrors and stop requests wrote in between, and
\* never stays running: what RowSettles rests on.
THEOREM VerdictIsRecorded == Spec => []Recorded
<1>1. Init => RowInv
  BY DEF Init, RowInv, Recorded
<1>2. RowInv => Recorded
  BY DEF RowInv
<1>3. QED BY <1>1, <1>2, RowNext, SpecInv, PTL DEF Spec

\* How far the driver of a run has come.
Stage == CASE driver = "loop"       -> 0
           [] driver = "mirroring"  -> 1
           [] driver = "closing"    -> 2
           [] driver = "finalizing" -> 3
           [] OTHER                 -> 4

\* Once the conductor has ended, every step of the driver brings it nearer to its
\* end, and no step of a client, an operator or a restart takes it back.
WindsDown ==
  [][gen = "over" => /\ gen' = "over" /\ Stage' >= Stage
                     /\ Drive => Stage' > Stage]_vars

\* A driver whose conductor has ended is through after three steps at the most,
\* whoever attaches, leaves or stops meanwhile: what the liveness of a run rests on.
THEOREM DriverWindsDown == Spec => WindsDown
<1>1. ASSUME Inv, [Next]_vars
      PROVE  [gen = "over" => /\ gen' = "over" /\ Stage' >= Stage
                              /\ Drive => Stage' > Stage]_vars
  <2>1. SUFFICES ASSUME Next, gen = "over"
                 PROVE  gen' = "over" /\ Stage' >= Stage /\ (Drive => Stage' > Stage)
    BY <1>1 DEF vars
  <2>2. driver \notin {"none", "loop"}
    BY <1>1, <2>1 DEF Inv, DoneInv
  <2>3. CASE Drive
    <3>1. Mirror \/ Close \/ Finalize
      BY <2>2, <2>3 DEF Drive, Yield, Crash
    <3>2. gen' = gen /\ \/ driver = "mirroring" /\ driver' \in {"closing", "finalizing"}
                        \/ driver = "closing" /\ driver' = "finalizing"
                        \/ driver = "finalizing" /\ driver' = "over"
      BY <2>1, <3>1 DEF Mirror, Close, Finalize, WindDown
    <3>3. QED BY <2>1, <3>2 DEF Stage
  <2>4. CASE ~Drive
    <3>1. gen' = gen /\ (driver' = driver \/ driver' \in {"evicted", "gone"})
      BY <2>1, <2>2, <2>4 DEF Next, Evict, Open, Attach, Replay, Leave, Abort, ForceFinalize, Restart
    <3>2. Stage \in 0 .. 4 /\ (driver' \in {"evicted", "gone"} => Stage' = 4)
          /\ (driver' = driver => Stage' = Stage)
      BY DEF Stage
    <3>3. QED BY <2>1, <2>4, <3>1, <3>2
  <2>5. QED BY <2>3, <2>4
<1>2. QED BY <1>1, SpecInv, PTL DEF Spec, WindsDown
=============================================================================
