--------------------------- MODULE RaasBridgeProofs ---------------------------
(***************************************************************************)
(* Theorems about RaasBridge, for any number of log entries and replays,   *)
(* any window, and any seen-set whose trim keeps a seeding and a window.   *)
(***************************************************************************)
EXTENDS RaasBridge, SequenceTheorems, FiniteSetTheorems, TLAPS

LEMMA Constants ==
  /\ MaxEvents \in Nat /\ FetchLimit \in Nat /\ FetchLimit > 0
  /\ SeenCap \in Nat /\ SeenKeep \in Nat /\ SeedLimit \in Nat
  /\ FetchLimit <= SeedLimit /\ SeedLimit <= SeenCap
  /\ SeedLimit + FetchLimit - 1 <= SeenKeep /\ SeenKeep <= SeenCap
  /\ Events \subseteq Nat
  BY BridgeAssumption DEF Events

-----------------------------------------------------------------------------
(* The inductive invariant *)

\* How long the seen-set can get before the next trim, and how long a fetch is.
LengthInv ==
  /\ loop \in {"scanning", "publishing"} =>
       Len(batch) <= FetchLimit /\ Len(seen) + Len(batch) <= SeenCap + FetchLimit
  /\ loop = "noting" => Len(seen) + Len(batch) <= SeedLimit
  /\ loop \in {"stopped", "seeding", "waiting"} => Len(seen) <= SeenCap /\ batch = <<>>

\* A process that has not polled yet has pushed nothing, and before its seeding it
\* knows nothing.
FreshInv ==
  /\ loop \in {"stopped", "seeding"} => seen = <<>> /\ since = 0
  /\ loop \in {"stopped", "seeding", "noting"} => \A e \in Events : tries[e] = 0

\* What has been pushed, seen or fetched has arrived.
ArrivedInv ==
  /\ \A e \in Events : tries[e] > 0 => e <= arrived
  /\ \A i \in 1 .. Len(seen) : seen[i] <= arrived
  /\ \A k \in 1 .. Len(batch) : batch[k] <= arrived
  /\ since <= arrived
  /\ \A e \in Events : e > arrived => id[e] = e

Distinct(s) == \A i, j \in 1 .. Len(s) : s[i] = s[j] => i = j

\* What follows an entry in the seen-set is at most a seeding older, and at most a
\* window if the entry was pushed.
SpreadInv ==
  /\ Distinct(seen)
  /\ \A i, j \in 1 .. Len(seen) :
       i < j => /\ seen[i] < seen[j] + SeedLimit
                /\ tries[seen[i]] > 0 => seen[i] < seen[j] + FetchLimit

\* The entries of a poll are of one window: nothing pushed, seen, fetched with them
\* or seeded is newer by more.
BatchInv ==
  loop # "noting" =>
    \A k \in 1 .. Len(batch) :
      /\ \A e \in Events : tries[e] > 0 => e < batch[k] + FetchLimit
      /\ \A l \in 1 .. Len(batch) : batch[l] < batch[k] + FetchLimit
      /\ \A i \in 1 .. Len(seen) : seen[i] < batch[k] + FetchLimit
      /\ since < batch[k] + FetchLimit

\* The page of the seeding is noted newest first.
NotingInv ==
  loop = "noting" =>
    /\ \A i \in 1 .. Len(seen) : seen[i] <= since
    /\ \A k \in 1 .. Len(batch) :
         /\ batch[k] <= since /\ since < batch[k] + SeedLimit
         /\ \A i \in 1 .. Len(seen) : batch[k] < seen[i]
         /\ \A l \in 1 .. Len(batch) : k < l => batch[l] < batch[k]

\* What is being published is unknown.
PublishInv ==
  loop = "publishing" => batch # <<>> /\ ~Knows(seen, Head(batch))

\* Entry f lies n entries behind the log, and behind every entry still to be looked at.
Behind(f, n) ==
  /\ f + n <= arrived
  /\ \A k \in 1 .. Len(batch) : f + n < batch[k] + FetchLimit

\* A pushed entry is remembered, or is about to be, until it is far behind.
PushedInv ==
  \A f \in Events :
    tries[f] > 0 =>
      \/ Contains(seen, f)
      \/ loop = "publishing" /\ f = Head(batch)
      \/ Behind(f, SeenKeep - FetchLimit + 1)

\* An entry as new as f, with the id of f, is remembered.
Kept(f) == \E i \in 1 .. Len(seen) : id[seen[i]] = id[f] /\ f <= seen[i]

\* So is the id of what the seeding has read.
SeededInv ==
  \A f \in Seeded :
    \/ Kept(f)
    \/ loop = "noting" /\ Contains(batch, f)
    \/ loop # "noting" /\ Behind(f, SeenKeep - SeedLimit + 1)

Inv ==
  /\ TypeOK /\ LengthInv /\ FreshInv /\ ArrivedInv /\ SpreadInv /\ BatchInv /\ NotingInv
  /\ PublishInv /\ PushedInv /\ SeededInv
  /\ PushedOnce /\ HistoryNotRefired

-----------------------------------------------------------------------------
(* The helpers *)

LEMMA Numbers ==
  ASSUME TypeOK
  PROVE  /\ seen \in Seq(Events) /\ Len(seen) \in Nat /\ batch \in Seq(Events) /\ Len(batch) \in Nat
         /\ arrived \in Nat /\ since \in Nat /\ tries \in [Events -> Nat] /\ id \in [Events -> Events]
         /\ \A e \in Events : e \in Nat /\ tries[e] \in Nat
         /\ \A i \in 1 .. Len(seen) : seen[i] \in Events /\ seen[i] \in Nat
         /\ \A k \in 1 .. Len(batch) : batch[k] \in Events /\ batch[k] \in Nat
         /\ Seeded \subseteq Events
         /\ \A e \in Events : e > 0
<1>1. /\ seen \in Seq(Events) /\ Len(seen) \in Nat /\ batch \in Seq(Events) /\ Len(batch) \in Nat
      /\ arrived \in Nat /\ since \in Nat /\ tries \in [Events -> Nat] /\ id \in [Events -> Events]
  BY Constants DEF TypeOK
<1>2. (\A i \in 1 .. Len(seen) : seen[i] \in Events) /\ \A k \in 1 .. Len(batch) : batch[k] \in Events
  BY <1>1
<1>3. \A e \in Events : e \in Nat /\ tries[e] \in Nat /\ e > 0
  BY <1>1, Constants DEF Events
<1>4. Seeded \subseteq Events
  BY Constants DEF TypeOK, Seeded, Events
<1>5. QED BY <1>1, <1>2, <1>3, <1>4

LEMMA FetchedTyped ==
  ASSUME arrived \in 0 .. MaxEvents, NEW n \in Nat
  PROVE  /\ Fetched(n) \in Seq(Events)
         /\ Len(Fetched(n)) <= n
         /\ \A i \in 1 .. Len(Fetched(n)) :
              Fetched(n)[i] <= arrived /\ arrived < Fetched(n)[i] + n
         /\ \A i, j \in 1 .. Len(Fetched(n)) : i < j => Fetched(n)[j] < Fetched(n)[i]
<1> DEFINE m == IF arrived < n THEN arrived ELSE n
<1>1. m \in Nat /\ m <= n /\ m <= arrived /\ arrived \in Nat
  BY Constants
<1>2. \A i \in 1 .. m : arrived + 1 - i \in Events
  BY <1>1, Constants DEF Events
<1>3. Fetched(n) = [i \in 1 .. m |-> arrived + 1 - i]
  BY DEF Fetched
<1> HIDE DEF m
<1>4. Fetched(n) \in Seq(Events) /\ Len(Fetched(n)) = m
      /\ \A i \in 1 .. m : Fetched(n)[i] = arrived + 1 - i
  BY <1>1, <1>2, <1>3
<1>5. QED BY <1>1, <1>4

LEMMA FetchedAll ==
  ASSUME arrived \in 0 .. MaxEvents, NEW n \in Nat, NEW e \in Events,
         e <= arrived, arrived < e + n
  PROVE  Contains(Fetched(n), e)
<1> DEFINE m == IF arrived < n THEN arrived ELSE n
           i == arrived + 1 - e
<1>1. m \in Nat /\ i \in 1 .. m /\ arrived + 1 - i = e
  BY Constants DEF Events
<1>2. Fetched(n) = [j \in 1 .. m |-> arrived + 1 - j]
  BY DEF Fetched
<1> HIDE DEF m, i
<1>3. Fetched(n)[i] = e /\ Len(Fetched(n)) = m
  BY <1>1, <1>2
<1>4. QED BY <1>1, <1>3 DEF Contains

LEMMA HeadTail ==
  ASSUME NEW s \in Seq(Events), s # <<>>
  PROVE  /\ Head(s) \in Events /\ Head(s) = s[1] /\ 1 \in 1 .. Len(s)
         /\ Tail(s) \in Seq(Events) /\ Len(s) \in Nat /\ Len(Tail(s)) = Len(s) - 1
         /\ Len(Tail(s)) \in Nat
         /\ \A k \in 1 .. Len(Tail(s)) : k + 1 \in 1 .. Len(s) /\ Tail(s)[k] = s[k + 1]
  OBVIOUS

LEMMA AddTyped ==
  ASSUME NEW s \in Seq(Events), NEW e \in Events
  PROVE  /\ Add(s, e) \in Seq(Events)
         /\ Len(Add(s, e)) \in {Len(s), Len(s) + 1}
         /\ \A i \in 1 .. Len(s) : i \in 1 .. Len(Add(s, e)) /\ Add(s, e)[i] = s[i]
         /\ \A i \in 1 .. Len(Add(s, e)) :
              i \in 1 .. Len(s) \/ (i = Len(s) + 1 /\ Add(s, e)[i] = e /\ ~Knows(s, e))
         /\ Knows(s, e) \/ Contains(Add(s, e), e)
         /\ Distinct(s) => Distinct(Add(s, e))
<1>1. /\ Append(s, e) \in Seq(Events) /\ Len(Append(s, e)) = Len(s) + 1 /\ Len(s) \in Nat
      /\ \A i \in 1 .. Len(s) : Append(s, e)[i] = s[i]
      /\ Append(s, e)[Len(s) + 1] = e
  OBVIOUS
<1>2. CASE Knows(s, e)
  BY <1>2 DEF Add
<1>3. CASE ~Knows(s, e)
  <2>1. Add(s, e) = Append(s, e)
    BY <1>3 DEF Add
  <2>2. \A i \in 1 .. Len(s) + 1 : i \in 1 .. Len(s) \/ i = Len(s) + 1
    BY <1>1
  <2>3. Distinct(s) => Distinct(Append(s, e))
    <3>1. \A i \in 1 .. Len(s) : s[i] # e
      BY <1>3 DEF Knows
    <3>2. QED BY <1>1, <2>2, <3>1 DEF Distinct
  <2>4. Contains(Append(s, e), e)
    BY <1>1 DEF Contains
  <2>5. QED BY <1>1, <1>3, <2>1, <2>2, <2>3, <2>4
<1>4. QED BY <1>2, <1>3

\* A trim keeps the order of what it keeps, and keeps the end.
LEMMA TrimTyped ==
  ASSUME NEW s \in Seq(Events)
  PROVE  /\ Trim(s) \in Seq(Events)
         /\ Len(Trim(s)) <= SeenCap
         /\ \E d \in 0 .. Len(s) :
              /\ Len(Trim(s)) = Len(s) - d
              /\ \A i \in 1 .. Len(Trim(s)) : Trim(s)[i] = s[i + d]
              /\ d = 0 \/ Len(s) - d = SeenKeep
<1>0. Len(s) \in Nat
  OBVIOUS
<1>1. CASE Len(s) > SeenCap
  <2> DEFINE d == Len(s) - SeenKeep
  <2>1. d \in 0 .. Len(s) /\ d \in Nat
    BY <1>0, <1>1, Constants
  <2>2. Trim(s) = SubSeq(s, d + 1, Len(s))
    BY <1>1 DEF Trim
  <2>3. \A i \in (d + 1) .. Len(s) : s[i] \in Events
    BY <2>1
  <2>4. /\ SubSeq(s, d + 1, Len(s)) \in Seq(Events)
        /\ Len(SubSeq(s, d + 1, Len(s))) = IF d + 1 <= Len(s) THEN Len(s) - (d + 1) + 1 ELSE 0
        /\ \A i \in 1 .. Len(s) - (d + 1) + 1 :
             SubSeq(s, d + 1, Len(s))[i] = s[d + 1 + i - 1]
    <3>1. d + 1 \in Int /\ Len(s) \in Int
      BY <1>0, <2>1
    <3>2. QED BY ONLY <2>3, <3>1, SubSeqProperties
  <2>5. Len(Trim(s)) = Len(s) - d /\ Len(Trim(s)) = SeenKeep
    BY <1>0, <2>1, <2>2, <2>4, Constants
  <2>6. \A i \in 1 .. Len(Trim(s)) : Trim(s)[i] = s[i + d]
    <3>1. TAKE i \in 1 .. Len(Trim(s))
    <3>2. i \in 1 .. Len(s) - (d + 1) + 1 /\ d + 1 + i - 1 = i + d
      BY <1>0, <2>1, <2>5
    <3>3. QED BY <2>2, <2>4, <3>2
  <2>7. QED BY <2>1, <2>2, <2>4, <2>5, <2>6, Constants
<1>2. CASE ~(Len(s) > SeenCap)
  <2>1. Trim(s) = s /\ Len(s) <= SeenCap
    BY <1>0, <1>2, Constants DEF Trim
  <2>2. 0 \in 0 .. Len(s) /\ \A i \in 1 .. Len(s) : i + 0 = i
    BY <1>0
  <2>3. QED BY <1>0, <2>1, <2>2
<1>3. QED BY <1>1, <1>2

\* Distinct numbers near s[i], less than m below it and less than n above it: there
\* are at most m + n - 1.
LEMMA Crowd ==
  ASSUME NEW s \in Seq(Events), NEW i \in 1 .. Len(s), Distinct(s),
         NEW m \in Nat \ {0}, NEW n \in Nat \ {0},
         \A j \in i .. Len(s) : s[i] < s[j] + m /\ s[j] < s[i] + n
  PROVE  Len(s) - i + 1 <= m + n - 1
<1>0. Len(s) \in Nat /\ i \in Nat /\ \A j \in 1 .. Len(s) : s[j] \in Nat
  <2>1. Len(s) \in Nat /\ i \in Nat
    OBVIOUS
  <2>2. \A j \in 1 .. Len(s) : s[j] \in Events
    OBVIOUS
  <2>3. \A j \in 1 .. Len(s) : s[j] \in Nat
    BY <2>2, Constants
  <2>4. QED BY <2>1, <2>3
<1> DEFINE S == i .. Len(s)
           T == 1 .. (m + n - 1)
           f == [j \in S |-> s[j] + m - s[i]]
<1>1. SUFFICES ASSUME Len(s) - i + 1 > m + n - 1 PROVE FALSE
  BY <1>0, Constants
<1>2. f \in [S -> T]
  <2>1. \A j \in S : s[j] + m - s[i] \in T
    BY <1>0
  <2>2. QED BY <2>1
<1>3. IsFiniteSet(S) /\ Cardinality(S) = Len(s) - i + 1
  BY <1>0, FS_Interval
<1>4. IsFiniteSet(T) /\ Cardinality(T) = m + n - 1
  BY Constants, FS_Interval
<1>5. Cardinality(T) < Cardinality(S)
  BY <1>1, <1>3, <1>4, <1>0, Constants
<1> HIDE DEF f, T
<1>6. \E x, y \in S : x # y /\ f[x] = f[y]
  BY <1>2, <1>3, <1>4, <1>5, FS_PigeonHole
<1>7. \A x, y \in S : f[x] = f[y] => x = y
  <2>1. TAKE x, y \in S
  <2>2. HAVE f[x] = f[y]
  <2>3. s[x] + m - s[i] = s[y] + m - s[i] /\ x \in 1 .. Len(s) /\ y \in 1 .. Len(s)
    BY <1>0, <2>2 DEF f
  <2>4. s[x] = s[y]
    BY <1>0, <2>3, Constants
  <2>5. QED BY <2>3, <2>4 DEF Distinct
<1>8. QED BY <1>6, <1>7

-----------------------------------------------------------------------------
(* The steps *)

LEMMA InitInv == Init => Inv
<1> SUFFICES ASSUME Init PROVE Inv
  OBVIOUS
<1>1. tries \in [Events -> Nat] /\ \A e \in Events : tries[e] = 0
  BY DEF Init
<1>2. id \in [Events -> Events] /\ \A e \in Events : id[e] = e
  BY DEF Init
<1>3. batch \in Seq(Events) /\ Len(batch) = 0 /\ seen \in Seq(Events) /\ Len(seen) = 0
  BY DEF Init
<1>4. TypeOK
  <2>1. Len(batch) <= SeedLimit /\ Len(seen) <= SeenCap + FetchLimit /\ Len(seen) <= SeenCap
    BY <1>3, Constants
  <2>2. 0 \in 0 .. MaxEvents /\ \A e \in Events : e <= e
    BY Constants
  <2>3. QED BY <1>1, <1>2, <1>3, <2>1, <2>2 DEF Init, TypeOK
<1>5. Seeded = {}
  BY DEF Init, Seeded
<1>6. LengthInv /\ FreshInv /\ ArrivedInv /\ SpreadInv /\ BatchInv /\ NotingInv
  BY <1>1, <1>2, <1>3, Constants
  DEF Init, LengthInv, FreshInv, ArrivedInv, SpreadInv, Distinct, BatchInv, NotingInv
<1>7. PublishInv /\ PushedInv /\ SeededInv /\ PushedOnce /\ HistoryNotRefired
  BY <1>1, <1>5 DEF Init, PublishInv, PushedInv, SeededInv, PushedOnce, HistoryNotRefired
<1>8. QED BY <1>4, <1>6, <1>7 DEF Inv

\* Neither kind of new entry changes the id of an entry that was there.
LEMMA ArriveIds ==
  ASSUME TypeOK, ArrivedInv, Arrive \/ Replay
  PROVE  /\ arrived' = arrived + 1 /\ arrived' \in Events
         /\ id' \in [Events -> Events]
         /\ \A e \in Events : e <= arrived => id'[e] = id[e]
         /\ \A e \in Events : e > arrived' => id'[e] = e
         /\ \A e \in Events : id'[e] <= e /\ id'[id'[e]] = id'[e]
         /\ UNCHANGED <<loop, batch, seen, since, tries>>
<1> DEFINE n == arrived + 1
<1>1. arrived \in Nat /\ n \in Events /\ arrived' = n /\ UNCHANGED <<loop, batch, seen, since, tries>>
      /\ \A e \in Events : e \in Nat
  <2>1. arrived \in Nat /\ arrived < MaxEvents
    BY Constants DEF TypeOK, Arrive, Replay
  <2>2. n \in 1 .. MaxEvents
    BY <2>1, Constants
  <2>3. QED BY <2>1, <2>2, Numbers DEF Arrive, Replay, Events
<1>2. /\ id \in [Events -> Events] /\ \A e \in Events : id[e] <= e /\ id[id[e]] = id[e]
      /\ \A e \in Events : e > arrived => id[e] = e
  BY DEF TypeOK, ArrivedInv
<1> HIDE DEF n
<1>3. CASE Arrive
  <2>1. id' = id
    BY <1>3 DEF Arrive
  <2>2. \A e \in Events : e > n => e > arrived
    BY <1>1 DEF n
  <2>3. QED BY <1>1, <1>2, <2>1, <2>2 DEF n
<1>4. CASE Replay
  <2>1. PICK o \in 1 .. arrived : id' = [id EXCEPT ![n] = id[o]]
    BY <1>4 DEF Replay, n
  <2>2. o \in Events /\ o < n /\ id[o] \in Events /\ id[o] <= o /\ id[o] < n /\ id[id[o]] = id[o]
    <3>1. o \in Events /\ o < n
      BY <1>1, Constants DEF n, Events
    <3>2. id[o] \in Events /\ id[o] <= o /\ id[id[o]] = id[o]
      BY <1>2, <3>1
    <3>3. o \in Nat /\ n \in Nat /\ id[o] \in Nat
      BY <1>1, <3>1, <3>2
    <3>4. QED BY <3>1, <3>2, <3>3
  <2>3. id' \in [Events -> Events] /\ id'[n] = id[o] /\ \A e \in Events \ {n} : id'[e] = id[e]
    BY <1>1, <1>2, <2>1, <2>2
  <2>4. \A e \in Events : (e <= arrived \/ e > n) => e # n
    BY <1>1 DEF n
  <2>5. \A e \in Events : e <= arrived => id'[e] = id[e]
    BY <2>3, <2>4
  <2>6. \A e \in Events : e > n => id'[e] = e
    <3>1. \A e \in Events : e > n => e > arrived
      BY <1>1 DEF n
    <3>2. QED BY <1>2, <2>3, <2>4, <3>1
  <2>7. ASSUME NEW e \in Events PROVE id'[e] <= e /\ id'[id'[e]] = id'[e]
    <3>1. CASE e = n
      <4>1. id'[e] = id[o] /\ id[o] # n
        BY <1>1, <2>2, <2>3, <3>1
      <4>2. id'[id[o]] = id[o]
        BY <2>2, <2>3, <4>1
      <4>3. id[o] <= n
        <5>1. id[o] \in Nat /\ n \in Nat
          BY <1>1, <2>2
        <5>2. QED BY <2>2, <5>1
      <4>4. QED BY <3>1, <4>1, <4>2, <4>3
    <3>2. CASE e # n
      <4>1. id'[e] = id[e] /\ id[e] \in Events /\ id[e] <= e
        BY <1>2, <2>3, <2>7, <3>2
      <4>2. id[e] # n
        <5>1. CASE e <= arrived
          BY <1>1, <2>7, <4>1, <5>1 DEF n
        <5>2. CASE e > arrived
          BY <1>2, <2>7, <3>2, <5>2
        <5>3. QED BY <1>1, <2>7, <5>1, <5>2
      <4>3. QED BY <1>2, <2>3, <2>7, <4>1, <4>2
    <3>3. QED BY <3>1, <3>2
  <2>8. QED BY <1>1, <2>3, <2>5, <2>6, <2>7 DEF n
<1>5. QED BY <1>3, <1>4

LEMMA ArriveInv ==
  ASSUME Inv, Arrive \/ Replay
  PROVE  Inv'
<1>0. /\ TypeOK /\ ArrivedInv /\ arrived \in Nat /\ arrived' = arrived + 1 /\ arrived' \in Events
      /\ id' \in [Events -> Events]
      /\ \A e \in Events : e <= arrived => id'[e] = id[e]
      /\ \A e \in Events : e > arrived' => id'[e] = e
      /\ \A e \in Events : id'[e] <= e /\ id'[id'[e]] = id'[e]
      /\ loop' = loop /\ batch' = batch /\ seen' = seen /\ since' = since /\ tries' = tries
  <2>1. TypeOK /\ ArrivedInv
    BY DEF Inv
  <2>2. QED BY <2>1, ArriveIds, Numbers
<1>1. /\ \A e \in Events : e \in Nat
      /\ \A i \in 1 .. Len(seen) : seen[i] \in Events /\ seen[i] \in Nat /\ id'[seen[i]] = id[seen[i]]
      /\ \A k \in 1 .. Len(batch) : batch[k] \in Events /\ batch[k] \in Nat /\ id'[batch[k]] = id[batch[k]]
      /\ \A e \in Events : tries[e] > 0 => id'[e] = id[e]
      /\ \A e \in Seeded : e \in Events /\ id'[e] = id[e]
      /\ Seeded' = Seeded
  <2>1. /\ \A i \in 1 .. Len(seen) : seen[i] <= arrived
        /\ \A k \in 1 .. Len(batch) : batch[k] <= arrived
        /\ \A e \in Events : tries[e] > 0 => e <= arrived
    BY <1>0 DEF ArrivedInv
  <2>2. \A e \in Seeded : e <= arrived
    BY <1>0, Numbers DEF Seeded, ArrivedInv
  <2>3. Seeded' = Seeded
    BY <1>0 DEF Seeded
  <2>4. QED BY <1>0, <2>1, <2>2, <2>3, Numbers
<1>2. TypeOK'
  <2>1. arrived' \in 0 .. MaxEvents
    BY <1>0, Constants DEF Events
  <2>2. QED BY <1>0, <2>1 DEF TypeOK
<1>3. LengthInv' /\ FreshInv' /\ SpreadInv' /\ BatchInv' /\ NotingInv'
  BY <1>0 DEF Inv, LengthInv, FreshInv, SpreadInv, BatchInv, NotingInv
<1>4. ArrivedInv'
  <2>1. since \in Nat
    BY <1>0, Numbers
  <2>2. QED BY <1>0, <1>1, <2>1 DEF ArrivedInv
<1>5. PublishInv'
  <2>1. SUFFICES ASSUME loop = "publishing" PROVE batch # <<>> /\ ~Knows(seen, Head(batch))'
    BY <1>0 DEF PublishInv
  <2>2. batch # <<>> /\ ~Knows(seen, Head(batch))
    BY <2>1 DEF Inv, PublishInv
  <2>3. Head(batch) = batch[1] /\ 1 \in 1 .. Len(batch)
    BY <1>0, <2>2, Numbers, HeadTail
  <2>4. QED BY <1>0, <1>1, <2>2, <2>3 DEF Knows
<1>6. PushedInv'
  <2>1. SUFFICES ASSUME NEW f \in Events, tries[f] > 0
                 PROVE  \/ Contains(seen, f)
                        \/ loop = "publishing" /\ f = Head(batch)
                        \/ Behind(f, SeenKeep - FetchLimit + 1)'
    BY <1>0 DEF PushedInv, Contains
  <2>2. Behind(f, SeenKeep - FetchLimit + 1) => Behind(f, SeenKeep - FetchLimit + 1)'
    BY <1>0, <1>1, Constants DEF Behind
  <2>3. QED BY <2>1, <2>2 DEF Inv, PushedInv
<1>7. SeededInv'
  <2>1. SUFFICES ASSUME NEW f \in Seeded
                 PROVE  \/ Kept(f)'
                        \/ loop = "noting" /\ Contains(batch, f)
                        \/ loop # "noting" /\ Behind(f, SeenKeep - SeedLimit + 1)'
    BY <1>0, <1>1 DEF SeededInv, Contains
  <2>2. Behind(f, SeenKeep - SeedLimit + 1) => Behind(f, SeenKeep - SeedLimit + 1)'
    <3>1. f \in Events
      BY <1>1, <2>1
    <3>2. f \in Nat
      BY <1>1, <3>1
    <3>3. SeenKeep - SeedLimit + 1 \in Nat
      BY Constants
    <3>4. QED BY <1>0, <3>2, <3>3 DEF Behind
  <2>3. Kept(f) => Kept(f)'
    BY <1>0, <1>1 DEF Kept
  <2>4. QED BY <2>1, <2>2, <2>3 DEF Inv, SeededInv
<1>8. PushedOnce'
  BY <1>0, <1>1 DEF Inv, PushedOnce
<1>9. HistoryNotRefired'
  BY <1>0, <1>1 DEF Inv, HistoryNotRefired
<1>10. QED BY <1>2, <1>3, <1>4, <1>5, <1>6, <1>7, <1>8, <1>9 DEF Inv

LEMMA RestartInv ==
  ASSUME Inv, Restart
  PROVE  Inv'
<1>0. /\ TypeOK /\ ArrivedInv /\ loop' = "stopped" /\ batch' = <<>> /\ seen' = <<>> /\ since' = 0
      /\ tries' = [e \in Events |-> 0] /\ arrived' = arrived /\ id' = id
  BY DEF Inv, Restart
<1>1. tries' \in [Events -> Nat] /\ \A e \in Events : tries'[e] = 0
  BY <1>0
<1>2. batch' \in Seq(Events) /\ Len(batch') = 0 /\ seen' \in Seq(Events) /\ Len(seen') = 0
  BY <1>0
<1>3. TypeOK'
  <2>1. Len(batch') <= SeedLimit /\ Len(seen') <= SeenCap + FetchLimit /\ Len(seen') <= SeenCap
    BY <1>2, Constants
  <2>2. since' \in 0 .. MaxEvents
    BY <1>0, Constants
  <2>3. QED BY <1>0, <1>1, <1>2, <2>1, <2>2 DEF TypeOK
<1>4. Seeded' = {}
  BY <1>0 DEF Seeded
<1>5. LengthInv' /\ FreshInv' /\ SpreadInv' /\ BatchInv' /\ NotingInv'
  BY <1>0, <1>1, <1>2, Constants DEF LengthInv, FreshInv, SpreadInv, Distinct, BatchInv, NotingInv
<1>6. ArrivedInv'
  BY <1>0, <1>1, <1>2, Numbers DEF ArrivedInv
<1>7. PublishInv' /\ PushedInv' /\ SeededInv' /\ PushedOnce' /\ HistoryNotRefired'
  BY <1>0, <1>1, <1>4 DEF PublishInv, PushedInv, SeededInv, PushedOnce, HistoryNotRefired
<1>8. QED BY <1>3, <1>5, <1>6, <1>7 DEF Inv

LEMMA StartInv ==
  ASSUME Inv, Start
  PROVE  Inv'
<1>0. /\ TypeOK /\ loop = "stopped" /\ loop' = "seeding"
      /\ UNCHANGED <<arrived, id, batch, seen, since, tries, outages, restarts>>
  BY DEF Inv, Start
<1>1. /\ TypeOK' /\ LengthInv' /\ FreshInv' /\ ArrivedInv' /\ SpreadInv' /\ BatchInv' /\ NotingInv'
      /\ PushedOnce' /\ HistoryNotRefired' /\ PublishInv'
  BY <1>0
  DEF Inv, TypeOK, LengthInv, FreshInv, ArrivedInv, SpreadInv, BatchInv, NotingInv,
      PushedOnce, HistoryNotRefired, Seeded, PublishInv
<1>2. PushedInv' /\ SeededInv'
  BY <1>0 DEF Inv, PushedInv, SeededInv, Seeded, Kept, Behind
<1>3. QED BY <1>1, <1>2 DEF Inv

LEMMA SeedInv ==
  ASSUME Inv, Seed
  PROVE  Inv'
<1>0. /\ TypeOK /\ ArrivedInv /\ loop = "seeding" /\ loop' = "noting" /\ batch = <<>>
      /\ seen = <<>> /\ since = 0 /\ \A e \in Events : tries[e] = 0
      /\ arrived' = arrived /\ id' = id /\ seen' = seen /\ tries' = tries
  BY DEF Inv, Seed, LengthInv, FreshInv
<1>1. arrived \in 0 .. MaxEvents /\ arrived \in Nat /\ Len(seen) = 0
  BY <1>0, Numbers DEF TypeOK
<1>2. PublishInv' /\ PushedInv' /\ PushedOnce' /\ HistoryNotRefired' /\ FreshInv' /\ BatchInv'
  BY <1>0 DEF PublishInv, PushedInv, PushedOnce, HistoryNotRefired, FreshInv, BatchInv
<1>3. SpreadInv'
  BY <1>0, <1>1 DEF SpreadInv, Distinct
<1>4. CASE batch' = Fetched(SeedLimit) /\ since' = arrived
  <2> DEFINE s == Fetched(SeedLimit)
  <2>1. /\ s \in Seq(Events) /\ Len(s) <= SeedLimit
        /\ \A i \in 1 .. Len(s) : s[i] <= arrived /\ arrived < s[i] + SeedLimit
        /\ \A i, j \in 1 .. Len(s) : i < j => s[j] < s[i]
    BY <1>1, Constants, FetchedTyped
  <2>2. \A e \in Events : e <= arrived /\ arrived < e + SeedLimit => Contains(s, e)
    BY <1>1, Constants, FetchedAll
  <2> HIDE DEF s
  <2>3. batch' = s
    BY <1>4 DEF s
  <2>4. TypeOK'
    BY <1>0, <1>1, <1>4, <2>1, <2>3 DEF TypeOK
  <2>5. LengthInv'
    <3>1. Len(s) \in Nat
      BY <2>1
    <3>2. QED BY <1>0, <1>1, <2>1, <2>3, <3>1, Constants DEF LengthInv
  <2>6. ArrivedInv' /\ NotingInv'
    BY <1>0, <1>1, <1>4, <2>1, <2>3 DEF ArrivedInv, NotingInv
  <2>7. SeededInv'
    <3>1. \A f \in Seeded' : f \in Events /\ f <= arrived /\ arrived < f + SeedLimit
      BY <1>1, <1>4, Constants DEF Seeded, Events
    <3>2. QED BY <1>0, <2>2, <2>3, <3>1 DEF SeededInv, Contains
  <2>8. QED BY <1>2, <1>3, <2>4, <2>5, <2>6, <2>7 DEF Inv
<1>5. CASE batch' = batch /\ since' = since
  <2>1. TypeOK' /\ ArrivedInv'
    BY <1>0, <1>5 DEF TypeOK, ArrivedInv
  <2>2. LengthInv' /\ NotingInv' /\ SeededInv'
    <3>1. Seeded' = {} /\ Len(batch') = 0
      BY <1>0, <1>5 DEF Seeded
    <3>2. QED BY <1>0, <1>1, <1>5, <3>1, Constants DEF LengthInv, NotingInv, SeededInv
  <2>3. QED BY <1>2, <1>3, <2>1, <2>2 DEF Inv
<1>6. QED BY <1>4, <1>5 DEF Seed

LEMMA PollInv ==
  ASSUME Inv, Poll
  PROVE  Inv'
<1>0. /\ TypeOK /\ ArrivedInv /\ loop = "waiting" /\ loop' = "scanning" /\ batch = <<>> /\ Len(seen) <= SeenCap
      /\ arrived' = arrived /\ id' = id /\ seen' = seen /\ since' = since /\ tries' = tries
      /\ arrived \in Nat /\ arrived \in 0 .. MaxEvents /\ since \in Nat /\ Len(seen) \in Nat
  <2>1. TypeOK
    BY DEF Inv
  <2>2. QED BY <2>1, Numbers DEF Inv, Poll, LengthInv, TypeOK
<1>1. /\ batch' \in Seq(Events) /\ Len(batch') \in Nat /\ Len(batch') <= FetchLimit
      /\ \A k \in 1 .. Len(batch') :
           batch'[k] \in Nat /\ batch'[k] <= arrived /\ arrived < batch'[k] + FetchLimit
  <2>1. CASE batch' = <<>>
    BY <2>1, Constants
  <2>2. CASE batch' = Fetched(FetchLimit)
    <3>1. batch' \in Seq(Events)
      BY <2>2, <1>0, Constants, FetchedTyped
    <3>2. Len(batch') \in Nat /\ \A k \in 1 .. Len(batch') : batch'[k] \in Events
      BY <3>1
    <3>3. QED BY <2>2, <3>1, <3>2, <1>0, Constants, FetchedTyped
  <2>3. QED BY <2>1, <2>2, <1>0 DEF Poll
<1>2. TypeOK'
  BY <1>0, <1>1, Constants DEF TypeOK
<1>3. LengthInv' /\ FreshInv'
  BY <1>0, <1>1, Constants DEF LengthInv, FreshInv
<1>4. SpreadInv' /\ ArrivedInv'
  BY <1>0, <1>1 DEF Inv, SpreadInv, ArrivedInv
<1>5. BatchInv'
  <2>1. /\ \A e \in Events : e \in Nat /\ (tries[e] > 0 => e <= arrived)
        /\ \A i \in 1 .. Len(seen) : seen[i] \in Nat /\ seen[i] <= arrived
        /\ since <= arrived
    BY <1>0, Numbers DEF ArrivedInv
  <2>2. QED BY <1>0, <1>1, <2>1, Constants DEF BatchInv
<1>6. NotingInv' /\ PublishInv'
  BY <1>0 DEF NotingInv, PublishInv
<1>7. \A f \in Events, n \in Nat : Behind(f, n) => Behind(f, n)'
  BY <1>0, <1>1, Constants DEF Behind
<1>8. PushedInv'
  <2>1. SUFFICES ASSUME NEW f \in Events, tries[f] > 0
                 PROVE  Contains(seen, f) \/ Behind(f, SeenKeep - FetchLimit + 1)'
    BY <1>0 DEF PushedInv, Contains
  <2>2. SeenKeep - FetchLimit + 1 \in Nat
    BY Constants
  <2>3. QED BY <1>0, <1>7, <2>1, <2>2 DEF Inv, PushedInv
<1>9. SeededInv'
  <2>1. SUFFICES ASSUME NEW f \in Seeded
                 PROVE  Kept(f) \/ Behind(f, SeenKeep - SeedLimit + 1)'
    BY <1>0 DEF SeededInv, Seeded, Kept
  <2>2. SeenKeep - SeedLimit + 1 \in Nat /\ f \in Events
    BY <1>0, <2>1, Constants, Numbers
  <2>3. QED BY <1>0, <1>7, <2>1, <2>2 DEF Inv, SeededInv
<1>10. PushedOnce' /\ HistoryNotRefired'
  BY <1>0 DEF Inv, PushedOnce, HistoryNotRefired, Seeded
<1>11. QED BY <1>2, <1>3, <1>4, <1>5, <1>6, <1>8, <1>9, <1>10 DEF Inv

\* What every step does that has looked at the head of a fetch.
LEMMA Looked ==
  ASSUME TypeOK, batch # <<>>, seen' = Add(seen, Head(batch)), batch' = Tail(batch)
  PROVE  /\ Head(batch) \in Events /\ Head(batch) \in Nat
         /\ Head(batch) = batch[1] /\ 1 \in 1 .. Len(batch)
         /\ batch' \in Seq(Events) /\ Len(batch') \in Nat /\ Len(batch') = Len(batch) - 1
         /\ \A k \in 1 .. Len(batch') : k + 1 \in 1 .. Len(batch) /\ batch'[k] = batch[k + 1]
         /\ seen' \in Seq(Events) /\ Len(seen') \in Nat /\ Len(seen') \in {Len(seen), Len(seen) + 1}
         /\ \A i \in 1 .. Len(seen) : i \in 1 .. Len(seen') /\ seen'[i] = seen[i]
         /\ \A i \in 1 .. Len(seen') :
              i \in 1 .. Len(seen) \/ (i = Len(seen) + 1 /\ seen'[i] = Head(batch) /\ ~Knows(seen, Head(batch)))
         /\ Knows(seen, Head(batch)) \/ Contains(seen', Head(batch))
         /\ Distinct(seen) => Distinct(seen')
         /\ \A x : Contains(batch', x) => Contains(batch, x)
         /\ \A x : Contains(seen, x) => Contains(seen', x)
         /\ \A f \in Events, n \in Nat : f + n <= arrived /\ Behind(f, n) =>
              \A k \in 1 .. Len(batch') : f + n < batch'[k] + FetchLimit
<1> DEFINE h == Head(batch)
<1>1. seen \in Seq(Events) /\ batch \in Seq(Events) /\ Len(seen) \in Nat
  BY Numbers
<1>2. /\ h \in Events /\ h = batch[1] /\ 1 \in 1 .. Len(batch)
      /\ Tail(batch) \in Seq(Events) /\ Len(Tail(batch)) = Len(batch) - 1 /\ Len(Tail(batch)) \in Nat
      /\ \A k \in 1 .. Len(Tail(batch)) : k + 1 \in 1 .. Len(batch) /\ Tail(batch)[k] = batch[k + 1]
  BY <1>1, HeadTail
<1>3. /\ Add(seen, h) \in Seq(Events) /\ Len(Add(seen, h)) \in {Len(seen), Len(seen) + 1}
      /\ \A i \in 1 .. Len(seen) : i \in 1 .. Len(Add(seen, h)) /\ Add(seen, h)[i] = seen[i]
      /\ \A i \in 1 .. Len(Add(seen, h)) :
           i \in 1 .. Len(seen) \/ (i = Len(seen) + 1 /\ Add(seen, h)[i] = h /\ ~Knows(seen, h))
      /\ Knows(seen, h) \/ Contains(Add(seen, h), h)
      /\ Distinct(seen) => Distinct(Add(seen, h))
  <2>1. h \in Events
    BY <1>2
  <2> HIDE DEF h
  <2>2. QED BY <1>1, <2>1, AddTyped
<1>4. seen' = Add(seen, h)
  OBVIOUS
<1> HIDE DEF h
<1>5. \A x : Contains(batch', x) => Contains(batch, x)
  BY <1>2 DEF Contains
<1>6. \A x : Contains(seen, x) => Contains(seen', x)
  BY <1>3, <1>4 DEF Contains
<1>7. \A f \in Events, n \in Nat : f + n <= arrived /\ Behind(f, n) =>
        \A k \in 1 .. Len(batch') : f + n < batch'[k] + FetchLimit
  BY <1>2 DEF Behind
<1>8. h \in Nat
  BY <1>2, Constants
<1>9. Len(seen') \in Nat
  BY <1>3, <1>4
<1>10. QED BY <1>2, <1>3, <1>4, <1>5, <1>6, <1>7, <1>8, <1>9 DEF h

LEMMA NoteInv ==
  ASSUME Inv, Note
  PROVE  Inv'
<1>0. /\ TypeOK /\ ArrivedInv /\ LengthInv /\ SpreadInv /\ NotingInv /\ SeededInv /\ loop = "noting"
      /\ \A e \in Events : tries[e] = 0
      /\ arrived' = arrived /\ id' = id /\ since' = since /\ tries' = tries
      /\ loop' \in {"noting", "waiting"}
  BY DEF Inv, Note, FreshInv
<1>1. /\ seen \in Seq(Events) /\ Len(seen) \in Nat /\ since \in Nat /\ Len(batch) \in Nat
      /\ \A i \in 1 .. Len(seen) : seen[i] \in Events /\ seen[i] \in Nat
      /\ \A k \in 1 .. Len(batch) : batch[k] \in Events /\ batch[k] \in Nat
      /\ Seeded \subseteq Events /\ Seeded' = Seeded
  BY <1>0, Numbers DEF Seeded
<1>2. /\ FreshInv' /\ PublishInv' /\ PushedInv' /\ PushedOnce' /\ HistoryNotRefired'
  BY <1>0 DEF FreshInv, PublishInv, PushedInv, PushedOnce, HistoryNotRefired
<1>3. CASE batch = <<>> /\ loop' = "waiting" /\ seen' = seen /\ batch' = batch
  <2>1. Len(seen) <= SeenCap /\ Len(batch) = 0
    BY <1>0, <1>1, <1>3, Constants DEF LengthInv
  <2>2. TypeOK' /\ LengthInv' /\ ArrivedInv' /\ SpreadInv' /\ BatchInv' /\ NotingInv'
    BY <1>0, <1>3, <2>1 DEF TypeOK, LengthInv, ArrivedInv, SpreadInv, BatchInv, NotingInv
  <2>3. \A f \in Seeded : Kept(f)
    BY <1>0, <2>1 DEF SeededInv, Contains
  <2>4. SeededInv'
    BY <1>0, <1>1, <1>3, <2>3 DEF SeededInv, Kept
  <2>5. QED BY <1>2, <2>2, <2>4 DEF Inv
<1>4. CASE batch # <<>> /\ seen' = Add(seen, Head(batch)) /\ batch' = Tail(batch) /\ loop' = loop
  <2> DEFINE h == Head(batch)
  <2>1. /\ h \in Events /\ h \in Nat /\ h = batch[1] /\ 1 \in 1 .. Len(batch)
        /\ batch' \in Seq(Events) /\ Len(batch') \in Nat /\ Len(batch') = Len(batch) - 1
        /\ \A k \in 1 .. Len(batch') : k + 1 \in 1 .. Len(batch) /\ batch'[k] = batch[k + 1]
        /\ seen' \in Seq(Events) /\ Len(seen') \in Nat /\ Len(seen') \in {Len(seen), Len(seen) + 1}
        /\ \A i \in 1 .. Len(seen) : i \in 1 .. Len(seen') /\ seen'[i] = seen[i]
        /\ \A i \in 1 .. Len(seen') :
             i \in 1 .. Len(seen) \/ (i = Len(seen) + 1 /\ seen'[i] = h /\ ~Knows(seen, h))
        /\ Knows(seen, h) \/ Contains(seen', h)
        /\ Distinct(seen) => Distinct(seen')
    BY <1>0, <1>4, Looked
  <2> HIDE DEF h
  <2>2. Len(seen') + Len(batch') <= SeedLimit /\ Len(batch') <= SeedLimit /\ Len(seen') <= SeenCap + FetchLimit
    <3>1. Len(seen) + Len(batch) <= SeedLimit
      BY <1>0 DEF LengthInv
    <3>2. QED BY <1>1, <2>1, <3>1, Constants
  <2>3. TypeOK' /\ LengthInv' /\ BatchInv'
    BY <1>0, <1>4, <2>1, <2>2 DEF TypeOK, LengthInv, BatchInv
  <2>4. h <= since /\ since < h + SeedLimit /\ h <= arrived
        /\ (\A i \in 1 .. Len(seen) : seen[i] <= since /\ h < seen[i])
        /\ \A k \in 1 .. Len(batch') : batch'[k] < h
    <3>1. \A k \in 1 .. Len(batch') : 1 < k + 1
      BY <2>1
    <3>2. QED BY <1>0, <2>1, <3>1 DEF NotingInv, ArrivedInv
  <2>5. ArrivedInv'
    BY <1>0, <2>1, <2>4 DEF ArrivedInv
  <2>6. SpreadInv'
    <3>1. \A i, j \in 1 .. Len(seen') : i < j => seen'[i] < seen'[j] + SeedLimit
      <4>1. SUFFICES ASSUME NEW i \in 1 .. Len(seen'), NEW j \in 1 .. Len(seen'), i < j
                     PROVE  seen'[i] < seen'[j] + SeedLimit
        OBVIOUS
      <4>2. i \in 1 .. Len(seen) /\ seen'[i] = seen[i] /\ seen[i] \in Nat
        BY <1>1, <2>1, <4>1
      <4>3. CASE j \in 1 .. Len(seen)
        BY <1>0, <2>1, <4>1, <4>2, <4>3 DEF SpreadInv
      <4>4. CASE seen'[j] = h
        BY <1>1, <2>1, <2>4, <4>2, <4>4, Constants
      <4>5. QED BY <2>1, <4>3, <4>4
    <3>2. \A i \in 1 .. Len(seen') : tries'[seen'[i]] = 0
      <4>1. \A i \in 1 .. Len(seen') : seen'[i] \in Events
        BY <2>1
      <4>2. QED BY <1>0, <4>1
    <3>3. QED BY <1>0, <2>1, <3>1, <3>2 DEF SpreadInv
  <2>7. NotingInv'
    <3>1. \A k \in 1 .. Len(batch') :
            /\ batch'[k] <= since /\ since < batch'[k] + SeedLimit
            /\ \A i \in 1 .. Len(seen) : batch'[k] < seen[i]
            /\ \A l \in 1 .. Len(batch') : k < l => batch'[l] < batch'[k]
      <4>1. \A k, l \in 1 .. Len(batch') : k < l => k + 1 < l + 1
        BY <2>1
      <4>2. QED BY <1>0, <2>1, <4>1 DEF NotingInv
    <3>2. QED BY <1>0, <1>4, <2>1, <2>4, <3>1 DEF NotingInv
  <2>8. SeededInv'
    <3>1. SUFFICES ASSUME NEW f \in Seeded PROVE Kept(f)' \/ Contains(batch', f)
      BY <1>0, <1>1, <1>4 DEF SeededInv
    <3>2. Kept(f) => Kept(f)'
      BY <1>0, <2>1 DEF Kept
    <3>3. CASE Contains(batch, f)
      <4>1. f = h \/ Contains(batch', f)
        <5>1. PICK k \in 1 .. Len(batch) : batch[k] = f
          BY <3>3 DEF Contains
        <5>2. CASE k = 1
          BY <2>1, <5>1, <5>2
        <5>3. CASE k # 1
          <6>1. k - 1 \in 1 .. Len(batch') /\ (k - 1) + 1 = k
            BY <1>1, <2>1, <5>1, <5>3
          <6>2. QED BY <2>1, <5>1, <6>1 DEF Contains
        <5>4. QED BY <5>2, <5>3
      <4>2. CASE f = h /\ Knows(seen, h)
        <5>1. PICK i \in 1 .. Len(seen) : id[seen[i]] = id[h]
          BY <4>2 DEF Knows
        <5>2. h <= seen[i]
          BY <1>1, <2>1, <2>4, <5>1
        <5>3. QED BY <1>0, <2>1, <4>2, <5>1, <5>2 DEF Kept
      <4>3. CASE f = h /\ Contains(seen', h)
        <5>1. PICK i \in 1 .. Len(seen') : seen'[i] = h
          BY <4>3 DEF Contains
        <5>2. h <= h
          BY <2>1
        <5>3. QED BY <1>0, <4>3, <5>1, <5>2 DEF Kept
      <4>4. QED BY <2>1, <4>1, <4>2, <4>3
    <3>4. QED BY <1>0, <3>1, <3>2, <3>3 DEF SeededInv
  <2>9. QED BY <1>2, <2>3, <2>5, <2>6, <2>7, <2>8 DEF Inv
<1>5. QED BY <1>3, <1>4 DEF Note

\* The head of a poll has been looked at: its id is known.
LEMMA SeenInv ==
  ASSUME Inv, loop \in {"scanning", "publishing"}, batch # <<>>,
         seen' = Add(seen, Head(batch)), batch' = Tail(batch), loop' = "scanning",
         UNCHANGED <<arrived, id, since, tries>>
  PROVE  Inv'
<1> DEFINE h == Head(batch)
<1>0. /\ TypeOK /\ ArrivedInv /\ LengthInv /\ SpreadInv /\ BatchInv /\ PublishInv /\ PushedInv /\ SeededInv
      /\ arrived' = arrived /\ id' = id /\ since' = since /\ tries' = tries
  BY DEF Inv
<1>1. /\ seen \in Seq(Events) /\ Len(seen) \in Nat /\ since \in Nat /\ Len(batch) \in Nat /\ arrived \in Nat
      /\ \A i \in 1 .. Len(seen) : seen[i] \in Events /\ seen[i] \in Nat
      /\ \A k \in 1 .. Len(batch) : batch[k] \in Events /\ batch[k] \in Nat
      /\ Seeded \subseteq Events /\ Seeded' = Seeded
  BY <1>0, Numbers DEF Seeded
<1>2. /\ h \in Events /\ h \in Nat /\ h = batch[1] /\ 1 \in 1 .. Len(batch)
      /\ batch' \in Seq(Events) /\ Len(batch') \in Nat /\ Len(batch') = Len(batch) - 1
      /\ \A k \in 1 .. Len(batch') : k + 1 \in 1 .. Len(batch) /\ batch'[k] = batch[k + 1]
      /\ seen' \in Seq(Events) /\ Len(seen') \in Nat /\ Len(seen') \in {Len(seen), Len(seen) + 1}
      /\ \A i \in 1 .. Len(seen) : i \in 1 .. Len(seen') /\ seen'[i] = seen[i]
      /\ \A i \in 1 .. Len(seen') :
           i \in 1 .. Len(seen) \/ (i = Len(seen) + 1 /\ seen'[i] = h /\ ~Knows(seen, h))
      /\ Knows(seen, h) \/ Contains(seen', h)
      /\ Distinct(seen) => Distinct(seen')
      /\ \A x : Contains(seen, x) => Contains(seen', x)
  BY <1>0, Looked
<1>3. \A f \in Events, n \in Nat : Behind(f, n) => Behind(f, n)'
  <2>1. \A f \in Events, n \in Nat : f + n <= arrived /\ Behind(f, n) =>
          \A k \in 1 .. Len(batch') : f + n < batch'[k] + FetchLimit
    BY <1>0, Looked
  <2>2. QED BY <1>0, <2>1 DEF Behind
<1>4. loop = "publishing" => ~Knows(seen, h)
  BY <1>0 DEF PublishInv
<1> HIDE DEF h
<1>5. LengthInv' /\ Len(batch') <= SeedLimit /\ Len(seen') <= SeenCap + FetchLimit
  <2>1. Len(seen) + Len(batch) <= SeenCap + FetchLimit /\ Len(batch) <= FetchLimit
    BY <1>0 DEF LengthInv
  <2>2. Len(seen') + Len(batch') <= SeenCap + FetchLimit /\ Len(batch') <= FetchLimit
        /\ Len(seen') <= SeenCap + FetchLimit /\ Len(batch') <= SeedLimit
    BY <1>1, <1>2, <2>1, Constants
  <2>3. QED BY <2>2 DEF LengthInv
<1>6. TypeOK' /\ FreshInv' /\ NotingInv' /\ PublishInv'
  BY <1>0, <1>2, <1>5 DEF TypeOK, FreshInv, NotingInv, PublishInv
<1>7. PushedOnce' /\ HistoryNotRefired'
  BY <1>0, <1>1 DEF Inv, PushedOnce, HistoryNotRefired
<1>8. ArrivedInv'
  <2>1. h <= arrived
    BY <1>0, <1>2 DEF ArrivedInv
  <2>2. QED BY <1>0, <1>2, <2>1 DEF ArrivedInv
<1>9. (\A e \in Events : tries[e] > 0 => e < h + FetchLimit)
      /\ (\A i \in 1 .. Len(seen) : seen[i] < h + FetchLimit)
      /\ \A k \in 1 .. Len(batch') : h < batch'[k] + FetchLimit
  BY <1>0, <1>2 DEF BatchInv
<1>10. SpreadInv'
  <2>1. SUFFICES ASSUME NEW i \in 1 .. Len(seen'), NEW j \in 1 .. Len(seen'), i < j
                 PROVE  /\ seen'[i] < seen'[j] + SeedLimit
                        /\ tries[seen'[i]] > 0 => seen'[i] < seen'[j] + FetchLimit
    BY <1>0, <1>2 DEF SpreadInv
  <2>2. i \in 1 .. Len(seen) /\ seen'[i] = seen[i] /\ seen[i] \in Events /\ seen[i] \in Nat
    BY <1>1, <1>2, <2>1
  <2>3. CASE j \in 1 .. Len(seen)
    BY <1>0, <1>2, <2>1, <2>2, <2>3 DEF SpreadInv
  <2>4. CASE seen'[j] = h
    BY <1>2, <1>9, <2>2, <2>4, Constants
  <2>5. QED BY <1>2, <2>3, <2>4
<1>11. BatchInv'
  <2>1. \A k \in 1 .. Len(batch') :
          /\ \A e \in Events : tries[e] > 0 => e < batch'[k] + FetchLimit
          /\ \A l \in 1 .. Len(batch') : batch'[l] < batch'[k] + FetchLimit
          /\ \A i \in 1 .. Len(seen) : seen[i] < batch'[k] + FetchLimit
          /\ since < batch'[k] + FetchLimit
    BY <1>0, <1>2 DEF BatchInv
  <2>2. QED BY <1>0, <1>2, <1>9, <2>1 DEF BatchInv
<1>12. PushedInv'
  <2>1. SUFFICES ASSUME NEW f \in Events, tries[f] > 0
                 PROVE  Contains(seen', f) \/ Behind(f, SeenKeep - FetchLimit + 1)'
    BY <1>0 DEF PushedInv
  <2>2. SeenKeep - FetchLimit + 1 \in Nat
    BY Constants
  <2>3. Contains(seen, f) \/ (loop = "publishing" /\ f = h) \/ Behind(f, SeenKeep - FetchLimit + 1)
    BY <1>0, <2>1 DEF PushedInv, h
  <2>4. QED BY <1>2, <1>3, <1>4, <2>2, <2>3
<1>13. SeededInv'
  <2>1. SUFFICES ASSUME NEW f \in Seeded
                 PROVE  Kept(f)' \/ Behind(f, SeenKeep - SeedLimit + 1)'
    BY <1>1 DEF SeededInv
  <2>2. SeenKeep - SeedLimit + 1 \in Nat /\ f \in Events
    BY <1>1, <2>1, Constants
  <2>3. Kept(f) => Kept(f)'
    BY <1>0, <1>2 DEF Kept
  <2>4. QED BY <1>0, <1>3, <2>1, <2>2, <2>3 DEF SeededInv
<1>14. QED BY <1>5, <1>6, <1>7, <1>8, <1>10, <1>11, <1>12, <1>13 DEF Inv

\* What is about to be pushed is new: it is not history, and what the process knows
\* of its id lies far behind.
LEMMA PushFar ==
  ASSUME Inv, Push
  PROVE  /\ Head(batch) \in Events /\ Head(batch) = batch[1] /\ 1 \in 1 .. Len(batch)
         /\ tries[Head(batch)] = 0 /\ Head(batch) <= arrived /\ Head(batch) > since
         /\ \A f \in Events : tries[f] > 0 => f < Head(batch) + FetchLimit
         /\ \A f \in Events : tries[f] > 0 /\ id[f] = id[Head(batch)] => f + PushMemory <= Head(batch)
         /\ \A f \in Seeded : id[f] = id[Head(batch)] => f + SeedMemory <= Head(batch)
<1> DEFINE h == Head(batch)
<1>0. /\ TypeOK /\ ArrivedInv /\ BatchInv /\ PushedInv /\ SeededInv
      /\ loop = "scanning" /\ batch # <<>> /\ ~Knows(seen, h)
  BY DEF Inv, Push
<1>1. h \in Events /\ h \in Nat /\ h = batch[1] /\ 1 \in 1 .. Len(batch)
  BY <1>0, Numbers, HeadTail
<1> HIDE DEF h
<1>2. /\ h <= arrived /\ since < h + FetchLimit
      /\ \A f \in Events : tries[f] > 0 => f < h + FetchLimit
  BY <1>0, <1>1 DEF ArrivedInv, BatchInv
<1>3. \A f \in Events, n \in Nat : Behind(f, n) => f + n < h + FetchLimit
  BY <1>1 DEF Behind
<1>4. PushMemory \in Nat /\ PushMemory > 0 /\ SeedMemory \in Nat /\ SeedMemory > 0
  BY Constants DEF PushMemory, SeedMemory
<1>5. ASSUME NEW f \in Events, tries[f] > 0, id[f] = id[h] PROVE f + PushMemory <= h
  <2>1. ~Contains(seen, f)
    BY <1>0, <1>5 DEF Knows, Contains
  <2>2. Behind(f, SeenKeep - FetchLimit + 1)
    BY <1>0, <1>5, <2>1 DEF PushedInv
  <2>3. SeenKeep - FetchLimit + 1 \in Nat /\ f \in Nat
    BY Constants, <1>5
  <2>4. f + (SeenKeep - FetchLimit + 1) < h + FetchLimit
    BY <1>3, <1>5, <2>2, <2>3
  <2>5. QED BY <1>1, <2>3, <2>4, Constants DEF PushMemory
<1>6. ASSUME NEW f \in Seeded, id[f] = id[h] PROVE f + SeedMemory <= h
  <2>1. ~Kept(f)
    BY <1>0, <1>6 DEF Knows, Kept
  <2>2. Behind(f, SeenKeep - SeedLimit + 1)
    BY <1>0, <1>6, <2>1 DEF SeededInv
  <2>3. f \in Events
    BY <1>0, <1>6, Numbers
  <2>4. SeenKeep - SeedLimit + 1 \in Nat /\ f \in Nat
    BY <2>3, Constants
  <2>5. f + (SeenKeep - SeedLimit + 1) < h + FetchLimit
    BY <1>3, <2>2, <2>3, <2>4
  <2>6. QED BY <1>1, <2>4, <2>5, Constants DEF SeedMemory
<1>7. tries[h] = 0
  <2>1. tries[h] \in Nat
    BY <1>0, <1>1, Numbers
  <2>2. ~(tries[h] > 0)
    BY <1>1, <1>4, <1>5
  <2>3. QED BY <2>1, <2>2
<1>8. h > since
  <2>1. SUFFICES ASSUME h <= since PROVE FALSE
    BY <1>0, <1>1, Numbers
  <2>2. h \in Seeded
    <3>1. since \in Nat /\ since < h + SeedLimit /\ h > 0
      BY <1>0, <1>1, <1>2, Constants, Numbers
    <3>2. QED BY <1>1, <2>1, <3>1 DEF Seeded
  <2>3. h + SeedMemory <= h
    BY <1>6, <2>2
  <2>4. QED BY <1>1, <1>4, <2>3
<1>9. QED BY <1>1, <1>2, <1>5, <1>6, <1>7, <1>8 DEF h

LEMMA PushInv ==
  ASSUME Inv, Push
  PROVE  Inv'
<1> DEFINE h == Head(batch)
<1>0. /\ TypeOK /\ loop = "scanning" /\ loop' = "publishing" /\ batch # <<>>
      /\ ~Knows(seen, h) /\ tries' = [tries EXCEPT ![h] = @ + 1]
      /\ arrived' = arrived /\ id' = id /\ batch' = batch /\ seen' = seen /\ since' = since
      /\ ArrivedInv /\ SpreadInv /\ BatchInv /\ PushedInv /\ SeededInv
  BY DEF Inv, Push
<1>1. /\ h \in Events /\ h = batch[1] /\ 1 \in 1 .. Len(batch)
      /\ tries[h] = 0 /\ h <= arrived /\ h > since
      /\ \A f \in Events : tries[f] > 0 => f < h + FetchLimit
      /\ \A f \in Events : tries[f] > 0 /\ id[f] = id[h] => f + PushMemory <= h
      /\ \A f \in Seeded : id[f] = id[h] => f + SeedMemory <= h
  BY PushFar
<1>2. \A e \in Events : e = h => e = Head(batch)
  OBVIOUS
<1> HIDE DEF h
<1>3. /\ tries \in [Events -> Nat] /\ tries' \in [Events -> Nat] /\ tries'[h] = 1
      /\ \A e \in Events \ {h} : tries'[e] = tries[e]
  BY <1>0, <1>1 DEF TypeOK
<1>4. TypeOK' /\ LengthInv' /\ FreshInv' /\ NotingInv'
  BY <1>0, <1>3 DEF Inv, TypeOK, LengthInv, FreshInv, NotingInv
<1>5. ArrivedInv' /\ BatchInv'
  BY <1>0, <1>1, <1>3 DEF ArrivedInv, BatchInv
<1>6. SpreadInv'
  <2>1. \A i \in 1 .. Len(seen) : seen[i] \in Events /\ seen[i] # h
    BY <1>0, Numbers DEF Knows
  <2>2. QED BY <1>0, <1>3, <2>1 DEF SpreadInv
<1>7. PublishInv'
  BY <1>0, <1>2 DEF PublishInv, Knows, h
<1>8. PushedInv'
  BY <1>0, <1>2, <1>3 DEF PushedInv, Behind
<1>9. SeededInv'
  BY <1>0 DEF SeededInv, Seeded, Kept, Behind
<1>10. PushedOnce'
  <2>1. \A e \in Events : tries'[e] <= 1
    BY <1>3 DEF Inv, PushedOnce
  <2>2. ASSUME NEW e \in Events, NEW f \in Events, tries'[e] > 0, tries'[f] > 0, id[e] = id[f], e < f
        PROVE  e + PushMemory <= f
    <3>1. CASE e # h /\ f # h
      BY <1>3, <2>2, <3>1 DEF Inv, PushedOnce
    <3>2. CASE f = h
      <4>1. e # h /\ e \in Nat
        BY <2>2, <3>2, Constants
      <4>2. QED BY <1>1, <1>3, <2>2, <3>2, <4>1
    <3>3. CASE e = h /\ f # h
      <4>1. f + PushMemory <= h /\ f \in Nat /\ h \in Nat /\ PushMemory \in Nat
        BY <1>1, <1>3, <2>2, <3>3, Constants DEF PushMemory
      <4>2. QED BY <2>2, <3>3, <4>1
    <3>4. QED BY <3>1, <3>2, <3>3
  <2>3. QED BY <1>0, <2>1, <2>2 DEF PushedOnce
<1>11. HistoryNotRefired'
  <2>1. Seeded' = Seeded
    BY <1>0 DEF Seeded
  <2>2. QED BY <1>0, <1>1, <1>3, <2>1 DEF Inv, HistoryNotRefired
<1>12. QED BY <1>4, <1>5, <1>6, <1>7, <1>8, <1>9, <1>10, <1>11 DEF Inv

\* An entry that a trim drops, and behind which none is older by m or more, lies far
\* behind the log.
LEMMA Dropped ==
  ASSUME Inv, NEW i \in 1 .. Len(seen), NEW m \in Nat \ {0}, i + SeenKeep <= Len(seen),
         \A j \in i .. Len(seen) : seen[i] < seen[j] + m
  PROVE  seen[i] + (SeenKeep - m + 1) <= arrived
<1>1. /\ seen \in Seq(Events) /\ Len(seen) \in Nat /\ arrived \in Nat /\ Distinct(seen)
      /\ \A j \in 1 .. Len(seen) : seen[j] \in Nat /\ seen[j] <= arrived
  BY Numbers DEF Inv, ArrivedInv, SpreadInv
<1> DEFINE n == arrived - seen[i] + 1
<1>2. n \in Nat \ {0}
  BY <1>1
<1>3. \A j \in i .. Len(seen) : seen[i] < seen[j] + m /\ seen[j] < seen[i] + n
  <2>1. \A j \in i .. Len(seen) : j \in 1 .. Len(seen)
    BY <1>1
  <2>2. QED BY <1>1, <2>1
<1> HIDE DEF n
<1>4. Len(seen) - i + 1 <= m + n - 1
  BY <1>1, <1>2, <1>3, Crowd
<1>5. i \in Nat /\ seen[i] \in Nat
  BY <1>1
<1>6. QED BY <1>1, <1>4, <1>5, Constants DEF n

LEMMA EndTickInv ==
  ASSUME Inv, EndTick
  PROVE  Inv'
<1>0. /\ TypeOK /\ loop = "scanning" /\ loop' = "waiting" /\ batch = <<>> /\ seen' = Trim(seen)
      /\ arrived' = arrived /\ id' = id /\ batch' = batch /\ since' = since /\ tries' = tries
      /\ ArrivedInv /\ SpreadInv /\ PushedInv /\ SeededInv
  BY DEF Inv, EndTick
<1>1. /\ seen \in Seq(Events) /\ Len(seen) \in Nat /\ Seeded \subseteq Events /\ Seeded' = Seeded
      /\ Len(batch) = 0 /\ arrived \in Nat
      /\ \A i \in 1 .. Len(seen) : seen[i] \in Events /\ seen[i] \in Nat
      /\ \A e \in Events : e \in Nat
  BY <1>0, Numbers DEF Seeded
<1>2. seen' \in Seq(Events) /\ Len(seen') \in Nat /\ Len(seen') <= SeenCap
  BY <1>0, <1>1, TrimTyped
<1>3. PICK d \in 0 .. Len(seen) :
        /\ Len(seen') = Len(seen) - d
        /\ \A i \in 1 .. Len(seen') : seen'[i] = seen[i + d]
        /\ d = 0 \/ Len(seen) - d = SeenKeep
  BY <1>0, <1>1, TrimTyped
<1>4. \A i \in 1 .. Len(seen') : i + d \in 1 .. Len(seen)
  BY <1>1, <1>3
<1>5. \A i \in 1 .. Len(seen) : i + SeenKeep <= Len(seen) \/ (i - d \in 1 .. Len(seen') /\ seen'[i - d] = seen[i])
  <2>1. TAKE i \in 1 .. Len(seen)
  <2>2. CASE i <= d
    BY <1>1, <1>3, <2>2, Constants
  <2>3. CASE i > d
    <3>1. i - d \in 1 .. Len(seen') /\ (i - d) + d = i
      BY <1>1, <1>3, <2>3
    <3>2. QED BY <1>3, <3>1
  <2>4. QED BY <2>2, <2>3
<1>6. TypeOK' /\ LengthInv' /\ FreshInv' /\ BatchInv' /\ NotingInv' /\ PublishInv'
  <2>1. Len(seen') <= SeenCap + FetchLimit
    BY <1>2, Constants
  <2>2. QED
    BY <1>0, <1>1, <1>2, <2>1 DEF TypeOK, LengthInv, FreshInv, BatchInv, NotingInv, PublishInv
<1>7. PushedOnce' /\ HistoryNotRefired'
  BY <1>0, <1>1 DEF Inv, PushedOnce, HistoryNotRefired
<1>8. ArrivedInv'
  BY <1>0, <1>3, <1>4 DEF ArrivedInv
<1>9. SpreadInv'
  <2>1. \A i, j \in 1 .. Len(seen') : i < j => i + d < j + d
    BY <1>3
  <2>2. \A i, j \in 1 .. Len(seen') : i + d = j + d => i = j
    BY <1>3
  <2>3. Distinct(seen')
    BY <1>0, <1>3, <1>4, <2>2 DEF SpreadInv, Distinct
  <2>4. \A i, j \in 1 .. Len(seen') :
          i < j => /\ seen'[i] < seen'[j] + SeedLimit
                   /\ tries[seen'[i]] > 0 => seen'[i] < seen'[j] + FetchLimit
    BY <1>0, <1>3, <1>4, <2>1 DEF SpreadInv
  <2>5. QED BY <1>0, <2>3, <2>4 DEF SpreadInv
<1>10. \A i \in 1 .. Len(seen) :
         /\ \A j \in i .. Len(seen) : seen[i] < seen[j] + SeedLimit
         /\ tries[seen[i]] > 0 => \A j \in i .. Len(seen) : seen[i] < seen[j] + FetchLimit
  <2>1. TAKE i \in 1 .. Len(seen)
  <2>2. \A j \in i .. Len(seen) : j \in 1 .. Len(seen) /\ (i = j \/ i < j)
    BY <1>1
  <2>3. seen[i] < seen[i] + SeedLimit /\ seen[i] < seen[i] + FetchLimit
    BY <1>1, Constants
  <2>4. QED BY <1>0, <2>2, <2>3 DEF SpreadInv
<1>11. PushedInv'
  <2>1. SUFFICES ASSUME NEW f \in Events, tries[f] > 0
                 PROVE  Contains(seen', f) \/ Behind(f, SeenKeep - FetchLimit + 1)'
    BY <1>0 DEF PushedInv
  <2>2. CASE Contains(seen, f)
    <3>1. PICK i \in 1 .. Len(seen) : seen[i] = f
      BY <2>2 DEF Contains
    <3>2. CASE i + SeenKeep <= Len(seen)
      <4>1. \A j \in i .. Len(seen) : seen[i] < seen[j] + FetchLimit
        BY <1>10, <2>1, <3>1
      <4>2. FetchLimit \in Nat \ {0}
        BY Constants
      <4>3. seen[i] + (SeenKeep - FetchLimit + 1) <= arrived
        BY <3>1, <3>2, <4>1, <4>2, Dropped
      <4>4. QED BY <1>0, <1>1, <3>1, <4>3 DEF Behind
    <3>3. CASE i - d \in 1 .. Len(seen') /\ seen'[i - d] = seen[i]
      BY <3>1, <3>3 DEF Contains
    <3>4. QED BY <1>5, <3>2, <3>3
  <2>3. CASE Behind(f, SeenKeep - FetchLimit + 1)
    BY <1>0, <2>3 DEF Behind
  <2>4. QED BY <1>0, <2>1, <2>2, <2>3 DEF PushedInv
<1>12. SeededInv'
  <2>1. SUFFICES ASSUME NEW f \in Seeded
                 PROVE  Kept(f)' \/ Behind(f, SeenKeep - SeedLimit + 1)'
    BY <1>0, <1>1 DEF SeededInv
  <2>2. CASE Kept(f)
    <3>1. PICK i \in 1 .. Len(seen) : id[seen[i]] = id[f] /\ f <= seen[i]
      BY <2>2 DEF Kept
    <3>2. CASE i + SeenKeep <= Len(seen)
      <4>1. \A j \in i .. Len(seen) : seen[i] < seen[j] + SeedLimit
        BY <1>10, <3>1
      <4>2. SeedLimit \in Nat \ {0}
        BY Constants
      <4>3. seen[i] + (SeenKeep - SeedLimit + 1) <= arrived
        BY <3>1, <3>2, <4>1, <4>2, Dropped
      <4>4. f \in Nat /\ seen[i] \in Nat
        BY <1>1, <2>1, <3>1
      <4>5. f + (SeenKeep - SeedLimit + 1) <= arrived
        BY <1>1, <3>1, <4>3, <4>4, Constants
      <4>6. QED BY <1>0, <1>1, <4>5 DEF Behind
    <3>3. CASE i - d \in 1 .. Len(seen') /\ seen'[i - d] = seen[i]
      BY <1>0, <3>1, <3>3 DEF Kept
    <3>4. QED BY <1>5, <3>2, <3>3
  <2>3. CASE Behind(f, SeenKeep - SeedLimit + 1)
    BY <1>0, <2>3 DEF Behind
  <2>4. QED BY <1>0, <2>1, <2>2, <2>3 DEF SeededInv
<1>13. QED BY <1>6, <1>7, <1>8, <1>9, <1>11, <1>12 DEF Inv

LEMMA NextInv == Inv /\ [Next]_vars => Inv'
<1> SUFFICES ASSUME Inv, [Next]_vars PROVE Inv'
  OBVIOUS
<1>1. CASE UNCHANGED vars
  <2>1. /\ arrived' = arrived /\ id' = id /\ loop' = loop /\ batch' = batch /\ seen' = seen
        /\ since' = since /\ tries' = tries
    BY <1>1 DEF vars
  <2>2. /\ TypeOK' /\ LengthInv' /\ FreshInv' /\ ArrivedInv' /\ SpreadInv' /\ BatchInv' /\ NotingInv'
        /\ PushedOnce'
    BY <2>1
    DEF Inv, TypeOK, LengthInv, FreshInv, ArrivedInv, SpreadInv, BatchInv, NotingInv, PushedOnce
  <2>3. PublishInv' /\ PushedInv' /\ SeededInv' /\ HistoryNotRefired'
    BY <2>1
    DEF Inv, PublishInv, PushedInv, SeededInv, HistoryNotRefired, Knows, Behind, Kept, Seeded
  <2>4. QED BY <2>2, <2>3 DEF Inv
<1>2. CASE Skip
  BY <1>2, SeenInv DEF Skip
<1>3. CASE Pushed
  <2>1. batch # <<>>
    BY <1>3 DEF Pushed, Inv, PublishInv
  <2>2. QED BY <1>3, <2>1, SeenInv DEF Pushed
<1>4. QED
  BY <1>1, <1>2, <1>3, ArriveInv, RestartInv, StartInv, SeedInv, NoteInv, PollInv, PushInv, EndTickInv
  DEF Next, Loop

LEMMA SpecInv == Spec => []Inv
  BY InitInv, NextInv, PTL DEF Spec

-----------------------------------------------------------------------------
(* The theorems *)

\* The types are right; the seen-set never grows beyond a window over its cap, and is
\* within its cap between two ticks.
THEOREM TypeCorrect == Spec => []TypeOK
<1>1. Inv => TypeOK
  BY DEF Inv
<1>2. QED BY <1>1, SpecInv, PTL

\* One process never pushes an entry twice, and no replay of an id it has pushed less
\* than PushMemory entries ago, whatever the trims drop.
THEOREM NothingTwice == Spec => []PushedOnce
<1>1. Inv => PushedOnce
  BY DEF Inv
<1>2. QED BY <1>1, SpecInv, PTL

\* A process whose seeding succeeded pushes nothing from before it, and no replay of an
\* id it read then, less than SeedMemory entries ago.
THEOREM HistoryStays == Spec => []HistoryNotRefired
<1>1. Inv => HistoryNotRefired
  BY DEF Inv
<1>2. QED BY <1>1, SpecInv, PTL

-----------------------------------------------------------------------------
(* The contract *)

LEMMA InitSimulates == Init => Promise!Init
  BY DEF Init, Promise!Init, Promise!Nothing

\* A push of the bridge is a push of the contract.
LEMMA PushSimulates ==
  ASSUME Inv, Push
  PROVE  \E e \in Events : Promise!Push(e)
<1> DEFINE h == Head(batch)
<1>1. /\ TypeOK /\ id[h] \in Relayed /\ tries' = [tries EXCEPT ![h] = @ + 1]
      /\ arrived' = arrived /\ id' = id /\ since' = since
  BY DEF Inv, Push
<1>2. /\ h \in Events /\ tries[h] = 0 /\ h <= arrived /\ h > since
      /\ \A f \in Events : tries[f] > 0 => f < h + FetchLimit
      /\ \A f \in Events : tries[f] > 0 /\ id[f] = id[h] => f + PushMemory <= h
      /\ \A f \in Seeded : id[f] = id[h] => f + SeedMemory <= h
  BY PushFar
<1> HIDE DEF h
<1>3. tries' = [tries EXCEPT ![h] = 1]
  BY <1>1, <1>2 DEF TypeOK
<1>4. \A f \in Events : f + PushMemory <= h => f + SeedMemory <= h
  <2>1. PushMemory \in Nat /\ SeedMemory \in Nat /\ SeedMemory <= PushMemory
    BY Constants DEF PushMemory, SeedMemory
  <2>2. h \in Nat /\ \A f \in Events : f \in Nat
    BY <1>2, Constants
  <2>3. QED BY <2>1, <2>2
<1>5. \A f \in Events : f <= since /\ since < f + SeedLimit => f \in Seeded
  BY <1>1, Numbers, Constants DEF Seeded, Events
<1>6. \A f \in Events : id[f] = id[h] /\ Promise!Remembered(f) => f + SeedMemory <= h
  BY <1>2, <1>4, <1>5 DEF Promise!Remembered
<1>7. QED BY <1>1, <1>2, <1>3, <1>6 DEF Promise!Push

LEMMA StepSimulates ==
  ASSUME Inv, [Next]_vars
  PROVE  [Promise!Next]_(Promise!contractVars)
<1>0. TypeOK /\ ArrivedInv
  BY DEF Inv
<1>1. CASE Arrive \/ Replay
  <2>1. arrived' = arrived + 1 /\ arrived' \in Events /\ UNCHANGED <<since, tries>>
    BY <1>0, <1>1, ArriveIds
  <2>2. UNCHANGED id \/ \E e \in 1 .. arrived : id' = [id EXCEPT ![arrived'] = id[e]]
    BY <1>1, <2>1 DEF Arrive, Replay
  <2>3. QED BY <2>1, <2>2 DEF Promise!Next, Promise!Arrive
<1>2. CASE Seed
  <2>1. /\ since = 0 /\ arrived' = arrived /\ id' = id /\ tries' = tries /\ since' \in {since, arrived}
        /\ \A e \in Events : tries[e] = 0
    BY <1>2 DEF Seed, Inv, FreshInv
  <2>2. tries = [e \in Events |-> 0]
    BY <1>0, <2>1 DEF TypeOK
  <2>3. CASE since' = arrived
    BY <2>1, <2>2, <2>3 DEF Promise!Next, Promise!Baseline, Promise!Nothing
  <2>4. CASE since' = since
    BY <2>1, <2>4 DEF Promise!contractVars
  <2>5. QED BY <2>1, <2>3, <2>4
<1>3. CASE Push
  BY <1>3, PushSimulates DEF Promise!Next
<1>4. CASE Restart
  BY <1>4 DEF Restart, Promise!Next, Promise!Forget, Promise!Nothing
<1>5. CASE Start \/ Note \/ Poll \/ Skip \/ Pushed \/ EndTick \/ UNCHANGED vars
  BY <1>5 DEF Start, Note, Poll, Skip, Pushed, EndTick, vars, Promise!contractVars
<1>6. QED BY <1>1, <1>2, <1>3, <1>4, <1>5 DEF Next, Loop

\* The bridge with its trimmed seen-set implements a relay that looks its own history
\* up: replays within SeedMemory entries are collapsed, and pushes are less than a window
\* out of order.
THEOREM Refinement == Spec => RelayHolds
<1>1. QED BY SpecInv, InitSimulates, StepSimulates, PTL DEF Spec, RelayHolds, Promise!Contract

-----------------------------------------------------------------------------
(* How a tick goes on *)

\* An id becomes known, and an entry leaves a poll, only when the id has just been pushed;
\* apart from the seeding, from what was known already, and from a restart.
OnlyPushedIsDone ==
  [][\A e \in Events :
       LET now == loop = "publishing" /\ id[Head(batch)] = id[e]
       IN  id[e] \in Relayed /\ loop # "noting" =>
             /\ Knows(seen', e) => Knows(seen, e) \/ now
             /\ Contains(batch, e) /\ ~Contains(batch', e) =>
                  Knows(seen, e) \/ now \/ loop' = "stopped"]_vars

\* No event is dropped unpushed, whatever a publish answers and whatever the trims do:
\* what WindowIsRelayed rests on.
THEOREM NothingDropped == Spec => OnlyPushedIsDone
<1>1. ASSUME Inv, [Next]_vars
      PROVE  [\A e \in Events :
                LET now == loop = "publishing" /\ id[Head(batch)] = id[e]
                IN  id[e] \in Relayed /\ loop # "noting" =>
                      /\ Knows(seen', e) => Knows(seen, e) \/ now
                      /\ Contains(batch, e) /\ ~Contains(batch', e) =>
                           Knows(seen, e) \/ now \/ loop' = "stopped"]_vars
  <2> DEFINE now(e) == loop = "publishing" /\ id[Head(batch)] = id[e]
  <2>1. SUFFICES ASSUME Next, NEW e \in Events, id[e] \in Relayed, loop # "noting"
                 PROVE  /\ Knows(seen', e) => Knows(seen, e) \/ now(e)
                        /\ Contains(batch, e) /\ ~Contains(batch', e) =>
                             Knows(seen, e) \/ now(e) \/ loop' = "stopped"
    BY <1>1
  <2>2. TypeOK /\ seen \in Seq(Events) /\ batch \in Seq(Events)
    BY <1>1 DEF Inv, TypeOK
  <2>3. CASE Skip \/ Pushed
    <3> DEFINE h == Head(batch)
    <3>1. batch # <<>> /\ seen' = Add(seen, h) /\ batch' = Tail(batch)
      BY <1>1, <2>3 DEF Skip, Pushed, Inv, PublishInv
    <3>2. /\ h \in Events /\ h = batch[1] /\ 1 \in 1 .. Len(batch) /\ Len(batch) \in Nat
          /\ Len(batch') = Len(batch) - 1
          /\ \A k \in 1 .. Len(batch') : batch'[k] = batch[k + 1]
          /\ \A i \in 1 .. Len(seen) : seen'[i] = seen[i]
          /\ \A i \in 1 .. Len(seen') :
               i \in 1 .. Len(seen) \/ (i = Len(seen) + 1 /\ seen'[i] = h /\ ~Knows(seen, h))
      BY <2>2, <3>1, Looked, HeadTail
    <3> HIDE DEF h
    <3>3. id[h] = id[e] => Knows(seen, e) \/ now(e)
      <4>1. CASE Skip
        BY <2>1, <4>1 DEF Skip, Knows, h
      <4>2. CASE Pushed
        BY <4>2 DEF Pushed, h
      <4>3. QED BY <2>3, <4>1, <4>2
    <3>4. ASSUME Knows(seen', e) PROVE Knows(seen, e) \/ now(e)
      <4>1. PICK i \in 1 .. Len(seen') : id[seen'[i]] = id[e]
        BY <3>4 DEF Knows
      <4>2. CASE i \in 1 .. Len(seen)
        BY <3>2, <4>1, <4>2 DEF Knows
      <4>3. CASE seen'[i] = h
        BY <3>3, <4>1, <4>3
      <4>4. QED BY <3>2, <4>2, <4>3
    <3>5. ASSUME Contains(batch, e), ~Contains(batch', e) PROVE Knows(seen, e) \/ now(e)
      <4>1. PICK k \in 1 .. Len(batch) : batch[k] = e
        BY <3>5 DEF Contains
      <4>2. CASE k = 1
        BY <3>2, <3>3, <4>1, <4>2
      <4>3. CASE k # 1
        <5>1. k - 1 \in 1 .. Len(batch') /\ (k - 1) + 1 = k
          BY <3>2, <4>1, <4>3
        <5>2. QED BY <3>2, <3>5, <4>1, <5>1 DEF Contains
      <4>4. QED BY <4>2, <4>3
    <3>6. QED BY <3>4, <3>5
  <2>4. CASE EndTick
    <3>1. batch' = batch /\ seen' = Trim(seen)
      BY <2>4 DEF EndTick
    <3>2. PICK d \in 0 .. Len(seen) :
            /\ Len(seen') = Len(seen) - d
            /\ \A i \in 1 .. Len(seen') : seen'[i] = seen[i + d]
      BY <2>2, <3>1, TrimTyped
    <3>3. \A i \in 1 .. Len(seen') : i + d \in 1 .. Len(seen)
      BY <2>2, <3>2
    <3>4. Knows(seen', e) => Knows(seen, e)
      BY <3>2, <3>3 DEF Knows
    <3>5. QED BY <3>1, <3>4
  <2>5. CASE Poll \/ Seed
    <3>1. batch = <<>> /\ seen' = seen
      BY <1>1, <2>5 DEF Poll, Seed, Inv, LengthInv
    <3>2. ~Contains(batch, e)
      BY <3>1 DEF Contains
    <3>3. QED BY <3>1, <3>2
  <2>6. CASE Restart
    <3>1. loop' = "stopped" /\ seen' = <<>>
      BY <2>6 DEF Restart
    <3>2. ~Knows(seen', e)
      BY <3>1 DEF Knows
    <3>3. QED BY <3>1, <3>2
  <2>7. CASE Arrive \/ Replay \/ Start \/ Push
    BY <2>7 DEF Arrive, Replay, Start, Push
  <2>8. QED BY <2>1, <2>3, <2>4, <2>5, <2>6, <2>7 DEF Next, Loop, Note
<1>2. QED BY <1>1, SpecInv, PTL DEF Spec, OnlyPushedIsDone

\* Steps of the loop until it waits for its timer.
Rank == CASE loop = "stopped"    -> SeedLimit + 3
          [] loop = "seeding"    -> SeedLimit + 2
          [] loop = "noting"     -> Len(batch) + 1
          [] loop = "scanning"   -> 2 * Len(batch) + 1
          [] loop = "publishing" -> 2 * Len(batch)
          [] OTHER               -> 0

\* Every step of the loop that is not waiting brings it nearer to its timer, and a new
\* entry does not keep it from that.
TickEnds ==
  [][/\ Rank \in 0 .. (2 * FetchLimit + SeedLimit + 3) /\ (Rank = 0 => loop = "waiting")
     /\ loop \in {"scanning", "publishing"} => Rank <= 2 * FetchLimit + 1
     /\ loop # "waiting" /\ Loop => Rank' < Rank
     /\ Arrive \/ Replay => Rank' = Rank]_vars

\* A tick is over after two steps per entry it has read, and one, however the publishes
\* end and whatever arrives meanwhile; so is the seeding, after one per entry: what
\* LoopGoesOn rests on.
THEOREM TicksEnd == Spec => TickEnds
<1>1. ASSUME Inv, [Next]_vars
      PROVE  [/\ Rank \in 0 .. (2 * FetchLimit + SeedLimit + 3) /\ (Rank = 0 => loop = "waiting")
              /\ loop \in {"scanning", "publishing"} => Rank <= 2 * FetchLimit + 1
              /\ loop # "waiting" /\ Loop => Rank' < Rank
              /\ Arrive \/ Replay => Rank' = Rank]_vars
  <2>1. /\ batch \in Seq(Events) /\ Len(batch) \in Nat /\ Len(batch) <= SeedLimit
        /\ loop \in {"stopped", "seeding", "noting", "waiting", "scanning", "publishing"}
        /\ loop \in {"scanning", "publishing"} => Len(batch) <= FetchLimit
        /\ loop = "publishing" => batch # <<>>
        /\ FetchLimit \in Nat /\ FetchLimit > 0 /\ SeedLimit \in Nat
    BY <1>1, Constants DEF Inv, TypeOK, LengthInv, PublishInv
  <2>2. batch # <<>> => Len(batch) > 0 /\ Len(Tail(batch)) = Len(batch) - 1
    BY <2>1, HeadTail
  <2>3. Rank \in 0 .. (2 * FetchLimit + SeedLimit + 3) /\ (Rank = 0 => loop = "waiting")
        /\ (loop \in {"scanning", "publishing"} => Rank <= 2 * FetchLimit + 1)
    BY <2>1, <2>2 DEF Rank
  <2>4. ASSUME Loop, loop # "waiting" PROVE Rank' < Rank
    <3>1. CASE Start \/ EndTick
      BY <2>1, <3>1 DEF Start, EndTick, Rank
    <3>2. CASE Seed
      <4>1. Len(batch') \in Nat /\ Len(batch') <= SeedLimit
        <5>1. TypeOK'
          BY <1>1, <3>2, SeedInv DEF Inv
        <5>2. QED BY <5>1 DEF TypeOK
      <4>2. loop = "seeding" /\ loop' = "noting"
        BY <3>2 DEF Seed
      <4>3. Rank = SeedLimit + 2 /\ Rank' = Len(batch') + 1
        BY <4>2 DEF Rank
      <4>4. QED BY <2>1, <4>1, <4>3
    <3>3. CASE Note
      BY <2>1, <2>2, <3>3 DEF Note, Rank
    <3>4. CASE Skip
      BY <2>1, <2>2, <3>4 DEF Skip, Rank
    <3>5. CASE Push
      BY <2>1, <3>5 DEF Push, Rank
    <3>6. CASE Pushed
      BY <2>1, <2>2, <3>6 DEF Pushed, Rank
    <3>7. QED BY <2>4, <3>1, <3>2, <3>3, <3>4, <3>5, <3>6 DEF Loop, Poll
  <2>5. Arrive \/ Replay => Rank' = Rank
    BY DEF Arrive, Replay, Rank
  <2>6. QED BY <2>3, <2>4, <2>5
<1>2. QED BY <1>1, SpecInv, PTL DEF Spec, TickEnds
=============================================================================
