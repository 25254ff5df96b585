---------------------------- MODULE DomainAppProofs ----------------------------
(***************************************************************************)
(* Theorems about DomainApp, for any agents, any number of requests that   *)
(* meet, and any number of failures.                                       *)
(***************************************************************************)
EXTENDS DomainApp, TLAPS

ReqType == [at : Stages, app : {"none", "online", "offline"}, saw : SUBSET Functions,
            then : {"free", "look"}, solo : BOOLEAN]

\* Nobody is about to make the dev server know an app that has no row.
Recorded ==
  \A r \in Requests :
    req[r].at \in {"gate", "build", "sync"} \/ req[r].app # "none" => app # "none"

TInv == TypeOK /\ Recorded

\* The deployed agents, and the sentinel, are functions.
LEMMA CollectTyped == TypeOK => Collect \subseteq Functions
  BY DEF TypeOK, Collect, Functions

\* What becomes of a request.
LEMMA RequestsTyped ==
  ASSUME TypeOK, NEW r \in Requests
  PROVE  /\ Free \in ReqType
         /\ \A s \in Stages : [req[r] EXCEPT !.at = s] \in ReqType
         /\ \A s \in Stages : [req[r] EXCEPT !.at = s, !.solo = FALSE] \in ReqType
         /\ \A s \in Stages, f \in SUBSET Functions :
              [req[r] EXCEPT !.saw = f, !.at = s] \in ReqType
<1>1. req[r] \in ReqType
  BY DEF TypeOK, ReqType
<1>2. Free \in ReqType
  BY DEF Free, ReqType, Stages, Functions
<1>3. QED BY <1>1, <1>2 DEF ReqType

\* The steps the requests are made of keep them well typed.
LEMMA ArriveTyped ==
  ASSUME TypeOK, NEW r \in Requests, NEW stage \in Stages, NEW then \in {"free", "look"},
         Arrive(r, stage, then)
  PROVE  req' \in [Requests -> ReqType] /\ orderly' \in BOOLEAN
<1>1. \A q \in Requests : [req[q] EXCEPT !.solo = FALSE] \in ReqType
  BY DEF TypeOK, ReqType
<1>2. [Free EXCEPT !.at = stage, !.then = then, !.solo = (Busy = {})] \in ReqType
  BY DEF Free, ReqType, Functions
<1>3. QED BY <1>1, <1>2 DEF Arrive, TypeOK

LEMMA GotoTyped ==
  ASSUME TypeOK, NEW r \in Requests, NEW stage \in Stages, Goto(r, stage)
  PROVE  req' \in [Requests -> ReqType]
<1>1. req \in [Requests -> ReqType]
  BY DEF TypeOK, ReqType
<1>2. QED BY <1>1, RequestsTyped DEF Goto

LEMMA FailToTyped ==
  ASSUME TypeOK, NEW r \in Requests, NEW stage \in Stages, FailTo(r, stage)
  PROVE  TypeOK'
<1>1. req \in [Requests -> ReqType]
  BY DEF TypeOK, ReqType
<1>2. req' \in [Requests -> ReqType]
  BY <1>1, RequestsTyped DEF FailTo
<1>3. faults' \in 0 .. MaxFaults
  BY DomainAssumption DEF FailTo, Fault, TypeOK
<1>4. orderly' = FALSE /\ UNCHANGED <<kind, deployed, app, known, listed>>
  BY DEF FailTo, rows, devServer
<1>5. QED BY <1>2, <1>3, <1>4 DEF TypeOK, ReqType

\* Every step of a request keeps the types.
LEMMA StepTypeOK ==
  ASSUME TInv, NEW r \in Requests,
         \/ Change(r) \/ Register(r) \/ Offline(r) \/ Ship(r) \/ Teardown(r)
         \/ RegisterApp(r) \/ OfflineApp(r) \/ Resync(r)
         \/ Serve(r) \/ Build(r) \/ Sync(r) \/ DeleteApp(r)
  PROVE  TypeOK'
<1> USE DEF rows, devServer, Quiet
<1>a. TypeOK
  BY DEF TInv
<1>t. /\ req \in [Requests -> ReqType]
      /\ {"free", "flip", "mark", "look", "recollect", "markEmpty", "collect", "record",
          "switchOff", "gate", "build", "sync", "delete"} \subseteq Stages
      /\ req[r].then \in {"free", "look"}
  BY <1>a DEF TypeOK, ReqType, Stages
<1>1. CASE Change(r)
  <2>1. PICK a \in Agents : deployed' \in {deployed \cup {a}, deployed \ {a}}
    BY <1>a, <1>1 DEF Change
  <2>2. Arrive(r, "look", "free")
    BY <1>a, <1>1 DEF Change
  <2>3. req' \in [Requests -> ReqType] /\ orderly' \in BOOLEAN
    BY <1>a, <1>t, <2>2, ArriveTyped
  <2>4. deployed' \subseteq Agents
    BY <1>a, <2>1 DEF TypeOK
  <2>5. UNCHANGED <<kind, app, known, listed, faults>>
    BY <1>a, <1>1, <2>2 DEF Change, Arrive
  <2>6. QED BY <1>a, <2>3, <2>4, <2>5 DEF TypeOK, ReqType
<1>2. CASE Register(r)
  <2>1. req' \in [Requests -> ReqType] /\ orderly' \in BOOLEAN
    BY <1>a, <1>2, <1>t, ArriveTyped DEF Register
  <2>2. QED BY <1>a, <1>2, <2>1 DEF Register, Arrive, TypeOK, ReqType
<1>3. CASE Offline(r)
  <2>1. req' \in [Requests -> ReqType] /\ orderly' \in BOOLEAN
    BY <1>a, <1>3, <1>t, ArriveTyped DEF Offline
  <2>2. QED BY <1>a, <1>3, <2>1 DEF Offline, Arrive, TypeOK, ReqType
<1>4. CASE Ship(r)
  <2>1. CASE Arrive(r, "flip", "look") /\ deployed' \in {{}, deployed} /\ UNCHANGED <<kind, app>>
    <3>1. req' \in [Requests -> ReqType] /\ orderly' \in BOOLEAN
      BY <1>a, <2>1, <1>t, ArriveTyped
    <3>2. QED BY <1>a, <2>1, <3>1 DEF Arrive, TypeOK, ReqType
  <2>2. ASSUME NEW shipped \in SUBSET Agents, deployed' = deployed \cup shipped,
               Goto(r, "collect"), Quiet, UNCHANGED <<kind, app, devServer>>
        PROVE  TypeOK'
    <3>1. req' \in [Requests -> ReqType]
      BY <1>a, <2>2, <1>t, GotoTyped
    <3>2. QED BY <1>a, <2>2, <3>1 DEF TypeOK, ReqType
  <2>3. CASE FailTo(r, "free")
    BY <1>a, <2>3, <1>t, FailToTyped
  <2>4. QED BY <1>a, <1>4, <2>1, <2>2, <2>3 DEF Ship
<1>5. CASE Teardown(r)
  <2>1. CASE Arrive(r, "mark", "free") /\ deployed' = {} /\ UNCHANGED <<kind, app>>
    <3>1. req' \in [Requests -> ReqType] /\ orderly' \in BOOLEAN
      BY <1>a, <2>1, <1>t, ArriveTyped
    <3>2. QED BY <1>a, <2>1, <3>1 DEF Arrive, TypeOK, ReqType
  <2>2. CASE app' = (IF app = "none" THEN "none" ELSE "offline") /\ Goto(r, "look")
             /\ Quiet /\ UNCHANGED <<kind, deployed, devServer>>
    <3>1. req' \in [Requests -> ReqType]
      BY <1>a, <2>2, <1>t, GotoTyped
    <3>2. QED BY <1>a, <2>2, <3>1 DEF TypeOK, ReqType
  <2>3. CASE FailTo(r, "look")
    BY <1>a, <2>3, <1>t, FailToTyped
  <2>4. QED BY <1>a, <1>5, <2>1, <2>2, <2>3 DEF Teardown
<1>6. CASE RegisterApp(r)
  <2>1. CASE req' = [req EXCEPT ![r].saw = Collect, ![r].at = "record"]
             /\ Quiet /\ UNCHANGED <<rows, devServer>>
    <3>1. req' \in [Requests -> ReqType]
      BY <1>a, <2>1, <1>t, CollectTyped, RequestsTyped
    <3>2. QED BY <1>a, <2>1, <3>1 DEF TypeOK, ReqType
  <2>2. CASE app' = (IF req[r].saw = {} THEN "offline" ELSE "online")
             /\ Goto(r, IF req[r].saw = {} THEN "delete" ELSE "gate")
             /\ Quiet /\ UNCHANGED <<kind, deployed, devServer>>
    <3>1. req' \in [Requests -> ReqType]
      BY <1>a, <2>2, <1>t, GotoTyped
    <3>2. QED BY <1>a, <2>2, <3>1 DEF TypeOK, ReqType
  <2>3. CASE FailTo(r, "free")
    BY <1>a, <2>3, <1>t, FailToTyped
  <2>4. QED BY <1>a, <1>6, <2>1, <2>2, <2>3 DEF RegisterApp
<1>7. CASE OfflineApp(r)
  <2>1. CASE app' = "offline" /\ Goto(r, "delete")
             /\ Quiet /\ UNCHANGED <<kind, deployed, devServer>>
    <3>1. req' \in [Requests -> ReqType]
      BY <1>a, <2>1, <1>t, GotoTyped
    <3>2. QED BY <1>a, <2>1, <3>1 DEF TypeOK, ReqType
  <2>2. CASE FailTo(r, "free")
    BY <1>a, <2>2, <1>t, FailToTyped
  <2>3. QED BY <1>a, <1>7, <2>1, <2>2 DEF OfflineApp
<1>8. CASE Resync(r)
  <2>1. ASSUME NEW s \in Stages, Goto(r, s), Quiet, UNCHANGED <<rows, devServer>>
        PROVE  TypeOK'
    <3>1. req' \in [Requests -> ReqType]
      BY <1>a, <2>1, <1>t, GotoTyped
    <3>2. QED BY <1>a, <2>1, <3>1 DEF TypeOK, ReqType
  <2>2. CASE req' = [req EXCEPT ![r].app = app, ![r].at = "recollect", ![r].then = "free"]
             /\ Quiet /\ UNCHANGED <<rows, devServer>>
    <3>1. req[r] \in ReqType /\ app \in {"none", "online", "offline"}
      BY <1>a, <1>t DEF TypeOK
    <3>2. [req[r] EXCEPT !.app = app, !.at = "recollect", !.then = "free"] \in ReqType
      BY <1>a, <3>1, <1>t DEF ReqType
    <3>3. req' \in [Requests -> ReqType]
      BY <1>a, <2>2, <1>t, <3>2
    <3>4. QED BY <1>a, <2>2, <3>3 DEF TypeOK, ReqType
  <2>3. CASE app' = "offline" /\ Goto(r, "delete")
             /\ Quiet /\ UNCHANGED <<kind, deployed, devServer>>
    <3>1. req' \in [Requests -> ReqType]
      BY <1>a, <2>3, <1>t, GotoTyped
    <3>2. QED BY <1>a, <2>3, <3>1 DEF TypeOK, ReqType
  <2>4. CASE FailTo(r, "delete")
    BY <1>a, <2>4, <1>t, FailToTyped
  <2>5. QED BY <1>a, <1>8, <1>t, <2>1, <2>2, <2>3, <2>4 DEF Resync
<1>9. CASE Serve(r) \/ Build(r)
  <2>1. \A s \in Stages, f \in SUBSET Functions :
          [req EXCEPT ![r] = [req[r] EXCEPT !.at = s, !.saw = f]] \in [Requests -> ReqType]
    <3>1. \A s \in Stages, f \in SUBSET Functions :
            [req[r] EXCEPT !.at = s, !.saw = f] \in ReqType
      BY <1>t DEF ReqType
    <3>2. QED BY <1>t, <3>1
  <2>2. req' \in [Requests -> ReqType]
    <3>1. CASE Serve(r)
      BY ZenonT(40), <1>t, <2>1, <3>1 DEF Serve
    <3>2. CASE Build(r)
      BY <1>a, <1>t, <2>1, <3>2, CollectTyped DEF Build
    <3>3. QED BY <1>9, <3>1, <3>2
  <2>3. QED BY <1>a, <1>9, <2>2 DEF Serve, Build, TypeOK, ReqType
<1>10. CASE Sync(r) \/ DeleteApp(r)
  <2>1. CASE FailTo(r, req[r].then)
    BY <1>a, <2>1, <1>t, FailToTyped
  <2>2. CASE Synced(r)
    <3>1. req' \in [Requests -> ReqType]
      BY <1>a, <2>2, <1>t, GotoTyped DEF Synced
    <3>2. req[r].saw \subseteq Functions /\ req[r].solo \in BOOLEAN
      BY <1>a, <1>t DEF ReqType
    <3>3. orderly' \in BOOLEAN
      BY <1>a, <2>2, <3>2 DEF Synced, TypeOK
    <3>4. /\ known' \in BOOLEAN /\ listed' \subseteq Functions
          /\ known' => app # "none"
      <4>1. CASE Sync(r)
        <5>1. app # "none"
          BY <1>a, <4>1 DEF Sync, TInv, Recorded
        <5>2. QED BY <1>a, <4>1, <5>1, <2>2, <3>2 DEF Sync, TypeOK, FailTo, devServer
      <4>2. CASE DeleteApp(r)
        <5>1. CASE known' = FALSE /\ listed' = {}
          BY <5>1
        <5>2. CASE UNCHANGED devServer
          BY <1>a, <5>2 DEF TypeOK
        <5>3. QED BY <4>2, <5>1, <5>2 DEF DeleteApp, FailTo
      <4>3. QED BY <1>a, <1>10, <4>1, <4>2
    <3>5. QED BY <1>a, <2>2, <3>1, <3>3, <3>4 DEF Synced, TypeOK, ReqType
  <2>3. QED BY <1>a, <1>10, <2>1, <2>2 DEF Sync, DeleteApp
<1>11. QED BY <1>a, <1>1, <1>2, <1>3, <1>4, <1>5, <1>6, <1>7, <1>8, <1>9, <1>10

\* What an arrival, and any other move, leaves behind.
ArrivedAt(r, stage) ==
  /\ req'[r].at = stage /\ req'[r].app = "none" /\ req'[r].saw = {}
  /\ \A q \in Requests \ {r} :
       req'[q].at = req[q].at /\ req'[q].app = req[q].app /\ req'[q].saw = req[q].saw

MovedTo(r, stage) ==
  /\ req'[r].at = stage
  /\ req'[r].app \in {"none", req[r].app} /\ req'[r].saw \in {{}, req[r].saw}
  /\ \A q \in Requests \ {r} : req'[q] = req[q]

LEMMA ArriveFields ==
  ASSUME TypeOK, NEW r \in Requests, NEW stage, NEW then, Arrive(r, stage, then)
  PROVE  ArrivedAt(r, stage)
<1>1. \A q \in Requests : req[q] \in ReqType
  BY DEF TypeOK, ReqType
<1>2. \A q \in Requests \ {r} : req'[q] = [req[q] EXCEPT !.solo = FALSE]
  BY DEF Arrive
<1>3. req'[r] = [Free EXCEPT !.at = stage, !.then = then, !.solo = (Busy = {})]
  BY DEF Arrive
<1>4. req'[r].at = stage /\ req'[r].app = "none" /\ req'[r].saw = {}
  BY <1>3 DEF Free
<1>5. \A q \in Requests \ {r} :
        req'[q].at = req[q].at /\ req'[q].app = req[q].app /\ req'[q].saw = req[q].saw
  BY <1>1, <1>2 DEF ReqType
<1>6. QED BY <1>4, <1>5 DEF ArrivedAt

LEMMA MoveFields ==
  ASSUME TypeOK, NEW r \in Requests, NEW s, Goto(r, s) \/ FailTo(r, s)
  PROVE  MovedTo(r, s)
<1>1. req \in [Requests -> ReqType] /\ req[r] \in ReqType
  BY DEF TypeOK, ReqType
<1>2. Free.at = "free" /\ Free.app = "none" /\ Free.saw = {}
  BY DEF Free
<1>3. \A q \in Requests \ {r} : req'[q] = req[q]
  BY <1>1 DEF Goto, FailTo
<1>4. CASE s = "free"
  <2>1. req'[r] = Free
    BY <1>1, <1>4 DEF Goto, FailTo
  <2>2. QED BY <1>2, <1>3, <1>4, <2>1 DEF MovedTo
<1>5. CASE s # "free"
  <2>1. req'[r] = [req[r] EXCEPT !.at = s] \/ req'[r] = [req[r] EXCEPT !.at = s, !.solo = FALSE]
    BY <1>1, <1>5 DEF Goto, FailTo
  <2>2. req'[r].at = s /\ req'[r].app = req[r].app /\ req'[r].saw = req[r].saw
    BY <1>1, <2>1 DEF ReqType
  <2>3. QED BY <1>3, <2>2 DEF MovedTo
<1>6. QED BY <1>4, <1>5

\* No step of a request makes the dev server know an app without a row.
LEMMA StepRecorded ==
  ASSUME TInv, NEW r \in Requests,
         \/ Change(r) \/ Register(r) \/ Offline(r) \/ Ship(r) \/ Teardown(r)
         \/ RegisterApp(r) \/ OfflineApp(r) \/ Resync(r)
         \/ Serve(r) \/ Build(r) \/ Sync(r) \/ DeleteApp(r)
  PROVE  Recorded'
<1> USE DEF Recorded, Free, rows, Quiet
<1>a. TypeOK /\ Recorded
  BY DEF TInv
<1>t. req[r].then \in {"free", "look"}
  BY <1>a DEF TypeOK
<1>1. CASE Change(r) \/ Register(r) \/ Offline(r)
  <2>1. PICK stage \in {"look", "collect", "switchOff"} : Arrive(r, stage, "free")
    BY <1>1 DEF Change, Register, Offline
  <2>2. ArrivedAt(r, stage)
    BY <1>a, <2>1, ArriveFields
  <2>3. UNCHANGED app
    BY <1>1, <2>1 DEF Change, Register, Offline, Arrive
  <2>4. QED BY <1>a, <2>2, <2>3 DEF ArrivedAt
<1>2. CASE Ship(r)
  <2>1. CASE Arrive(r, "flip", "look") /\ UNCHANGED app
    <3>1. ArrivedAt(r, "flip") /\ UNCHANGED app
      BY <1>a, <2>1, ArriveFields
    <3>2. QED BY <1>a, <3>1 DEF ArrivedAt
  <2>2. CASE Goto(r, "collect") /\ UNCHANGED <<app, devServer>>
    <3>1. MovedTo(r, "collect")
      BY <1>a, <2>2, MoveFields
    <3>2. QED BY <1>a, <2>2, <3>1 DEF MovedTo, devServer, TypeOK
  <2>3. CASE FailTo(r, "free")
    <3>1. MovedTo(r, "free") /\ UNCHANGED app
      BY <1>a, <2>3, MoveFields DEF FailTo
    <3>2. QED BY <1>a, <3>1 DEF MovedTo, TypeOK
  <2>4. QED BY <1>a, <1>2, <2>1, <2>2, <2>3 DEF Ship
<1>3. CASE Teardown(r)
  <2>1. CASE Arrive(r, "mark", "free") /\ UNCHANGED app
    <3>1. ArrivedAt(r, "mark") /\ UNCHANGED app
      BY <1>a, <2>1, ArriveFields
    <3>2. QED BY <1>a, <3>1 DEF ArrivedAt
  <2>2. CASE /\ app' = (IF app = "none" THEN "none" ELSE "offline")
             /\ Goto(r, "look") /\ UNCHANGED devServer
    <3>1. MovedTo(r, "look")
      BY <1>a, <2>2, MoveFields
    <3>2. QED BY <1>a, <2>2, <3>1 DEF MovedTo, devServer, TypeOK
  <2>3. CASE FailTo(r, "look")
    <3>1. MovedTo(r, "look") /\ UNCHANGED app
      BY <1>a, <2>3, MoveFields DEF FailTo
    <3>2. QED BY <1>a, <3>1 DEF MovedTo, TypeOK
  <2>4. QED BY <1>a, <1>3, <2>1, <2>2, <2>3 DEF Teardown
<1>4. CASE RegisterApp(r)
  BY <1>a, <1>4 DEF TypeOK, RegisterApp, Goto, FailTo
<1>5. CASE OfflineApp(r)
  BY <1>a, <1>5 DEF TypeOK, OfflineApp, Goto, FailTo
<1>6. CASE Resync(r)
  <2>1. CASE req[r].at = "look"
    BY <1>a, <1>6, <2>1 DEF TypeOK, Resync, Goto
  <2>2. CASE req[r].at = "recollect"
    BY <1>a, <1>6, <2>2 DEF TypeOK, Resync, Goto
  <2>3. CASE req[r].at = "markEmpty"
    BY ZenonT(40), <1>a, <1>6, <2>3 DEF TypeOK, Resync, Goto, FailTo
  <2>4. QED BY <1>a, <1>6, <2>1, <2>2, <2>3 DEF TypeOK, Resync
<1>7. CASE Serve(r) \/ Build(r)
  BY <1>a, <1>7 DEF TypeOK, Serve, Build
<1>8. CASE Sync(r) \/ DeleteApp(r)
  <2>1. CASE FailTo(r, req[r].then)
    <3>1. MovedTo(r, req[r].then) /\ UNCHANGED app
      BY <1>a, <2>1, MoveFields DEF FailTo
    <3>2. QED BY <1>a, <3>1, <1>t DEF MovedTo, TypeOK
  <2>2. CASE Synced(r)
    <3>1. MovedTo(r, req[r].then)
      BY <1>a, <2>2, MoveFields DEF Synced
    <3>2. UNCHANGED app
      BY <2>2 DEF Synced, rows
    <3>3. QED BY <1>a, <1>t, <3>1, <3>2 DEF MovedTo
  <2>3. QED BY <1>a, <1>8, <2>1, <2>2 DEF Sync, DeleteApp
<1>9. QED BY <1>1, <1>2, <1>3, <1>4, <1>5, <1>6, <1>7, <1>8

LEMMA InitTInv == Init => TInv
<1> SUFFICES ASSUME Init PROVE TInv
  OBVIOUS
<1>1. Free \in ReqType
  BY DEF Free, ReqType, Stages, Functions
<1>2. TypeOK
  <2>1. req \in [Requests -> ReqType]
    BY <1>1 DEF Init
  <2>2. faults \in 0 .. MaxFaults
    BY DomainAssumption DEF Init
  <2>3. QED BY <2>1, <2>2 DEF Init, TypeOK, ReqType
<1>3. Recorded
  BY DEF Init, Recorded, Free
<1>4. QED BY <1>2, <1>3 DEF TInv

LEMMA CrashTInv == ASSUME TInv, Crash PROVE TInv'
<1>1. Free \in ReqType
  BY DEF Free, ReqType, Stages, Functions
<1>2. faults' \in 0 .. MaxFaults
  BY DomainAssumption DEF Crash, Fault, TInv, TypeOK
<1>3. UNCHANGED <<kind, deployed, app, known, listed>> /\ orderly' = FALSE
  BY DEF Crash, rows, devServer
<1>4. TypeOK'
  BY <1>1, <1>2, <1>3 DEF Crash, TInv, TypeOK, ReqType
<1>5. Recorded'
  BY DEF Crash, Recorded, Free
<1>6. QED BY <1>4, <1>5 DEF TInv

LEMMA NextTInv == TInv /\ [Next]_vars => TInv'
<1> SUFFICES ASSUME TInv, [Next]_vars PROVE TInv'
  OBVIOUS
<1>1. CASE UNCHANGED vars
  BY <1>1 DEF vars, rows, devServer, TInv, TypeOK, Recorded
<1>2. QED BY <1>1, StepTypeOK, StepRecorded, CrashTInv DEF Next, TInv

\* Every variable keeps its type, and the dev server knows no app without a row.
THEOREM TypeCorrect == Spec => []TypeOK
<1>1. TInv => TypeOK
  BY DEF TInv
<1>2. QED BY <1>1, InitTInv, NextTInv, PTL DEF Spec

-----------------------------------------------------------------------------
(* The gate of the serve endpoint *)

\* A step of one request, by what it does to the list and to that request.
LEMMA StepListing ==
  ASSUME TypeOK, NEW r \in Requests, app # "online", Listing = {},
         \/ Change(r) \/ Register(r) \/ Offline(r) \/ Ship(r) \/ Teardown(r)
         \/ RegisterApp(r) \/ OfflineApp(r) \/ Resync(r)
         \/ Serve(r) \/ Build(r) \/ Sync(r) \/ DeleteApp(r)
  PROVE  listed' \subseteq listed /\ Listing' = {}
<1> USE DEF Listing, Free, devServer, Quiet
<1>a. TypeOK
  OBVIOUS
<1>t. req[r].then \in {"free", "look"}
  BY DEF TypeOK
<1>1. CASE Change(r) \/ Register(r) \/ Offline(r)
  <2>1. PICK stage \in {"look", "collect", "switchOff"} : Arrive(r, stage, "free")
    BY <1>1 DEF Change, Register, Offline
  <2>2. ArrivedAt(r, stage)
    BY <1>a, <2>1, ArriveFields
  <2>3. UNCHANGED listed
    BY <1>1, <2>1 DEF Change, Register, Offline, Arrive
  <2>4. QED BY <1>a, <2>2, <2>3 DEF ArrivedAt
<1>2. CASE Ship(r)
  <2>1. CASE Arrive(r, "flip", "look") /\ UNCHANGED app
    <3>1. ArrivedAt(r, "flip")
      BY <1>a, <2>1, ArriveFields
    <3>2. UNCHANGED listed
      BY <2>1 DEF Arrive
    <3>3. QED BY <1>a, <3>1, <3>2 DEF ArrivedAt
  <2>2. CASE Goto(r, "collect") /\ UNCHANGED <<app, devServer>>
    <3>1. MovedTo(r, "collect")
      BY <1>a, <2>2, MoveFields
    <3>2. QED BY <1>a, <2>2, <3>1 DEF MovedTo, devServer, TypeOK
  <2>3. CASE FailTo(r, "free")
    <3>1. MovedTo(r, "free") /\ UNCHANGED listed
      BY <1>a, <2>3, MoveFields DEF FailTo
    <3>2. QED BY <1>a, <3>1 DEF MovedTo, TypeOK
  <2>4. QED BY <1>a, <1>2, <2>1, <2>2, <2>3 DEF Ship
<1>3. CASE Teardown(r)
  <2>1. CASE Arrive(r, "mark", "free") /\ UNCHANGED app
    <3>1. ArrivedAt(r, "mark")
      BY <1>a, <2>1, ArriveFields
    <3>2. UNCHANGED listed
      BY <2>1 DEF Arrive
    <3>3. QED BY <1>a, <3>1, <3>2 DEF ArrivedAt
  <2>2. CASE /\ app' = (IF app = "none" THEN "none" ELSE "offline")
             /\ Goto(r, "look") /\ UNCHANGED devServer
    <3>1. MovedTo(r, "look")
      BY <1>a, <2>2, MoveFields
    <3>2. QED BY <1>a, <2>2, <3>1 DEF MovedTo, devServer, TypeOK
  <2>3. CASE FailTo(r, "look")
    <3>1. MovedTo(r, "look") /\ UNCHANGED listed
      BY <1>a, <2>3, MoveFields DEF FailTo
    <3>2. QED BY <1>a, <3>1 DEF MovedTo, TypeOK
  <2>4. QED BY <1>a, <1>3, <2>1, <2>2, <2>3 DEF Teardown
<1>4. CASE RegisterApp(r)
  BY <1>a, <1>4 DEF TypeOK, RegisterApp, Goto, FailTo
<1>5. CASE OfflineApp(r)
  BY <1>a, <1>5 DEF TypeOK, OfflineApp, Goto, FailTo
<1>6. CASE Resync(r)
  <2>1. CASE req[r].at = "look"
    BY <1>a, <1>6, <2>1 DEF TypeOK, Resync, Goto
  <2>2. CASE req[r].at = "recollect"
    BY <1>a, <1>6, <2>2 DEF TypeOK, Resync, Goto
  <2>3. CASE req[r].at = "markEmpty"
    BY ZenonT(40), <1>a, <1>6, <2>3 DEF TypeOK, Resync, Goto, FailTo
  <2>4. QED BY <1>a, <1>6, <2>1, <2>2, <2>3 DEF TypeOK, Resync
<1>7. CASE Serve(r) \/ Build(r)
  BY <1>a, <1>7 DEF TypeOK, Serve, Build
<1>8. CASE Sync(r) \/ DeleteApp(r)
  <2>1. CASE FailTo(r, req[r].then)
    <3>1. MovedTo(r, req[r].then) /\ UNCHANGED listed
      BY <1>a, <2>1, MoveFields DEF FailTo
    <3>2. QED BY <1>a, <3>1, <1>t DEF MovedTo, TypeOK
  <2>2. CASE Synced(r)
    <3>1. MovedTo(r, req[r].then)
      BY <1>a, <2>2, MoveFields DEF Synced
    <3>2. UNCHANGED app
      BY <2>2 DEF Synced, rows
    <3>3. listed' \subseteq listed
      BY <1>a, <1>8 DEF Sync, DeleteApp, FailTo, TypeOK
    <3>4. QED BY <1>a, <1>t, <3>1, <3>3 DEF MovedTo
  <2>3. QED BY <1>a, <1>8, <2>1, <2>2 DEF Sync, DeleteApp
<1>9. QED BY <1>1, <1>2, <1>3, <1>4, <1>5, <1>6, <1>7, <1>8

\* Whoever races with whom, a domain that is off gets no function listed, except
\* by a PUT that had passed the gate before it went off.
THEOREM OfflineIsKept == Spec => OfflineStaysOffline
<1>1. ASSUME TypeOK, [Next]_vars
      PROVE  [ app # "online" /\ Listing = {} =>
                 listed' \subseteq listed /\ (app' # "online" => Listing' = {}) ]_vars
  <2>1. CASE Crash
    BY <2>1 DEF Crash, Listing, Free, devServer
  <2>2. QED BY <1>1, <2>1, StepListing DEF Next
<1>2. QED BY <1>1, TypeCorrect, PTL DEF Spec, OfflineStaysOffline

-----------------------------------------------------------------------------
(* Requests that do not meet *)

\* What a request that has met no other, and no failure, can count on.
Progress(r) ==
  /\ req[r].at \in {"gate", "build", "sync"} => app = "online" /\ Collect # {}
  /\ req[r].at \in {"record", "sync"} => req[r].saw = Collect
  /\ req[r].at = "recollect" => req[r].app = app
  /\ req[r].at = "mark" => Collect = {}
  /\ req[r].at = "delete" => app # "online"

\* Rows and dev server when nothing has met or failed, and the only request, if
\* there is one, is at the given stage.  Only a teardown marks an app offline that
\* the dev server still knows, and it has emptied the app before.
Follows(stage) ==
  /\ known => listed # {}
  /\ stage = "free" => IF app = "online" THEN known /\ listed = Collect ELSE ~known
  /\ stage \in {"look", "recollect"} /\ app # "online" /\ known => Collect = {}

Steady ==
  /\ \A r \in Busy : req[r].solo /\ Follows(req[r].at)
  /\ Busy = {} => Follows("free")

IInv ==
  /\ TInv
  /\ \A r \in Requests : req[r].solo => Busy = {r} /\ Progress(r)
  /\ orderly => Steady

LEMMA InitIInv == Init => IInv
<1> SUFFICES ASSUME Init PROVE IInv
  OBVIOUS
<1>1. TInv
  BY InitTInv
<1>2. Busy = {} /\ \A r \in Requests : ~req[r].solo
  BY DEF Init, Busy, Free
<1>3. Steady
  BY <1>2 DEF Init, Steady, Follows
<1>4. QED BY <1>1, <1>2, <1>3 DEF IInv

\* A request that arrives: it has the domain to itself, or nobody has.
LEMMA Arrives ==
  ASSUME IInv, TInv', NEW r \in Requests, NEW then,
         NEW stage \in {"look", "collect", "switchOff", "flip", "mark"},
         Arrive(r, stage, then), UNCHANGED <<kind, app>>, stage = "mark" => Collect' = {}
  PROVE  IInv'
<1>1. \A q \in Requests : req[q] \in ReqType
  BY DEF IInv, TInv, TypeOK, ReqType
<1>2. /\ req[r].at = "free"
      /\ \A q \in Requests \ {r} : req'[q] = [req[q] EXCEPT !.solo = FALSE]
      /\ req'[r] = [Free EXCEPT !.at = stage, !.then = then, !.solo = (Busy = {})]
      /\ orderly' = (orderly /\ Busy = {})
      /\ UNCHANGED <<known, listed>>
  BY DEF Arrive, devServer
<1>3. \A q \in Requests \ {r} : ~req'[q].solo /\ req'[q].at = req[q].at
  <2>1. \A x \in ReqType : /\ ~[x EXCEPT !.solo = FALSE].solo
                          /\ [x EXCEPT !.solo = FALSE].at = x.at
    BY DEF ReqType
  <2>2. TAKE q \in Requests \ {r}
  <2>3. req'[q] = [req[q] EXCEPT !.solo = FALSE] /\ req[q] \in ReqType
    BY <1>1, <1>2
  <2>4. QED BY <2>1, <2>3
<1>4. req'[r].at = stage /\ (req'[r].solo <=> Busy = {})
  BY <1>2 DEF Free
<1>5. ASSUME Busy = {} PROVE Busy' = {r}
  BY <1>3, <1>4, <1>5 DEF Busy
<1>6. ASSUME Busy = {} PROVE Progress(r)'
  BY <1>4 DEF Progress
<1>7. ASSUME orderly, Busy = {} PROVE Steady'
  <2>1. Follows("free")
    BY <1>7 DEF IInv, Steady
  <2>2. Follows(stage)'
    BY <1>2, <2>1 DEF Follows
  <2>3. QED BY <1>4, <1>5, <1>7, <2>2 DEF Steady
<1>8. QED BY <1>2, <1>3, <1>4, <1>5, <1>6, <1>7 DEF IInv

\* A request whose statement fails: nobody has the domain to himself any more.
LEMMA Fails ==
  ASSUME IInv, TInv', NEW r \in Requests, NEW stage \in Stages, FailTo(r, stage),
         req[r].at # "free"
  PROVE  IInv'
<1>1. req \in [Requests -> ReqType]
  BY DEF IInv, TInv, TypeOK, ReqType
<1>2. ~req'[r].solo
  BY <1>1 DEF FailTo, Free, ReqType
<1>3. \A q \in Requests \ {r} : req'[q] = req[q] /\ ~req[q].solo
  BY <1>1 DEF FailTo, IInv, Busy
<1>4. orderly' = FALSE
  BY DEF FailTo
<1>5. QED BY <1>2, <1>3, <1>4 DEF IInv

\* A request that goes on, to the record x, without a failure.
LEMMA Proceeds ==
  ASSUME IInv, TInv', NEW r \in Requests, NEW x \in ReqType,
         req[r].at # "free", req' = [req EXCEPT ![r] = x],
         x.at = "free" => ~x.solo,
         x.at # "free" => (x.solo <=> req[r].solo),
         orderly' => orderly \/ req[r].solo,
         req[r].solo => Progress(r)',
         req[r].solo /\ orderly' => Follows(x.at)'
  PROVE  IInv'
<1>1. req \in [Requests -> ReqType]
  BY DEF IInv, TInv, TypeOK, ReqType
<1>2. req'[r] = x /\ \A q \in Requests \ {r} : req'[q] = req[q]
  BY <1>1
<1>3. r \in Busy
  BY DEF Busy
<1>4. \A q \in Requests : req'[q].solo => q = r /\ req[r].solo /\ x.at # "free"
  BY <1>2, <1>3 DEF IInv
<1>5. req[r].solo => Busy' = IF x.at = "free" THEN {} ELSE {r}
  BY <1>2 DEF IInv, Busy
<1>6. orderly' => req[r].solo
  BY <1>3 DEF IInv, Steady
<1>7. orderly' => Steady'
  BY <1>2, <1>5, <1>6 DEF Steady
<1>8. QED BY <1>4, <1>5, <1>7 DEF IInv

\* The same for a step that only changes the stage.
LEMMA GotoProceeds ==
  ASSUME IInv, TInv', NEW r \in Requests, NEW s \in Stages \ {"record", "sync", "recollect"},
         req[r].at # "free", Goto(r, s),
         orderly' => orderly \/ req[r].solo,
         req[r].solo => /\ s \in {"gate", "build"} => app' = "online" /\ Collect' # {}
                        /\ s = "mark" => Collect' = {}
                        /\ s = "delete" => app' # "online",
         req[r].solo /\ orderly' => Follows(s)'
  PROVE  IInv'
<1> DEFINE x == IF s = "free" THEN Free ELSE [req[r] EXCEPT !.at = s]
<1>1. TypeOK /\ req[r] \in ReqType /\ req \in [Requests -> ReqType]
  BY DEF IInv, TInv, TypeOK, ReqType
<1>2. x \in ReqType
  BY <1>1, RequestsTyped
<1>3. x.at = s
  BY <1>1 DEF Free, ReqType
<1>4. s # "free" => (x.solo <=> req[r].solo)
  BY <1>1 DEF ReqType
<1>5. s = "free" => ~x.solo
  BY DEF Free
<1>6. req' = [req EXCEPT ![r] = x]
  BY DEF Goto
<1>7. req'[r].at = s
  BY <1>1, <1>3, <1>6
<1>8. req[r].solo => Progress(r)'
  BY <1>7 DEF Progress
<1> HIDE DEF x
<1>9. QED BY <1>2, <1>3, <1>4, <1>5, <1>6, <1>8, Proceeds

\* And for a step that also remembers the functions it has read.
LEMMA ReadProceeds ==
  ASSUME IInv, TInv', NEW r \in Requests, NEW s \in Stages \ {"free"},
         NEW f \in SUBSET Functions,
         req[r].at # "free", req' = [req EXCEPT ![r] = [req[r] EXCEPT !.at = s, !.saw = f]],
         UNCHANGED <<rows, devServer, orderly>>,
         req[r].solo => /\ s \in {"gate", "build", "sync"} => app = "online" /\ Collect # {}
                        /\ s \in {"record", "sync"} => f = Collect
                        /\ s \notin {"recollect", "mark", "delete"},
         orderly => s \notin {"look", "recollect"} \/ Follows(s)
  PROVE  IInv'
<1> DEFINE x == [req[r] EXCEPT !.at = s, !.saw = f]
<1>1. TypeOK /\ req[r] \in ReqType /\ req \in [Requests -> ReqType]
  BY DEF IInv, TInv, TypeOK, ReqType
<1>2. x \in ReqType /\ x.at = s /\ x.saw = f /\ (x.solo <=> req[r].solo)
  BY <1>1 DEF ReqType
<1>3. UNCHANGED <<kind, deployed, app, known, listed, orderly, Collect>>
  BY DEF rows, devServer, Collect
<1>4. req'[r] = x
  BY <1>1
<1> HIDE DEF x
<1>5. req[r].solo => Progress(r)'
  BY <1>2, <1>3, <1>4 DEF Progress
<1>6. req[r].solo /\ orderly' => Follows(s)'
  <2>1. SUFFICES ASSUME req[r].solo, orderly PROVE Follows(s)'
    BY <1>3
  <2>2. Follows(req[r].at)
    BY <2>1 DEF IInv, Steady, Busy
  <2>3. QED BY <1>3, <2>1, <2>2 DEF Follows
<1>7. req' = [req EXCEPT ![r] = x]
  BY DEF x
<1>8. orderly' => orderly \/ req[r].solo
  BY <1>3
<1>9. x \in ReqType /\ x.at = s /\ x.at # "free" /\ (x.solo <=> req[r].solo)
  BY <1>2
<1>10. QED BY <1>5, <1>6, <1>7, <1>8, <1>9, Proceeds

\* The arrivals.
LEMMA ArrivalsIInv ==
  ASSUME IInv, TInv', NEW r \in Requests, req[r].at = "free",
         \/ Change(r) \/ Register(r) \/ Offline(r) \/ Ship(r) \/ Teardown(r)
         \/ RegisterApp(r) \/ OfflineApp(r) \/ Resync(r)
         \/ Serve(r) \/ Build(r) \/ Sync(r) \/ DeleteApp(r)
  PROVE  IInv'
<1>1. CASE Change(r) \/ Register(r) \/ Offline(r)
  <2>1. PICK stage \in {"look", "collect", "switchOff"} : Arrive(r, stage, "free")
    BY <1>1 DEF Change, Register, Offline
  <2>2. UNCHANGED <<kind, app>>
    BY <1>1 DEF Change, Register, Offline, rows
  <2>3. QED BY <2>1, <2>2, Arrives
<1>2. CASE Ship(r)
  <2>1. Arrive(r, "flip", "look") /\ UNCHANGED <<kind, app>>
    BY <1>2 DEF Ship
  <2>2. QED BY <2>1, Arrives
<1>3. CASE Teardown(r)
  <2>1. Arrive(r, "mark", "free") /\ UNCHANGED <<kind, app>> /\ kind = "sandbox" /\ deployed' = {}
    BY <1>3 DEF Teardown
  <2>2. Collect' = {}
    BY <2>1 DEF Collect
  <2>3. QED BY <2>1, <2>2, Arrives
<1>4. QED
  BY <1>1, <1>2, <1>3 DEF RegisterApp, OfflineApp, Resync, Serve, Build, Sync, DeleteApp

\* The steps of a request under way.
LEMMA StepsIInv ==
  ASSUME IInv, TInv', NEW r \in Requests, req[r].at # "free",
         \/ Change(r) \/ Register(r) \/ Offline(r) \/ Ship(r) \/ Teardown(r)
         \/ RegisterApp(r) \/ OfflineApp(r) \/ Resync(r)
         \/ Serve(r) \/ Build(r) \/ Sync(r) \/ DeleteApp(r)
  PROVE  IInv'
<1>a. /\ TypeOK
      /\ {"free", "look", "markEmpty", "collect", "gate", "delete"}
           \subseteq Stages \ {"record", "sync", "recollect"}
      /\ {"record", "sync", "recollect", "build"} \subseteq Stages \ {"free"}
      /\ req[r].then \in {"free", "look"}
      /\ req[r] \in ReqType /\ req \in [Requests -> ReqType]
  BY DEF IInv, TInv, TypeOK, ReqType, Stages
<1>p. req[r].solo => Progress(r)
  BY DEF IInv
<1>f. orderly => req[r].solo /\ Follows(req[r].at)
  BY DEF IInv, Steady, Busy
<1>1. CASE Ship(r)
  <2>1. CASE Goto(r, "collect") /\ UNCHANGED <<known, listed, orderly>>
    <3>1. orderly => Follows("collect")'
      BY <1>f, <2>1 DEF Follows
    <3>2. QED BY <1>a, <2>1, <3>1, GotoProceeds
  <2>2. CASE FailTo(r, "free")
    BY <1>a, <2>2, Fails
  <2>3. QED BY <1>1, <2>1, <2>2 DEF Ship, Arrive, Quiet, devServer
<1>2. CASE Teardown(r)
  <2>1. CASE /\ req[r].at = "mark"
             /\ app' = (IF app = "none" THEN "none" ELSE "offline")
             /\ Goto(r, "look") /\ UNCHANGED <<kind, deployed, known, listed, orderly>>
    <3>1. orderly => Collect' = {}
      BY <1>p, <1>f, <2>1 DEF Progress, Collect
    <3>2. orderly => Follows("look")'
      BY <1>f, <2>1, <3>1 DEF Follows
    <3>3. QED BY <1>a, <2>1, <3>2, GotoProceeds
  <2>2. CASE FailTo(r, "look")
    BY <1>a, <2>2, Fails
  <2>3. QED BY <1>2, <2>1, <2>2 DEF Teardown, Arrive, Quiet, devServer
<1>3. CASE RegisterApp(r)
  <2>1. CASE /\ req' = [req EXCEPT ![r].saw = Collect, ![r].at = "record"]
             /\ Quiet /\ UNCHANGED <<rows, devServer>>
    <3>1. req' = [req EXCEPT ![r] = [req[r] EXCEPT !.at = "record", !.saw = Collect]]
      BY <1>a, <2>1 DEF ReqType
    <3>2. Collect \in SUBSET Functions /\ UNCHANGED <<rows, devServer, orderly>>
      BY <1>a, <2>1, CollectTyped DEF Quiet
    <3>3. QED BY <1>a, <3>1, <3>2, ReadProceeds
  <2>2. CASE /\ req[r].at = "record"
             /\ app' = (IF req[r].saw = {} THEN "offline" ELSE "online")
             /\ Goto(r, IF req[r].saw = {} THEN "delete" ELSE "gate")
             /\ UNCHANGED <<kind, deployed, known, listed, orderly>>
    <3>1. Collect' = Collect /\ (req[r].solo => req[r].saw = Collect)
      BY <1>p, <2>2 DEF Progress, Collect
    <3>2. orderly => Follows("delete")' /\ Follows("gate")'
      BY <1>f, <2>2 DEF Follows
    <3>3. CASE req[r].saw = {}
      BY <1>a, <2>2, <3>2, <3>3, GotoProceeds
    <3>4. CASE req[r].saw # {}
      BY <1>a, <2>2, <3>1, <3>2, <3>4, GotoProceeds
    <3>5. QED BY <3>3, <3>4
  <2>3. CASE FailTo(r, "free")
    BY <1>a, <2>3, Fails
  <2>4. QED BY <1>3, <2>1, <2>2, <2>3 DEF RegisterApp, Quiet, devServer
<1>4. CASE OfflineApp(r)
  <2>1. CASE app' = "offline" /\ Goto(r, "delete") /\ UNCHANGED <<known, listed, orderly>>
    <3>1. orderly => Follows("delete")'
      BY <1>f, <2>1 DEF Follows
    <3>2. QED BY <1>a, <2>1, <3>1, GotoProceeds
  <2>2. CASE FailTo(r, "free")
    BY <1>a, <2>2, Fails
  <2>3. QED BY <1>4, <2>1, <2>2 DEF OfflineApp, Quiet, devServer
<1>5. CASE Resync(r) /\ req[r].at = "look"
  <2>u. UNCHANGED <<kind, deployed, app, known, listed, orderly>>
    BY <1>5 DEF Resync, Quiet, rows, devServer
  <2>1. CASE app = "none"
    <3>1. Goto(r, "free")
      BY <1>5, <2>1 DEF Resync
    <3>2. orderly => Follows("free")'
      BY <1>a, <1>f, <2>u, <2>1 DEF Follows, TypeOK
    <3>3. QED BY <1>a, <2>u, <3>1, <3>2, GotoProceeds
  <2>2. CASE app # "none"
    <3> DEFINE x == [req[r] EXCEPT !.app = app, !.at = "recollect", !.then = "free"]
    <3>1. req' = [req EXCEPT ![r] = x]
      BY <1>a, <1>5, <2>2 DEF Resync, ReqType
    <3>2. /\ x \in ReqType /\ x.at = "recollect" /\ x.app = app
          /\ (x.solo <=> req[r].solo)
      BY <1>a DEF TypeOK, ReqType
    <3>3. req'[r] = x
      BY <1>a, <3>1
    <3> HIDE DEF x
    <3>4. Progress(r)'
      BY <2>u, <3>2, <3>3 DEF Progress
    <3>5. orderly' => Follows("recollect")'
      BY <1>f, <1>5, <2>u DEF Follows, Collect
    <3>6. orderly' => orderly \/ req[r].solo
      BY <2>u
    <3>7. x.at # "free"
      BY <3>2
    <3>8. QED BY <3>1, <3>2, <3>4, <3>5, <3>6, <3>7, Proceeds
  <2>3. QED BY <2>1, <2>2
<1>6. CASE Resync(r) /\ req[r].at = "recollect"
  <2>u. UNCHANGED <<kind, deployed, app, known, listed, orderly, Collect>>
    BY <1>6 DEF Resync, Quiet, rows, devServer, Collect
  <2>1. req[r].solo => req[r].app = app
    BY <1>p, <1>6 DEF Progress
  <2>2. orderly => Follows("markEmpty")' /\ Follows("delete")' /\ Follows("gate")'
    BY <1>f, <2>u DEF Follows
  <2>3. CASE Goto(r, "markEmpty")
    BY <1>a, <2>u, <2>2, <2>3, GotoProceeds
  <2>4. CASE Goto(r, "delete") /\ req[r].app # "online"
    BY <1>a, <2>u, <2>1, <2>2, <2>4, GotoProceeds
  <2>5. CASE Goto(r, "gate") /\ Collect # {} /\ req[r].app = "online"
    BY <1>a, <2>u, <2>1, <2>2, <2>5, GotoProceeds
  <2>6. CASE Goto(r, "free") /\ Collect # {} /\ req[r].app # "online"
    <3>1. orderly => Follows("free")'
      BY <1>f, <1>6, <2>u, <2>1, <2>6 DEF Follows
    <3>2. QED BY <1>a, <2>u, <2>6, <3>1, GotoProceeds
  <2>7. QED BY <1>6, <2>3, <2>4, <2>5, <2>6 DEF Resync
<1>7. CASE Resync(r) /\ req[r].at = "markEmpty"
  <2>1. CASE app' = "offline" /\ Goto(r, "delete") /\ UNCHANGED <<known, listed, orderly>>
    <3>1. orderly => Follows("delete")'
      BY <1>f, <2>1 DEF Follows
    <3>2. QED BY <1>a, <2>1, <3>1, GotoProceeds
  <2>2. CASE FailTo(r, "delete")
    BY <1>a, <2>2, Fails
  <2>3. QED BY <1>7, <2>1, <2>2 DEF Resync, Quiet, devServer
<1>8. CASE Serve(r)
  <2>1. /\ req' = [req EXCEPT ![r].at = IF app = "online" THEN "build" ELSE "sync", ![r].saw = {}]
        /\ UNCHANGED <<rows, devServer, orderly>>
    BY <1>8 DEF Serve, Quiet
  <2>2. req[r].solo => app = "online" /\ Collect # {}
    BY <1>p, <1>8 DEF Progress, Serve
  <2>3. {} \in SUBSET Functions
    OBVIOUS
  <2>4. CASE app = "online"
    <3>1. req' = [req EXCEPT ![r] = [req[r] EXCEPT !.at = "build", !.saw = {}]]
      BY <1>a, <2>1, <2>4 DEF ReqType
    <3>2. UNCHANGED <<rows, devServer, orderly>>
      BY <2>1
    <3>3. QED BY <1>a, <2>2, <2>3, <3>1, <3>2, ReadProceeds
  <2>5. CASE app # "online"
    <3>1. req' = [req EXCEPT ![r] = [req[r] EXCEPT !.at = "sync", !.saw = {}]]
      BY <1>a, <2>1, <2>5 DEF ReqType
    <3>2. ~req[r].solo
      BY <2>2, <2>5
    <3>3. UNCHANGED <<rows, devServer, orderly>>
      BY <2>1
    <3>4. QED BY <1>a, <2>3, <3>1, <3>2, <3>3, ReadProceeds
  <2>6. QED BY <2>4, <2>5
<1>9. CASE Build(r)
  <2>1. req[r].solo => app = "online" /\ Collect # {}
    BY <1>p, <1>9 DEF Progress, Build
  <2>2. req' = [req EXCEPT ![r] = [req[r] EXCEPT !.at = "sync", !.saw = Collect]]
    BY <1>a, <1>9 DEF Build, ReqType
  <2>3. Collect \in SUBSET Functions /\ UNCHANGED <<rows, devServer, orderly>>
    BY <1>a, <1>9, CollectTyped DEF Build, Quiet
  <2>4. QED BY <1>a, <2>1, <2>2, <2>3, ReadProceeds
<1>10. CASE Sync(r)
  <2>1. CASE known' = TRUE /\ listed' = req[r].saw /\ Synced(r)
    <3>1. Goto(r, req[r].then) /\ UNCHANGED <<kind, deployed, app, Collect>>
      BY <2>1 DEF Synced, rows, Collect
    <3>2. orderly' => orderly \/ req[r].solo
      BY <2>1 DEF Synced
    <3>3. req[r].solo => app' = "online" /\ Collect' # {} /\ listed' = Collect'
      BY <1>p, <1>10, <2>1, <3>1 DEF Sync, Progress
    <3>0. PICK s \in {"free", "look"} : s = req[r].then
      BY <1>a
    <3>4. req[r].solo /\ orderly' => Follows(s)'
      BY <1>a, <2>1, <3>0, <3>1, <3>3 DEF Follows
    <3>5. Goto(r, s)
      BY <3>0, <3>1
    <3>6. QED BY <1>a, <3>0, <3>2, <3>4, <3>5, GotoProceeds
  <2>2. CASE FailTo(r, req[r].then)
    BY <1>a, <2>2, Fails
  <2>3. QED BY <1>10, <2>1, <2>2 DEF Sync
<1>11. CASE DeleteApp(r)
  <2>1. CASE known' = FALSE /\ listed' = {} /\ Synced(r)
    <3>1. Goto(r, req[r].then) /\ UNCHANGED app
      BY <2>1 DEF Synced, rows
    <3>2. orderly' => orderly \/ req[r].solo
      BY <2>1 DEF Synced
    <3>3. req[r].solo => app' # "online"
      BY <1>p, <1>11, <3>1 DEF DeleteApp, Progress
    <3>0. PICK s \in {"free", "look"} : s = req[r].then
      BY <1>a
    <3>4. req[r].solo /\ orderly' => Follows(s)'
      BY <1>a, <2>1, <3>0, <3>1, <3>3 DEF Follows
    <3>5. Goto(r, s)
      BY <3>0, <3>1
    <3>6. QED BY <1>a, <3>0, <3>2, <3>4, <3>5, GotoProceeds
  <2>2. CASE FailTo(r, req[r].then)
    BY <1>a, <2>2, Fails
  <2>3. QED BY <1>11, <2>1, <2>2 DEF DeleteApp
<1>12. CASE Change(r) \/ Register(r) \/ Offline(r)
  BY <1>12 DEF Change, Register, Offline, Arrive
<1>13. Resync(r) => req[r].at \in {"look", "recollect", "markEmpty"}
  BY DEF Resync
<1>14. QED BY <1>1, <1>2, <1>3, <1>4, <1>5, <1>6, <1>7, <1>8, <1>9, <1>10, <1>11, <1>12, <1>13

LEMMA NextIInv == IInv /\ [Next]_vars => IInv'
<1> SUFFICES ASSUME IInv, [Next]_vars PROVE IInv'
  OBVIOUS
<1>1. TInv'
  BY NextTInv DEF IInv
<1>2. CASE Crash
  <2>1. orderly' = FALSE /\ \A r \in Requests : ~req'[r].solo
    BY <1>2 DEF Crash, Free
  <2>2. QED BY <1>1, <2>1 DEF IInv
<1>3. CASE UNCHANGED vars
  <2>1. /\ UNCHANGED <<kind, deployed, app, known, listed, req>> /\ orderly' = orderly
        /\ UNCHANGED Collect
    BY <1>3 DEF vars, Collect
  <2>2. Busy' = Busy
    BY <2>1 DEF Busy
  <2>3. \A s : Follows(s)' <=> Follows(s)
    BY <2>1 DEF Follows
  <2>4. \A r \in Requests : Progress(r)' <=> Progress(r)
    BY <2>1 DEF Progress
  <2>5. Steady' <=> Steady
    BY <2>1, <2>2, <2>3 DEF Steady
  <2>6. QED BY <1>1, <2>1, <2>2, <2>4, <2>5 DEF IInv
<1>4. CASE \E r \in Requests :
       \/ Change(r) \/ Register(r) \/ Offline(r) \/ Ship(r) \/ Teardown(r)
       \/ RegisterApp(r) \/ OfflineApp(r) \/ Resync(r)
       \/ Serve(r) \/ Build(r) \/ Sync(r) \/ DeleteApp(r)
  <2>1. PICK r \in Requests :
       \/ Change(r) \/ Register(r) \/ Offline(r) \/ Ship(r) \/ Teardown(r)
       \/ RegisterApp(r) \/ OfflineApp(r) \/ Resync(r)
       \/ Serve(r) \/ Build(r) \/ Sync(r) \/ DeleteApp(r)
    BY <1>4
  <2>2. CASE req[r].at = "free"
    BY <1>1, <2>1, <2>2, ArrivalsIInv
  <2>3. CASE req[r].at # "free"
    BY <1>1, <2>1, <2>3, StepsIInv
  <2>4. QED BY <2>2, <2>3
<1>5. QED BY <1>2, <1>3, <1>4 DEF Next

LEMMA SpecIInv == Spec => []IInv
  BY InitIInv, NextIInv, PTL DEF Spec

\* The dev server and the rows agree whenever nothing is under way and nothing
\* has met or failed since a request that had the domain to itself.
THEOREM AgreesAfterEach == Spec => []InSync
<1>1. IInv => InSync
  BY DEF IInv, Steady, Follows, InSync
<1>2. QED BY <1>1, SpecIInv, PTL

\* Requests that do not meet never leave an app registered without functions.
THEOREM NoEmptyApp == Spec => []NeverRed
<1>1. IInv => NeverRed
  <2> SUFFICES ASSUME IInv, orderly, known PROVE listed # {}
    BY DEF NeverRed
  <2>1. Steady
    BY DEF IInv
  <2>2. CASE Busy = {}
    BY <2>1, <2>2 DEF Steady, Follows
  <2>3. CASE Busy # {}
    BY <2>1, <2>3 DEF Steady, Follows
  <2>4. QED BY <2>2, <2>3
<1>2. QED BY <1>1, SpecIInv, PTL
-----------------------------------------------------------------------------
(* How long a request takes *)

Step(r) ==
  \/ Change(r) \/ Register(r) \/ Offline(r) \/ Ship(r) \/ Teardown(r)
  \/ RegisterApp(r) \/ OfflineApp(r) \/ Resync(r)
  \/ Serve(r) \/ Build(r) \/ Sync(r) \/ DeleteApp(r)

\* The awaits a request has before it at most, from a stage and what is to follow.
Ahead(stage, then) ==
  (CASE stage = "free" -> 0
     [] stage \in {"sync", "delete"} -> 1
     [] stage \in {"build", "markEmpty", "switchOff"} -> 2
     [] stage = "gate" -> 3
     [] stage \in {"recollect", "record"} -> 4
     [] stage \in {"look", "collect"} -> 5
     [] OTHER -> 6)
  + (IF then = "look" /\ stage \notin {"free", "look"} THEN 5 ELSE 0)

\* A request under way comes nearer to its end with every step it takes, and
\* other requests neither hold it up nor send it back; only a crash cuts it off.
RequestsGoOn ==
  \A r \in Busy :
    /\ Ahead(req[r].at, req[r].then) \in 1 .. 11
    /\ Step(r) => Ahead(req'[r].at, req'[r].then) < Ahead(req[r].at, req[r].then)
    /\ \A q \in Requests \ {r} : Step(q) => /\ req'[r].at = req[r].at
                                            /\ req'[r].then = req[r].then
    /\ Crash => req'[r] = Free

\* A statement or a goto moves the request only.
LEMMA GotoFrom ==
  ASSUME TypeOK, NEW r \in Requests, NEW s \in Stages, Goto(r, s) \/ FailTo(r, s)
  PROVE  /\ req'[r].at = s
         /\ s # "free" => req'[r].then = req[r].then
         /\ \A q \in Requests \ {r} : req'[q] = req[q]
<1>1. CASE s = "free"
  <2>1. req' = [req EXCEPT ![r] = Free]
    BY <1>1 DEF Goto, FailTo
  <2>2. QED BY <1>1, <2>1 DEF TypeOK, Free
<1>2. CASE s # "free"
  <2>1. \/ req' = [req EXCEPT ![r] = [@ EXCEPT !.at = s]]
        \/ req' = [req EXCEPT ![r] = [@ EXCEPT !.at = s, !.solo = FALSE]]
    BY <1>2 DEF Goto, FailTo
  <2>2. \A q \in Requests \ {r} : req'[q] = req[q]
    BY <2>1 DEF TypeOK
  <2>3. req'[r].at = s /\ req'[r].then = req[r].then
    <3>1. CASE req' = [req EXCEPT ![r] = [@ EXCEPT !.at = s]]
      BY <3>1 DEF TypeOK
    <3>2. CASE req' = [req EXCEPT ![r] = [@ EXCEPT !.at = s, !.solo = FALSE]]
      BY <3>2 DEF TypeOK
    <3>3. QED BY <2>1, <3>1, <3>2
  <2>4. QED BY <2>2, <2>3
<1>3. QED BY <1>1, <1>2

\* A step of a request that is under way.
LEMMA StepTakesOn ==
  ASSUME TypeOK, NEW r \in Busy, Step(r)
  PROVE  /\ Ahead(req'[r].at, req'[r].then) < Ahead(req[r].at, req[r].then)
         /\ \A q \in Requests \ {r} : req'[q] = req[q]
<1> USE DEF Busy, Ahead
<1>t. /\ {"free", "flip", "mark", "look", "recollect", "markEmpty", "collect", "record",
          "switchOff", "gate", "build", "sync", "delete"} \subseteq Stages
      /\ req[r].then \in {"free", "look"} /\ r \in Requests
  BY DEF TypeOK, Stages
<1>0. \A stage, then : ~Arrive(r, stage, then)
  BY DEF Arrive
<1>1. CASE Ship(r)
  <2>1. req[r].at = "flip" /\ ((Goto(r, "collect") \/ FailTo(r, "collect")) \/ FailTo(r, "free"))
    BY <1>0, <1>1 DEF Ship
  <2>2. QED BY <1>t, <2>1, GotoFrom
<1>2. CASE Teardown(r)
  <2>1. req[r].at = "mark" /\ (Goto(r, "look") \/ FailTo(r, "look"))
    BY <1>0, <1>2 DEF Teardown
  <2>2. QED BY <1>t, <2>1, GotoFrom
<1>3. CASE RegisterApp(r)
  <2>1. CASE req[r].at = "collect" /\ req' = [req EXCEPT ![r].saw = Collect, ![r].at = "record"]
    BY <1>t, <2>1 DEF TypeOK
  <2>2. CASE /\ req[r].at = "record"
             /\ Goto(r, "delete") \/ Goto(r, "gate") \/ FailTo(r, "free")
    BY <1>t, <2>2, GotoFrom
  <2>3. QED BY <1>3, <2>1, <2>2 DEF RegisterApp
<1>4. CASE OfflineApp(r)
  <2>1. req[r].at = "switchOff" /\ (Goto(r, "delete") \/ FailTo(r, "free"))
    BY <1>4 DEF OfflineApp
  <2>2. QED BY <1>t, <2>1, GotoFrom
<1>5. CASE Resync(r)
  <2>1. CASE req[r].at = "look" /\ Goto(r, "free")
    BY <1>t, <2>1, GotoFrom
  <2>2. CASE /\ req[r].at = "look"
             /\ req' = [req EXCEPT ![r].app = app, ![r].at = "recollect", ![r].then = "free"]
    BY <1>t, <2>2 DEF TypeOK
  <2>3. CASE /\ req[r].at = "recollect"
             /\ \E s \in {"markEmpty", "delete", "gate", "free"} : Goto(r, s)
    BY <1>t, <2>3, GotoFrom
  <2>4. CASE req[r].at = "markEmpty" /\ (Goto(r, "delete") \/ FailTo(r, "delete"))
    BY <1>t, <2>4, GotoFrom
  <2>5. QED BY <1>5, <2>1, <2>2, <2>3, <2>4 DEF Resync
<1>6. CASE Serve(r) \/ Build(r)
  BY <1>t, <1>6 DEF TypeOK, Serve, Build
<1>7. CASE Sync(r) \/ DeleteApp(r)
  <2>1. /\ req[r].at \in {"sync", "delete"}
        /\ Goto(r, req[r].then) \/ FailTo(r, req[r].then)
    BY <1>7 DEF Sync, DeleteApp, Synced
  <2>2. /\ req'[r].at = req[r].then
        /\ \A q \in Requests \ {r} : req'[q] = req[q]
    BY <1>t, <2>1, GotoFrom
  <2>3. QED BY <1>t, <2>1, <2>2
<1>8. QED BY <1>0, <1>1, <1>2, <1>3, <1>4, <1>5, <1>6, <1>7
           DEF Step, Change, Register, Offline

\* A step of another request, which may be its arrival.
LEMMA OthersLeaveAlone ==
  ASSUME TypeOK, NEW r \in Requests, NEW q \in Requests \ {r}, Step(q)
  PROVE  req'[r].at = req[r].at /\ req'[r].then = req[r].then
<1>1. CASE q \in Busy
  BY <1>1, StepTakesOn
<1>2. CASE q \notin Busy
  <2>1. req[q].at = "free"
    BY <1>2 DEF Busy
  <2>2. PICK stage, then : Arrive(q, stage, then)
    BY <2>1 DEF Step, Change, Register, Offline, Ship, Teardown, RegisterApp, OfflineApp,
                Resync, Serve, Build, Sync, DeleteApp
  <2>3. QED BY <2>2 DEF Arrive, TypeOK
<1>3. QED BY <1>1, <1>2

\* A request ends after eleven steps of its own at most, whoever it races with
\* and whatever fails under it.
THEOREM RequestsEnd == Spec => [][RequestsGoOn]_vars
<1>1. ASSUME TypeOK, NEW r \in Busy PROVE Ahead(req[r].at, req[r].then) \in 1 .. 11
  BY <1>1 DEF TypeOK, Stages, Busy, Ahead
<1>2. ASSUME NEW r \in Requests, Crash PROVE req'[r] = Free
  BY <1>2 DEF Crash
<1>3. TypeOK => RequestsGoOn
  BY <1>1, <1>2, StepTakesOn, OthersLeaveAlone DEF RequestsGoOn, Busy
<1>4. QED BY <1>3, TypeCorrect, PTL DEF Spec
=============================================================================
