------------------------------- MODULE DomainApp -------------------------------
(***************************************************************************)
(* The Inngest app of one business domain (server/inngest/domain-app.ts):  *)
(* which agents are deployed (AgentVersion rows), whether the app is on    *)
(* (its DomainInngestApp row), and what the Inngest dev server lists.  The *)
(* requests of operators and of the factory (agent drafts, app switch,     *)
(* shipAgents, teardownSandbox) change the rows and then have the dev      *)
(* server follow, by a PUT that makes the app register what its serve      *)
(* endpoint finds in the database, or by deleting the app.                 *)
(*                                                                         *)
(* Every await may be overtaken by another request.  A row stands for its  *)
(* slug, so the versions of one agent are not told apart.                  *)
(***************************************************************************)
EXTENDS Naturals, FiniteSets

CONSTANTS
  Agents,    \* agents of the domain
  Keepalive, \* the sentinel function of a generated domain
  Requests,  \* requests that may be under way at a time
  MaxFaults  \* bound: statements and calls that fail, and crashes

ASSUME DomainAssumption == Keepalive \notin Agents /\ MaxFaults \in Nat

VARIABLES
  kind,      \* "generated": has the sentinel; "sandbox": goes away when empty
  deployed,  \* agents with an active AgentVersion row
  app,       \* DomainInngestApp.status, "none" without a row
  known,     \* the dev server has the app
  listed,    \* the functions it lists for it
  req,       \* req[r]: what request r is at, what it has read, and whether it
             \* has met no other request and no failure
  faults,
  orderly    \* nothing has met or failed since a request that had the domain
             \* to itself made the dev server follow

rows == <<kind, deployed, app>>
devServer == <<known, listed>>
vars == <<kind, deployed, app, known, listed, req, faults, orderly>>

Functions == Agents \cup {Keepalive}
Stages    == {"free", "flip", "mark", "look", "recollect", "markEmpty", "collect",
              "record", "switchOff", "gate", "build", "sync", "delete"}
Free      == [at |-> "free", app |-> "none", saw |-> {}, then |-> "free", solo |-> FALSE]
Busy      == {r \in Requests : req[r].at # "free"}

Fault == faults < MaxFaults /\ faults' = faults + 1

\* collectDomainFunctions: the sentinel, if the domain has one, and the agents.
Collect == (IF kind = "generated" THEN {Keepalive} ELSE {}) \cup deployed

-----------------------------------------------------------------------------
(* Steps of a request *)

Goto(r, stage) == req' = [req EXCEPT ![r] = IF stage = "free" THEN Free
                                            ELSE [@ EXCEPT !.at = stage]]

\* A request arrives, and may meet others.
Arrive(r, stage, then) ==
  /\ req[r].at = "free"
  /\ req' = [q \in Requests |->
       IF q = r THEN [Free EXCEPT !.at = stage, !.then = then, !.solo = (Busy = {})]
                ELSE [req[q] EXCEPT !.solo = FALSE]]
  /\ orderly' = (orderly /\ Busy = {})
  /\ UNCHANGED <<faults, devServer>>

\* A statement that fails ends the request, or is swallowed and leads on.
FailTo(r, stage) ==
  /\ Fault
  /\ req' = [req EXCEPT ![r] = IF stage = "free" THEN Free
                               ELSE [@ EXCEPT !.at = stage, !.solo = FALSE]]
  /\ orderly' = FALSE
  /\ UNCHANGED <<rows, devServer>>

Quiet == UNCHANGED <<faults, orderly>>

\* transition, delete, restore of an agent draft: one row, then the resync.
Change(r) ==
  /\ \E a \in Agents : deployed' \in {deployed \cup {a}, deployed \ {a}}
  /\ Arrive(r, "look", "free")
  /\ UNCHANGED <<kind, app>>

Register_PutOnly(r) == Arrive(r, "gate", "free") /\ UNCHANGED rows

\* The app is switched on, or a new generation takes its slot.
Register(r) == Arrive(r, "collect", "free") /\ UNCHANGED rows

Offline(r) == Arrive(r, "switchOff", "free") /\ UNCHANGED rows

\* shipAgents: the sandbox's agents of another version give way to the shipped
\* ones, by two statements, then register and resync.  The flip matches no row
\* when every draft was a duplicate of another version's.
Ship(r) ==
  /\ \/ /\ kind = "sandbox"
        /\ Arrive(r, "flip", "look")
        /\ deployed' \in {{}, deployed}
        /\ UNCHANGED <<kind, app>>
     \/ /\ req[r].at = "flip"
        /\ \/ /\ \E shipped \in SUBSET Agents : deployed' = deployed \cup shipped
              /\ Goto(r, "collect")
              /\ Quiet /\ UNCHANGED <<kind, app, devServer>>
           \/ FailTo(r, "free")

\* teardownSandbox: the rows go, the app is marked offline, then the resync.
Teardown(r) ==
  \/ /\ kind = "sandbox"
     /\ Arrive(r, "mark", "free")
     /\ deployed' = {}
     /\ UNCHANGED <<kind, app>>
  \/ /\ req[r].at = "mark"
     /\ \/ /\ app' = IF app = "none" THEN "none" ELSE "offline"
           /\ Goto(r, "look")
           /\ Quiet /\ UNCHANGED <<kind, deployed, devServer>>
        \/ FailTo(r, "look")

RegisterApp_AlwaysOnline(r) ==
  \/ /\ req[r].at = "collect"
     /\ req' = [req EXCEPT ![r].saw = Collect, ![r].at = "record"]
     /\ Quiet /\ UNCHANGED <<rows, devServer>>
  \/ /\ req[r].at = "record"
     /\ \/ /\ app' = "online"
           /\ Goto(r, "gate")
           /\ Quiet /\ UNCHANGED <<kind, deployed, devServer>>
        \/ FailTo(r, "free")

\* registerDomainApp: without functions the app is taken away, otherwise it is
\* recorded as online and registered.
RegisterApp(r) ==
  \/ /\ req[r].at = "collect"
     /\ req' = [req EXCEPT ![r].saw = Collect, ![r].at = "record"]
     /\ Quiet /\ UNCHANGED <<rows, devServer>>
  \/ /\ req[r].at = "record"
     /\ \/ /\ app' = IF req[r].saw = {} THEN "offline" ELSE "online"
           /\ Goto(r, IF req[r].saw = {} THEN "delete" ELSE "gate")
           /\ Quiet /\ UNCHANGED <<kind, deployed, devServer>>
        \/ FailTo(r, "free")

OfflineApp_RowOnly(r) ==
  /\ req[r].at = "switchOff"
  /\ \/ /\ app' = "offline"
        /\ Goto(r, "free")
        /\ Quiet /\ UNCHANGED <<kind, deployed, devServer>>
     \/ FailTo(r, "free")

\* offlineDomainApp
OfflineApp(r) ==
  /\ req[r].at = "switchOff"
  /\ \/ /\ app' = "offline"
        /\ Goto(r, "delete")
        /\ Quiet /\ UNCHANGED <<kind, deployed, devServer>>
     \/ FailTo(r, "free")

\* resyncDomainApp: reads the app, collects, and either removes an app that has
\* become empty, respects one that is off, or registers anew.
Resync(r) ==
  \/ /\ req[r].at = "look"
     /\ IF app = "none" THEN Goto(r, "free")
        ELSE req' = [req EXCEPT ![r].app = app, ![r].at = "recollect", ![r].then = "free"]
     /\ Quiet /\ UNCHANGED <<rows, devServer>>
  \/ /\ req[r].at = "recollect"
     /\ Goto(r, IF Collect = {} THEN (IF req[r].app = "online" THEN "markEmpty" ELSE "delete")
                ELSE IF req[r].app = "online" THEN "gate" ELSE "free")
     /\ Quiet /\ UNCHANGED <<rows, devServer>>
  \/ /\ req[r].at = "markEmpty"
     /\ \/ /\ app' = "offline" /\ Goto(r, "delete")
           /\ Quiet /\ UNCHANGED <<kind, deployed, devServer>>
        \/ FailTo(r, "delete")

Serve_NoGate(r) ==
  /\ req[r].at = "gate"
  /\ Goto(r, "build")
  /\ Quiet /\ UNCHANGED <<rows, devServer>>

\* The PUT reaches the serve endpoint, buildDomainFunctions: an app that is off
\* serves nothing.
Serve(r) ==
  /\ req[r].at = "gate"
  /\ req' = [req EXCEPT ![r].at = IF app = "online" THEN "build" ELSE "sync", ![r].saw = {}]
  /\ Quiet /\ UNCHANGED <<rows, devServer>>

Build(r) ==
  /\ req[r].at = "build"
  /\ req' = [req EXCEPT ![r].at = "sync", ![r].saw = Collect]
  /\ Quiet /\ UNCHANGED <<rows, devServer>>

\* The dev server has followed.
Synced(r) ==
  /\ Goto(r, req[r].then)
  /\ orderly' = (orderly \/ req[r].solo)
  /\ UNCHANGED <<rows, faults>>

\* The SDK registers what the endpoint serves.
Sync(r) ==
  /\ req[r].at = "sync"
  /\ \/ known' = TRUE /\ listed' = req[r].saw /\ Synced(r)
     \/ FailTo(r, req[r].then)

\* deleteInngestApp
DeleteApp(r) ==
  /\ req[r].at = "delete"
  /\ \/ known' = FALSE /\ listed' = {} /\ Synced(r)
     \/ FailTo(r, req[r].then)

\* The application dies with all its requests.
Crash ==
  /\ Busy # {}
  /\ Fault
  /\ req' = [r \in Requests |-> Free]
  /\ orderly' = FALSE
  /\ UNCHANGED <<rows, devServer>>

-----------------------------------------------------------------------------

Init ==
  /\ kind \in {"generated", "sandbox"}
  /\ deployed = {}
  /\ app = "none"
  /\ known = FALSE /\ listed = {}
  /\ req = [r \in Requests |-> Free]
  /\ faults = 0
  /\ orderly = TRUE

Next ==
  \/ \E r \in Requests :
       \/ Change(r) \/ Register(r) \/ Offline(r) \/ Ship(r) \/ Teardown(r)
       \/ RegisterApp(r) \/ OfflineApp(r) \/ Resync(r)
       \/ Serve(r) \/ Build(r) \/ Sync(r) \/ DeleteApp(r)
  \/ Crash

Spec == Init /\ [][Next]_vars

-----------------------------------------------------------------------------
(* Properties *)

\* The states the rows, the dev server and the requests can be in; an app the
\* dev server knows has its row, because every path records the app first.
TypeOK ==
  /\ kind \in {"generated", "sandbox"}
  /\ deployed \subseteq Agents
  /\ app \in {"none", "online", "offline"}
  /\ known \in BOOLEAN /\ listed \subseteq Functions
  /\ req \in [Requests -> [at : Stages, app : {"none", "online", "offline"},
                           saw : SUBSET Functions, then : {"free", "look"}, solo : BOOLEAN]]
  /\ faults \in 0..MaxFaults /\ orderly \in BOOLEAN
  /\ known => app # "none"

\* After any series of requests that did not meet, the dev server lists exactly
\* the functions of an app that is on and does not have an app that is off; what
\* races and failures left behind is repaired by the next request that had the
\* domain to itself and reached the dev server (resyncDomainApp, registerDomainApp,
\* offlineDomainApp).
InSync ==
  orderly /\ Busy = {} =>
    IF app = "online" THEN known /\ listed = Collect ELSE ~known

\* An app is never left registered without functions, which the dev server
\* shows as an error (domain-app.ts:177-181), as long as requests do not meet:
\* an app that has become empty is deleted, at every step of every request.
NeverRed == orderly /\ known => listed # {}

\* The requests whose PUT has passed the gate and may list functions.
Listing == {r \in Requests : req[r].at = "build" \/ (req[r].at = "sync" /\ req[r].saw # {})}

\* A domain that is off gets no function listed, whoever races with whom: only
\* a PUT that had passed the gate of the serve endpoint before the app went off
\* can still list what it had found, and no other follows it until the app is
\* switched on again (buildDomainFunctions, domain-app.ts:272-278).
OfflineStaysOffline ==
  [][ app # "online" /\ Listing = {} =>
        listed' \subseteq listed /\ (app' # "online" => Listing' = {}) ]_vars
=============================================================================
