---------------------------- MODULE RelayContract ----------------------------
(***************************************************************************)
(* What the RAAS bridge promises, as a relay that looks its own history    *)
(* up: one process pushes a log entry at most once, none that was in the   *)
(* log before it found out what is history, none a window or more older    *)
(* than one it has pushed, and no replay of an id that it pushed, or that  *)
(* is in the page it read as history, less than Memory entries ago.  There *)
(* is no seen-set and no trim here; RaasBridge implements this contract.   *)
(***************************************************************************)
EXTENDS Naturals

CONSTANTS
  Events,    \* log entries, numbered in arrival order
  Relayed,   \* the ids whose name the bridge relays
  Disorder,  \* how far pushes may be out of order
  Reach,     \* entries a process reads as history
  Memory     \* entries after which a replay may get through

VARIABLES
  arrived,   \* log entries so far
  id,        \* id[e]: the first entry with the id of entry e
  since,     \* the process relays later entries only
  pushes     \* pushes[e]: times the process pushed entry e

contractVars == <<arrived, id, since, pushes>>

Nothing == [e \in Events |-> 0]

Init ==
  /\ arrived = 0
  /\ id = [e \in Events |-> e]
  /\ since = 0
  /\ pushes = Nothing

Arrive ==
  /\ arrived' = arrived + 1
  /\ arrived' \in Events
  /\ \/ UNCHANGED id
     \/ \E e \in 1 .. arrived : id' = [id EXCEPT ![arrived'] = id[e]]
  /\ UNCHANGED <<since, pushes>>

\* Before its first push, a process may find out what is history.
Baseline ==
  /\ pushes = Nothing
  /\ since = 0
  /\ since' = arrived
  /\ UNCHANGED <<arrived, id, pushes>>

\* Entry f has been pushed, or is one of the page read as history.
Remembered(f) == pushes[f] > 0 \/ (f <= since /\ since < f + Reach)

Push(e) ==
  /\ id[e] \in Relayed
  /\ e > since
  /\ e <= arrived
  /\ pushes[e] = 0
  /\ \A f \in Events : pushes[f] > 0 => f < e + Disorder
  /\ \A f \in Events : id[f] = id[e] /\ Remembered(f) => f + Memory <= e
  /\ pushes' = [pushes EXCEPT ![e] = 1]
  /\ UNCHANGED <<arrived, id, since>>

\* A new process knows nothing of the old one's pushes.
Forget ==
  /\ pushes' = Nothing
  /\ since' = 0
  /\ UNCHANGED <<arrived, id>>

Next ==
  \/ Arrive \/ Baseline \/ Forget
  \/ \E e \in Events : Push(e)

Contract == Init /\ [][Next]_contractVars
=============================================================================
