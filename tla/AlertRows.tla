------------------------------- MODULE AlertRows -------------------------------
(***************************************************************************)
(* The alert rows of the notification centre (server/notifications): per   *)
(* alert key at most one firing and one resolved row, by the unique index  *)
(* on (dedupeKey, status).  Severity, counts, read marks, summaries and    *)
(* outside channels are left out.                                          *)
(***************************************************************************)
EXTENDS Naturals

CONSTANT AlertKeys

VARIABLES
  firing,    \* keys with a firing row
  resolved   \* keys with a resolved row

alerts == <<firing, resolved>>

Record_OncePerKey(k) ==
  /\ firing' = IF k \in resolved THEN firing ELSE firing \cup {k}
  /\ UNCHANGED resolved

\* recordNotification: one upsert on (key, firing).
Record(k) ==
  /\ firing' = firing \cup {k}
  /\ UNCHANGED resolved

\* resolveAlerts, the statement that makes room: the resolved row of an
\* earlier incarnation goes.
DeleteResolved(k) ==
  /\ resolved' = resolved \ {k}
  /\ UNCHANGED firing

\* resolveAlerts, the statement that resolves.  If another resolver has left a
\* resolved row meanwhile, it violates the unique index and changes nothing.
FlipFiring(k) ==
  \/ /\ k \in firing /\ k \notin resolved
     /\ firing' = firing \ {k}
     /\ resolved' = resolved \cup {k}
  \/ /\ k \notin firing \/ k \in resolved
     /\ UNCHANGED alerts

AlertsInit == firing = {} /\ resolved = {}

AlertTypes == firing \subseteq AlertKeys /\ resolved \subseteq AlertKeys
=============================================================================
