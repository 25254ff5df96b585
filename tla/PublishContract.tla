--------------------------- MODULE PublishContract ---------------------------
(***************************************************************************)
(* What em.publish promises its callers, without saying how: a call is     *)
(* opened for an upstream event (or for none), it may put its event on the *)
(* bus while it is open, and it is answered once.  EventGateway implements *)
(* this contract (see MCEventGateway and EventGatewayProofs).              *)
(***************************************************************************)
CONSTANTS
  Calls,   \* invocations of em.publish
  Keys,    \* external event ids (RAAS event_id)
  NoKey    \* a call without an external event id

VARIABLES
  opened,  \* calls that were made
  key,     \* key[c]: the external event id call c carries
  answer,  \* answer[c]: what call c was told, "none" until then
  bus      \* ids of the messages the bus has accepted

contractVars == <<opened, key, answer, bus>>

Definitive == {"accepted", "passthrough", "schema", "no_schema"}
Forwarded  == {"accepted", "passthrough"}
Answers    == Definitive \cup {"duplicate", "em_degraded"}

\* The id under which the gateway forwards the event of call c, and the ids
\* its fallback may use when the event has no upstream id.
MainId(c) == IF key[c] # NoKey THEN <<"key", key[c]>> ELSE <<"event", c>>
Ids(c)    == IF key[c] # NoKey THEN {<<"key", key[c]>>}
                               ELSE {<<"event", c>>, <<"uuid", c>>}

Init ==
  /\ opened = {}
  /\ key    = [c \in Calls |-> NoKey]
  /\ answer = [c \in Calls |-> "none"]
  /\ bus    = {}

Open(c) ==
  /\ c \notin opened
  /\ opened' = opened \cup {c}
  /\ \E k \in Keys \cup {NoKey} : key' = [key EXCEPT ![c] = k]
  /\ UNCHANGED <<answer, bus>>

\* A second definitive answer about one upstream event is never given.
FirstVerdict(c) ==
  \A d \in Calls : d # c /\ key[c] # NoKey /\ key[d] = key[c]
                     => answer[d] \notin Definitive

MayAnswer(c, r) ==
  /\ r \in Forwarded => MainId(c) \in bus'
  /\ r \in Definitive => FirstVerdict(c)

\* An open call may publish under one of its ids, be answered, or both.
Act(c) ==
  /\ c \in opened
  /\ answer[c] = "none"
  /\ bus' = bus \/ \E id \in Ids(c) : bus' = bus \cup {id}
  /\ \/ answer' = answer
     \/ \E r \in Answers : /\ MayAnswer(c, r)
                           /\ answer' = [answer EXCEPT ![c] = r]
  /\ UNCHANGED <<opened, key>>

Next == \E c \in Calls : Open(c) \/ Act(c)

Contract == Init /\ [][Next]_contractVars
=============================================================================
