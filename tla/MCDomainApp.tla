------------------------------ MODULE MCDomainApp ------------------------------
(* DomainApp with two agents and two requests that may meet at every await,
   and two faults: a step that fails and a crash while the next request repairs it. *)
EXTENDS DomainApp
=============================================================================
