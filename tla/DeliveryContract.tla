-------------------------- MODULE DeliveryContract --------------------------
(***************************************************************************)
(* What the service promises a client, event by event, with no queue, no   *)
(* batch size, no lock and no retry: an acknowledged event was accepted,   *)
(* is taken out of the buffer once, and ends in the table or among the     *)
(* dead letters.  A stored event is never anything else again.             *)
(***************************************************************************)
CONSTANT Events

VARIABLES
  stage,  \* stage[e]: how far event e has come
  acked   \* the events of the requests answered 200

contractVars == <<stage, acked>>

Stages == {"absent", "buffered", "taken", "stored", "dead"}

ContractInit == stage = [e \in Events |-> "absent"] /\ acked = {}

\* All of S leaves one stage for another in one step.
Advance(S, from, to) ==
  /\ S # {} /\ \A e \in S : stage[e] = from
  /\ stage' = [e \in Events |-> IF e \in S THEN to ELSE stage[e]]
  /\ UNCHANGED acked

Accept(e) == Advance({e}, "absent", "buffered")
Take(S)   == Advance(S, "buffered", "taken")
Store(S)  == Advance(S, "taken", "stored")
Bury(e)   == Advance({e}, "taken", "dead")

\* An answer to a request, all of whose events S were accepted.
Acknowledge(S) ==
  /\ \A e \in S : stage[e] # "absent"
  /\ acked' = acked \cup S
  /\ UNCHANGED stage

ContractNext ==
  \/ \E e \in Events : Accept(e) \/ Bury(e)
  \/ \E S \in SUBSET Events : Take(S) \/ Store(S) \/ Acknowledge(S)

\* An accepted event is taken, and a taken one is stored or buried.
ContractFairness ==
  \A e \in Events :
    /\ WF_contractVars(\E S \in SUBSET Events : e \in S /\ Take(S))
    /\ WF_contractVars(Bury(e) \/ \E S \in SUBSET Events : e \in S /\ Store(S))

ContractSteps == ContractInit /\ [][ContractNext]_contractVars

Contract == ContractSteps /\ ContractFairness
=============================================================================
