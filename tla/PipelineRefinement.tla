------------------------- MODULE PipelineRefinement -------------------------
(***************************************************************************)
(* EventPipeline implements DeliveryContract while Redis answers, pops are *)
(* not split and no process is killed: inserts may fail, commits may go    *)
(* unanswered, runs may time out and overlap.                              *)
(***************************************************************************)
EXTENDS EventPipeline

\* A row outweighs a dead letter: an event whose commit went unanswered has both.
StageOf(e) ==
  CASE e \in ToSet(rows)                     -> "stored"
    [] e \in ToSet(dead) \ ToSet(rows)       -> "dead"
    [] e \in ToSet(queue)                    -> "buffered"
    [] \E r \in Runs : e \in Held(r) /\ e \notin ToSet(rows) \cup ToSet(dead)
                                             -> "taken"
    [] e \notin Accounted                    -> "absent"

Stage == [e \in Events |-> StageOf(e)]

Promise == INSTANCE DeliveryContract WITH stage <- Stage, acked <- Acked

\* The pipeline keeps the contract, its progress included: accepted events are
\* taken out once and settled for good (event_buffer.go:45-89,
\* event_processor.go:53-81).
KeepsContract == Promise!Contract
=============================================================================
