------------------------------- MODULE MCBus -------------------------------
(* An instance of Bus for TLC, that of src/test/signal: listeners of one    *)
(* class, which has a member receive for EventA only and another member for *)
(* EventB, and a free function.                                             *)
EXTENDS Bus

Names == Permutations(Listeners)

ReceiveStub == [l \in Listeners |-> "receive"]

ReceivesEventA == [l \in Listeners |-> {"EventA"}]
============================================================================
