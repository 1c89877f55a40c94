-------------------------- MODULE MCIngressPipeline --------------------------
(* Model-checking instances of IngressPipeline: the deliveries of an       *)
(* instance are one conversation, the case in which lock and order matter. *)
EXTENDS IngressPipeline, TLC

PerInstance ==
    CHOOSE f \in [Deliveries -> Keys] :
       \A d, e \in Deliveries : f[d] = f[e] <=> d.instance = e.instance

\* Deliveries of one provider, and of two providers that number theirs alike.
OneDelivery   == {[instance |-> "desk", id |-> "1"]}
TwoDeliveries == {[instance |-> "desk", id |-> "1"], [instance |-> "desk", id |-> "2"]}
SameIds       == {[instance |-> "desk", id |-> "1"], [instance |-> "shop", id |-> "1"]}

Symm == Permutations(Calls) \cup Permutations(Rows)

=============================================================================
