--------------------------- MODULE MCLivekitAgent ---------------------------
(***************************************************************************)
(* A small instance of LivekitAgent for TLC.                               *)
(***************************************************************************)
EXTENDS LivekitAgent, TLC

CONSTANTS g1, g2, d1, d2, ann, bob

Agent(name, ref) == [agentName |-> name, deploymentRef |-> ref]

State(replicas, available) == [replicas |-> replicas, available |-> available]

\* An agent that is moved between Deployments and renamed, and another one that shares its
\* first Deployment.
Moving == g1 :> {Agent(ann, d1), Agent(bob, d1), Agent(ann, d2), Agent(ann, Unset)}
            @@ g2 :> {Agent(bob, d1)}

\* One Deployment is scaled down, goes, and is back with a replica missing; the other one
\* comes, and is scaled to nothing.
Scaled == d1 :> <<State(2, 2), State(1, 2), Missing, State(2, 1)>>
            @@ d2 :> <<Missing, State(Unset, 1), State(0, 0)>>

\* Agents that stay while other things happen, and agents that are deleted and created again.
Scenarios == {[deletes |-> 0, events |-> 3], [deletes |-> 1, events |-> 1]}
=============================================================================
