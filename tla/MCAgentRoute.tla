---------------------------- MODULE MCAgentRoute ----------------------------
(***************************************************************************)
(* A small instance of AgentRoute for TLC.                                 *)
(***************************************************************************)
EXTENDS AgentRoute, TLC

CONSTANTS r1, m1, m2, a1, ann, bob, i1, i2, i3, lobby

Route(name, ref, refs, individual, agents) ==
  [agentName |-> name, agentRef |-> ref, numberRefs |-> refs, individual |-> individual,
   agents |-> agents]

\* The route names its agent by reference; or by name, with one number and with settings
\* and agents of its own; or by mistake not at all.
ByReference ==
  r1 :> {Route(Unset, a1, {m1, m2}, Unset, Unset), Route(bob, Unset, {m1}, lobby, ann),
         Route(Unset, Unset, {m1, m2}, Unset, Unset)}

\* The agent may go, and comes back under another name, and not ready.
Agent(name, ready) == [agentName |-> name, ready |-> ready]

\* The numbers have a trunk, lose it, or go, and get another one.
Moving == m1 :> <<i1, NoTrunk, i2>> @@ m2 :> <<i3, Missing, i3>>
            @@ a1 :> <<Agent(ann, TRUE), Missing, Agent(bob, FALSE)>>

\* A route that stays while two other things happen, and one that is deleted and created again.
Scenarios == {[deletes |-> 0, events |-> 2, ghosts |-> 0],
              [deletes |-> 1, events |-> 0, ghosts |-> 1]}
=============================================================================
