----------------------------- MODULE MCAgentStore -----------------------------
\* A small instance of AgentStore: a root with a child and a grandchild, and a
\* second root, for one place fewer than there are sessions.
EXTENDS AgentStore

CONSTANTS a, b, c, g, startB, startC, startG, idleG, endA

MCSessions == {a, b, c, g}
MCParentOf == [x \in MCSessions |->
                 CASE x = c -> a [] x = g -> c [] OTHER -> None]
MCObs == {startB, startC, startG, idleG, endA}
MCSubjectOf == [o \in MCObs |->
                  CASE o = startB -> b [] o = startC -> c [] o \in {startG, idleG} -> g
                    [] o = endA -> a]
MCKindOf == [o \in MCObs |-> CASE o = endA -> "end" [] o = idleG -> "idle"
                              [] OTHER -> "start"]
MCEarly == {startB, endA}

\* A store with every place taken: what is below the root runs or has finished.
MCStored ==
  {[x \in MCSessions |-> CASE x = a -> "active" [] x = b -> "gone"
                           [] x = c -> "idle" [] x = g -> last]
     : last \in {"idle", "active"}}
=============================================================================
