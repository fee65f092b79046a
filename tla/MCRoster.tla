------------------------------ MODULE MCRoster ------------------------------
(***************************************************************************)
(* Small instances of Roster for TLC.                                      *)
(***************************************************************************)
EXTENDS Roster

CONSTANTS g1, g2, s11, s12, s21

\* g1 has two streams, the one it reads and the one it left behind; g2 has one.
TwoOne == [s \in Streams |-> IF s \in {s11, s12} THEN g1 ELSE g2]

\* No node is disabled or in maintenance at first.
Clean == {[revoked |-> {}, maintenance |-> {}]}

\* The runs start in a state that Init leads to: every replica has joined and
\* has the roster that says so, and an Agent starts with its seeds.  What the
\* Registry and the replicas do with nobody joined follows a RegistryRestart.
Reads(g) == IF g = g1 THEN s11 ELSE s21

Full(l) == [version |-> 3, listed |-> [g \in Replicas |-> "active"],
            revoked |-> l.revoked, maintenance |-> l.maintenance]

AllJoined ==
    /\ ledger \in Ledgers
    /\ admin    = [d \in Admins |-> Done]
    /\ registry = [version |-> 3, listed |-> Full(ledger).listed,
                   revoked |-> ledger.revoked, maintenance |-> ledger.maintenance,
                   owner |-> [g \in Replicas |-> Reads(g)]]
    /\ stream   = [s \in Streams |-> IF s = Reads(ReplicaOf[s])
                                     THEN [Free EXCEPT !.pc = "joined", !.latest = Full(ledger)]
                                     ELSE Free]
    /\ casts    = {}
    /\ gateway  = [g \in Replicas |-> [up |-> TRUE, at |-> Reads(g), roster |-> Full(ledger)]]
    /\ agent    = [version |-> 0,
                   entries |-> [g \in Replicas |-> IF g \in Seeds THEN "active" ELSE "none"]]
    /\ overtaken = {}
    /\ disturbances = 0

RunningSpec == AllJoined /\ [][Next]_vars /\ Fairness
=============================================================================
