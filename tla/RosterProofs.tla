---------------------------- MODULE RosterProofs ----------------------------
(***************************************************************************)
(* The roster on its way, for any number of replicas, streams and nodes,   *)
(* and any number of operator calls and disturbances.                      *)
(***************************************************************************)
EXTENDS Roster, TLAPS

Copies == [version : Nat, listed : States, revoked : SUBSET Nodes, maintenance : SUBSET Nodes]
Todos  == {<< >>, <<"revoked">>, <<"maintenance">>, <<"revoked", "maintenance">>}

RegistryState == [version : Nat, listed : States, revoked : SUBSET Nodes,
                  maintenance : SUBSET Nodes, owner : [Replicas -> Streams \cup {NoStream}]]
StreamState   == [pc : {"free", "opening", "joined"}, cut : BOOLEAN, notice : BOOLEAN,
                  latest : Copies \cup {NoRoster}]
ReplicaState  == [up : BOOLEAN, at : Streams \cup {NoStream}, roster : Copies \cup {NoRoster}]
AdminState    == [todo : Todos, read : BOOLEAN, ids : SUBSET Nodes]

Types ==
    /\ ledger \in [revoked : SUBSET Nodes, maintenance : SUBSET Nodes]
    /\ admin \in [Admins -> AdminState]
    /\ \A d \in Admins : admin[d].read => admin[d].todo # << >>
    /\ registry \in RegistryState
    /\ stream \in [Streams -> StreamState]
    /\ casts \in SUBSET (Streams \X Copies)
    /\ gateway \in [Replicas -> ReplicaState]

\* A replica reads a stream of its own that is not broken; offers are made to
\* joined streams only, and only a joined stream has something to send.
Placed ==
    /\ \A g \in Replicas :
        LET s == gateway[g].at
        IN  s # NoStream => ReplicaOf[s] = g /\ ~stream[s].cut /\ stream[s].pc # "free"
    /\ \A c \in casts : stream[c[1]].pc = "joined" /\ ~stream[c[1]].cut
    /\ \A s \in Streams :
        /\ stream[s].pc # "joined" \/ stream[s].cut => stream[s].latest = NoRoster
        /\ stream[s].pc = "free" => ~stream[s].cut

\* No copy is ahead of the Registry.
NotAhead ==
    /\ \A c \in casts : c[2].version <= registry.version
    /\ \A s \in Streams : stream[s].latest # NoRoster => stream[s].latest.version <= registry.version
    /\ \A g \in Replicas :
        gateway[g].roster # NoRoster => gateway[g].roster.version <= registry.version

\* What the stream a replica reads has for it is not older than what it has:
\* its latest, or, before there is one, every offer still to be made.
Fresh ==
    \A g \in Replicas :
        LET s == gateway[g].at
        IN  s # NoStream /\ gateway[g].roster # NoRoster =>
              /\ stream[s].latest # NoRoster =>
                    stream[s].latest.version >= gateway[g].roster.version
              /\ stream[s].latest = NoRoster =>
                    \A c \in casts : c[1] = s => c[2].version >= gateway[g].roster.version

\* The inductive invariant of the copies.
RosterInv == Types /\ Placed /\ NotAhead /\ Fresh

-----------------------------------------------------------------------------
(* Lemmas.                                                                 *)

\* A change is one version later and copied as it is.
LEMMA ChangeCopies ==
    ASSUME NEW next \in RegistryState
    PROVE  LET b == [next EXCEPT !.version = @ + 1]
           IN  b \in RegistryState /\ b.version = next.version + 1
               /\ snapshot(b) \in Copies /\ snapshot(b).version = next.version + 1
BY DEF RegistryState, Copies, snapshot

\* The sets an operator call pushes.
LEMMA PushedSet ==
    ASSUME Types, NEW d \in Admins, admin[d].read
    PROVE  LET n == [registry EXCEPT ![Head(admin[d].todo)] = admin[d].ids]
           IN  n \in RegistryState /\ n.version = registry.version
               /\ n.owner = registry.owner /\ n.listed = registry.listed
<1>1. admin[d].ids \in SUBSET Nodes /\ admin[d].todo \in Todos \ {<< >>}
  BY DEF Types, AdminState
<1>2. Head(admin[d].todo) = "revoked" \/ Head(admin[d].todo) = "maintenance"
  BY <1>1 DEF Todos
<1>3. registry \in RegistryState BY DEF Types
<1>4. CASE Head(admin[d].todo) = "revoked" BY <1>1, <1>3, <1>4 DEF RegistryState
<1>5. CASE Head(admin[d].todo) = "maintenance" BY <1>1, <1>3, <1>5 DEF RegistryState
<1> QED BY <1>2, <1>4, <1>5

\* A change of the Registry: the new copies are ahead of all others, and the
\* streams it is offered to are joined.
LEMMA ChangeKeeps ==
    ASSUME RosterInv, NEW next \in RegistryState, next.version = registry.version,
           NEW targets \in SUBSET Streams, Change(next, targets),
           UNCHANGED gateway, \A s \in Streams : stream'[s].latest = stream[s].latest
    PROVE  /\ registry' \in RegistryState /\ casts' \in SUBSET (Streams \X Copies)
           /\ \A c \in casts' : c \in casts \/ c[1] \in targets
           /\ NotAhead' /\ Fresh'
<1>0. Types /\ Placed /\ NotAhead /\ Fresh BY DEF RosterInv
<1> DEFINE b == [next EXCEPT !.version = @ + 1]
<1>1. /\ b \in RegistryState /\ b.version = next.version + 1
      /\ snapshot(b) \in Copies /\ snapshot(b).version = next.version + 1
  BY ChangeCopies
<1>2. registry' = b /\ casts' = casts \cup (targets \X {snapshot(b)}) BY DEF Change
<1>3. registry.version \in Nat /\ registry'.version = registry.version + 1
  BY <1>0, <1>1, <1>2 DEF Types, RegistryState
<1> DEFINE x == snapshot(b)
<1>4. x.version = registry.version + 1 /\ x \in Copies BY <1>1
<1>5. casts' = casts \cup (targets \X {x}) BY <1>2
<1> HIDE DEF b, x
<1>6. \A c \in casts' : c \in casts \/ (c[1] \in targets /\ c[2] = x)
  BY <1>5
<1>7. casts' \in SUBSET (Streams \X Copies) BY <1>0, <1>4, <1>5 DEF Types
<1>8. /\ \A c \in casts : c[2].version \in Nat
      /\ \A s \in Streams : stream[s].latest # NoRoster => stream[s].latest.version \in Nat
      /\ \A g \in Replicas : gateway[g].roster # NoRoster => gateway[g].roster.version \in Nat
  BY <1>0 DEF Types, StreamState, ReplicaState, Copies
<1>9. NotAhead' BY <1>0, <1>3, <1>4, <1>6, <1>8 DEF NotAhead
<1>10. Fresh'
  <2>1. \A g \in Replicas : gateway[g].roster # NoRoster => x.version >= gateway[g].roster.version
    BY <1>0, <1>3, <1>4, <1>8 DEF NotAhead
  <2>2. \A g \in Replicas : gateway[g].at \in Streams \cup {NoStream}
    BY <1>0 DEF Types, ReplicaState
  <2> QED BY <1>0, <1>6, <2>1, <2>2 DEF Fresh
<1> QED BY <1>1, <1>2, <1>6, <1>7, <1>9, <1>10

-----------------------------------------------------------------------------
(* The steps.                                                              *)

LEMMA InitHolds == Init => RosterInv
<1> SUFFICES ASSUME Init PROVE RosterInv OBVIOUS
<1>1. Types
  <2>1. Done \in AdminState /\ ~Done.read BY DEF Done, AdminState, Todos
  <2>2. Free \in StreamState BY DEF Free, StreamState
  <2>3. Unlisted \in States BY DEF Unlisted, States
  <2>4. ledger \in [revoked : SUBSET Nodes, maintenance : SUBSET Nodes]
    BY RosterAssumption DEF Init
  <2>5. registry \in RegistryState BY <2>3, <2>4 DEF Init, RegistryState
  <2>6. gateway \in [Replicas -> ReplicaState] BY DEF Init, ReplicaState
  <2> QED BY <2>1, <2>2, <2>4, <2>5, <2>6 DEF Init, Types
<1>2. Placed BY DEF Init, Placed, Free
<1>3. NotAhead BY DEF Init, NotAhead, Free
<1>4. Fresh BY DEF Init, Fresh
<1> QED BY <1>1, <1>2, <1>3, <1>4 DEF RosterInv

\* A stream takes its replica over.
LEMMA joinKeeps ==
    ASSUME RosterInv, NEW s \in Streams, join(s)
    PROVE  RosterInv'
<1>0. Types /\ Placed /\ NotAhead /\ Fresh BY DEF RosterInv
<1> DEFINE g == ReplicaOf[s]
           next == [registry EXCEPT !.owner[g] = s, !.listed[g] = "active"]
<1>1. /\ stream[s].pc = "opening" /\ stream' = [stream EXCEPT ![s].pc = "joined"]
      /\ Change(next, Reading(Joined \cup {s}))
      /\ UNCHANGED <<ledger, admin, gateway, agent, disturbances>>
  BY DEF join
<1>2. g \in Replicas BY RosterAssumption
<1>3. next \in RegistryState /\ next.version = registry.version
  BY <1>0, <1>2 DEF Types, RegistryState, States
<1>4. /\ stream' \in [Streams -> StreamState]
      /\ \A t \in Streams : /\ stream'[t].latest = stream[t].latest
                            /\ stream'[t].cut = stream[t].cut
                            /\ stream'[t].pc = IF t = s THEN "joined" ELSE stream[t].pc
  BY <1>0, <1>1 DEF Types, StreamState
<1> DEFINE T == Reading(Joined \cup {s})
<1>5. T \in SUBSET Streams /\ \A t \in T : stream'[t].pc = "joined" /\ ~stream'[t].cut
  BY <1>4 DEF Reading, Joined
<1> HIDE DEF T, next, g
<1>6. /\ registry' \in RegistryState /\ casts' \in SUBSET (Streams \X Copies)
      /\ \A c \in casts' : c \in casts \/ c[1] \in T
      /\ NotAhead' /\ Fresh'
  BY <1>1, <1>3, <1>4, <1>5, ChangeKeeps DEF T
<1>7. Placed'
  <2>1. \A c \in casts : c[1] \in Streams BY <1>0 DEF Types
  <2>2. \A h \in Replicas : gateway[h].at \in Streams \cup {NoStream}
    BY <1>0 DEF Types, ReplicaState
  <2>3. \A t \in Streams : stream'[t].pc # "joined" \/ stream'[t].cut => stream'[t].latest = NoRoster
    BY <1>0, <1>4 DEF Placed
  <2>4. \A c \in casts' : stream'[c[1]].pc = "joined" /\ ~stream'[c[1]].cut
    BY <1>0, <1>4, <1>5, <1>6, <2>1 DEF Placed
  <2> QED BY <1>0, <1>1, <1>4, <2>2, <2>3, <2>4 DEF Placed
<1>8. Types' BY <1>0, <1>1, <1>4, <1>6 DEF Types
<1> QED BY <1>6, <1>7, <1>8 DEF RosterInv

\* A broken stream is refused.
LEMMA RefuseKeeps ==
    ASSUME RosterInv, NEW s \in Streams, Refuse(s)
    PROVE  RosterInv'
<1>0. Types /\ Placed /\ NotAhead /\ Fresh BY DEF RosterInv
<1>1. /\ stream[s].pc = "opening" /\ stream[s].cut /\ stream' = [stream EXCEPT ![s] = Free]
      /\ UNCHANGED <<ledger, admin, registry, casts, gateway>>
  BY DEF Refuse
<1>2. Free \in StreamState /\ Free.latest = NoRoster /\ Free.pc = "free" /\ ~Free.cut
  BY DEF Free, StreamState
<1>3. stream[s].latest = NoRoster BY <1>0, <1>1 DEF Placed
<1>4. \A t \in Streams : /\ t # s => stream'[t] = stream[t]
                         /\ stream'[t].latest = stream[t].latest
  BY <1>0, <1>1, <1>2, <1>3 DEF Types
<1>5. /\ \A c \in casts : c[1] \in Streams /\ c[1] # s
      /\ \A h \in Replicas : gateway[h].at \in Streams \cup {NoStream} /\ gateway[h].at # s
  BY <1>0, <1>1, RosterAssumption DEF Types, ReplicaState, Placed
<1>6. stream'[s] = Free BY <1>0, <1>1 DEF Types
<1>7. Types' BY <1>0, <1>1, <1>2 DEF Types
<1>8. Placed' BY <1>0, <1>1, <1>2, <1>4, <1>5, <1>6 DEF Placed
<1>9. NotAhead' BY <1>0, <1>1, <1>4 DEF NotAhead
<1>10. Fresh' BY <1>0, <1>1, <1>4, <1>5 DEF Fresh
<1> QED BY <1>7, <1>8, <1>9, <1>10 DEF RosterInv

\* A DRAINING notice arrives.
LEMMA updateStateKeeps ==
    ASSUME RosterInv, NEW s \in Streams, updateState(s)
    PROVE  RosterInv'
<1>0. Types /\ Placed /\ NotAhead /\ Fresh BY DEF RosterInv
<1> DEFINE g == ReplicaOf[s]
           next == [registry EXCEPT !.listed[g] = "draining"]
<1>1. /\ stream[s].pc = "joined" /\ stream' = [stream EXCEPT ![s].notice = FALSE]
      /\ Change(next, Reading(Joined)) \/ UNCHANGED <<registry, casts>>
      /\ UNCHANGED <<ledger, admin, gateway, agent, disturbances>>
  BY DEF updateState
<1>2. g \in Replicas BY RosterAssumption
<1>3. next \in RegistryState /\ next.version = registry.version
  BY <1>0, <1>2 DEF Types, RegistryState, States
<1>4. /\ stream' \in [Streams -> StreamState]
      /\ \A t \in Streams : /\ stream'[t].latest = stream[t].latest
                            /\ stream'[t].cut = stream[t].cut /\ stream'[t].pc = stream[t].pc
  BY <1>0, <1>1 DEF Types, StreamState
<1> DEFINE T == Reading(Joined)
<1>5. T \in SUBSET Streams /\ \A t \in T : stream'[t].pc = "joined" /\ ~stream'[t].cut
  BY <1>4 DEF Reading, Joined
<1>6. /\ \A c \in casts : c[1] \in Streams
      /\ \A h \in Replicas : gateway[h].at \in Streams \cup {NoStream}
  BY <1>0 DEF Types, ReplicaState
<1> HIDE DEF T, next, g
<1>7. CASE Change(next, T)
  <2>1. /\ registry' \in RegistryState /\ casts' \in SUBSET (Streams \X Copies)
        /\ \A c \in casts' : c \in casts \/ c[1] \in T
        /\ NotAhead' /\ Fresh'
    BY <1>1, <1>3, <1>4, <1>5, <1>7, ChangeKeeps
  <2>2. \A c \in casts' : stream'[c[1]].pc = "joined" /\ ~stream'[c[1]].cut
    BY <1>0, <1>4, <1>5, <1>6, <2>1 DEF Placed
  <2>3. Placed' BY <1>0, <1>1, <1>4, <1>6, <2>2 DEF Placed
  <2>4. Types' BY <1>0, <1>1, <1>4, <2>1 DEF Types
  <2> QED BY <2>1, <2>3, <2>4 DEF RosterInv
<1>8. CASE UNCHANGED <<registry, casts>>
  <2>1. Types' BY <1>0, <1>1, <1>4, <1>8 DEF Types
  <2>2. Placed' BY <1>0, <1>1, <1>4, <1>6, <1>8 DEF Placed
  <2>3. NotAhead' BY <1>0, <1>1, <1>4, <1>8 DEF NotAhead
  <2>4. Fresh' BY <1>0, <1>1, <1>4, <1>6, <1>8 DEF Fresh
  <2> QED BY <2>1, <2>2, <2>3, <2>4 DEF RosterInv
<1> QED BY <1>1, <1>7, <1>8 DEF T

\* A stream leaves.
LEMMA leaveKeeps ==
    ASSUME RosterInv, NEW s \in Streams, leave(s)
    PROVE  RosterInv'
<1>0. Types /\ Placed /\ NotAhead /\ Fresh BY DEF RosterInv
<1> DEFINE next == Without(ReplicaOf[s])
<1>1. /\ stream[s].pc = "joined" /\ stream[s].cut /\ stream' = [stream EXCEPT ![s] = Free]
      /\ Change(next, Reading(Joined)) \/ UNCHANGED <<registry, casts>>
      /\ UNCHANGED <<ledger, admin, gateway, agent, disturbances>>
  BY DEF leave
<1>2. next \in RegistryState /\ next.version = registry.version
  <2>1. ReplicaOf[s] \in Replicas BY RosterAssumption
  <2> QED BY <1>0, <2>1 DEF Types, RegistryState, States, Without
<1>3. Free \in StreamState /\ Free.latest = NoRoster /\ Free.pc = "free" /\ ~Free.cut
  BY DEF Free, StreamState
<1>4. stream[s].latest = NoRoster BY <1>0, <1>1 DEF Placed
<1>5. /\ stream' \in [Streams -> StreamState] /\ stream'[s] = Free
      /\ \A t \in Streams : /\ t # s => stream'[t] = stream[t]
                            /\ stream'[t].latest = stream[t].latest
  BY <1>0, <1>1, <1>3, <1>4 DEF Types
<1> DEFINE T == Reading(Joined)
<1>6. T \in SUBSET Streams /\ \A t \in T : stream'[t].pc = "joined" /\ ~stream'[t].cut
  BY <1>1, <1>5 DEF Reading, Joined
<1>7. /\ \A c \in casts : c[1] \in Streams /\ c[1] # s
      /\ \A h \in Replicas : gateway[h].at \in Streams \cup {NoStream} /\ gateway[h].at # s
  BY <1>0, <1>1, RosterAssumption DEF Types, ReplicaState, Placed
<1> HIDE DEF T, next
<1>8. CASE Change(next, T)
  <2>1. /\ registry' \in RegistryState /\ casts' \in SUBSET (Streams \X Copies)
        /\ \A c \in casts' : c \in casts \/ c[1] \in T
        /\ NotAhead' /\ Fresh'
    BY <1>1, <1>2, <1>5, <1>6, <1>8, ChangeKeeps
  <2>2. \A c \in casts' : stream'[c[1]].pc = "joined" /\ ~stream'[c[1]].cut
    BY <1>0, <1>5, <1>6, <1>7, <2>1 DEF Placed
  <2>3. Placed' BY <1>0, <1>1, <1>3, <1>5, <1>7, <2>2 DEF Placed
  <2>4. Types' BY <1>0, <1>1, <1>5, <2>1 DEF Types
  <2> QED BY <2>1, <2>3, <2>4 DEF RosterInv
<1>9. CASE UNCHANGED <<registry, casts>>
  <2>1. Types' BY <1>0, <1>1, <1>5, <1>9 DEF Types
  <2>2. Placed' BY <1>0, <1>1, <1>3, <1>5, <1>7, <1>9 DEF Placed
  <2>3. NotAhead' BY <1>0, <1>1, <1>5, <1>9 DEF NotAhead
  <2>4. Fresh' BY <1>0, <1>1, <1>5, <1>7, <1>9 DEF Fresh
  <2> QED BY <2>1, <2>2, <2>3, <2>4 DEF RosterInv
<1> QED BY <1>1, <1>8, <1>9 DEF T

\* An offer is made: only a newer copy replaces the latest.
LEMMA offerKeeps ==
    ASSUME RosterInv, NEW s \in Streams, offer(s)
    PROVE  RosterInv'
<1>0. Types /\ Placed /\ NotAhead /\ Fresh BY DEF RosterInv
<1>1. PICK c \in casts :
        /\ c[1] = s /\ casts' = casts \ {c}
        /\ stream' = [stream EXCEPT ![s].latest = IF Newer(@, c[2]) THEN c[2] ELSE @]
        /\ UNCHANGED <<ledger, admin, registry, gateway>>
  BY DEF offer
<1>2. c[2] \in Copies /\ stream[s].pc = "joined" /\ ~stream[s].cut
  BY <1>0, <1>1 DEF Types, Placed
<1> DEFINE v == IF Newer(stream[s].latest, c[2]) THEN c[2] ELSE stream[s].latest
<1>3. v \in Copies \cup {NoRoster} BY <1>0, <1>2 DEF Types, StreamState
<1>4. stream' = [stream EXCEPT ![s].latest = v] BY <1>1
<1>5. v = c[2] \/ v = stream[s].latest OBVIOUS
<1>6. stream[s].latest # NoRoster => v # NoRoster /\ v.version >= stream[s].latest.version
  <2>1. NoRoster \notin Copies BY RosterAssumption DEF Copies, States
  <2>2. /\ c[2].version \in Nat
        /\ stream[s].latest # NoRoster => stream[s].latest.version \in Nat
    BY <1>0, <1>2 DEF Types, StreamState, Copies
  <2> QED BY <1>2, <2>1, <2>2 DEF Newer
<1>7. stream[s].latest = NoRoster => v = c[2] BY DEF Newer
<1> HIDE DEF v
<1>8. /\ stream' \in [Streams -> StreamState]
      /\ \A t \in Streams : /\ stream'[t].pc = stream[t].pc /\ stream'[t].cut = stream[t].cut
                            /\ stream'[t].latest = IF t = s THEN v ELSE stream[t].latest
  BY <1>0, <1>3, <1>4 DEF Types, StreamState
<1>9. /\ \A x \in casts : x[1] \in Streams
      /\ \A h \in Replicas : gateway[h].at \in Streams \cup {NoStream}
  BY <1>0 DEF Types, ReplicaState
<1>10. Types' BY <1>0, <1>1, <1>8 DEF Types
<1>11. Placed' BY <1>0, <1>1, <1>2, <1>8, <1>9 DEF Placed
<1>12. NotAhead' BY <1>0, <1>1, <1>5, <1>8 DEF NotAhead
<1>13. Fresh'
  <2> SUFFICES ASSUME NEW g \in Replicas, gateway[g].at # NoStream, gateway[g].roster # NoRoster
               PROVE  LET t == gateway[g].at
                      IN  /\ stream'[t].latest # NoRoster =>
                                stream'[t].latest.version >= gateway[g].roster.version
                          /\ stream'[t].latest = NoRoster =>
                                \A x \in casts' : x[1] = t => x[2].version >= gateway[g].roster.version
    BY <1>1 DEF Fresh
  <2>1. CASE gateway[g].at # s BY <1>0, <1>1, <1>8, <1>9, <2>1 DEF Fresh
  <2>2. CASE gateway[g].at = s
    <3>1. /\ gateway[g].roster.version \in Nat /\ c[2].version \in Nat
          /\ stream[s].latest # NoRoster => stream[s].latest.version \in Nat
      BY <1>0, <1>2 DEF Types, ReplicaState, StreamState, Copies
    <3>2. NoRoster \notin Copies BY RosterAssumption DEF Copies, States
    <3>3. CASE stream[s].latest = NoRoster
      BY <1>0, <1>1, <1>2, <1>7, <1>8, <2>2, <3>1, <3>2, <3>3 DEF Fresh
    <3>4. CASE stream[s].latest # NoRoster
      <4>1. stream[s].latest.version >= gateway[g].roster.version BY <1>0, <2>2, <3>4 DEF Fresh
      <4>2. v # NoRoster /\ v.version >= stream[s].latest.version /\ v.version \in Nat
        BY <1>2, <1>5, <1>6, <3>1, <3>2, <3>4
      <4> QED BY <1>8, <2>2, <3>1, <3>4, <4>1, <4>2
    <3> QED BY <3>3, <3>4
  <2> QED BY <2>1, <2>2
<1> QED BY <1>10, <1>11, <1>12, <1>13 DEF RosterInv

\* A stream's sender hands its latest to the replica that reads it.
LEMMA runKeeps ==
    ASSUME RosterInv, NEW s \in Streams, run(s)
    PROVE  RosterInv'
<1>0. Types /\ Placed /\ NotAhead /\ Fresh BY DEF RosterInv
<1> DEFINE g == ReplicaOf[s]
<1>1. /\ stream[s].pc = "joined" /\ gateway[g].at = s /\ stream[s].latest # NoRoster
      /\ gateway' = [gateway EXCEPT ![g].roster = stream[s].latest]
      /\ UNCHANGED <<ledger, admin, registry, stream, casts>>
  BY DEF run
<1>2. g \in Replicas BY RosterAssumption
<1>3. /\ gateway' \in [Replicas -> ReplicaState]
      /\ \A h \in Replicas : /\ gateway'[h].at = gateway[h].at
                             /\ gateway'[h].roster = IF h = g THEN stream[s].latest
                                                     ELSE gateway[h].roster
  BY <1>0, <1>1, <1>2, ZenonT(40) DEF Types, ReplicaState, StreamState
<1>4. stream[s].latest.version \in Nat BY <1>0, <1>1 DEF Types, StreamState, Copies
<1> HIDE DEF g
<1>5. Types' BY <1>0, <1>1, <1>3 DEF Types
<1>6. Placed' BY <1>0, <1>1, <1>3 DEF Placed
<1>7. NotAhead' BY <1>0, <1>1, <1>3 DEF NotAhead
<1>8. Fresh' BY <1>0, <1>1, <1>3, <1>4 DEF Fresh
<1> QED BY <1>5, <1>6, <1>7, <1>8 DEF RosterInv

\* The Registry starts again: every stream is gone, the version goes on.
LEMMA RegistryRestartKeeps ==
    ASSUME RosterInv, RegistryRestart
    PROVE  RosterInv'
<1>0. Types /\ Placed /\ NotAhead /\ Fresh BY DEF RosterInv
<1>1. /\ registry' = Restarted /\ admin' = [d \in Admins |-> Done]
      /\ stream' = [s \in Streams |-> Free] /\ casts' = {}
      /\ gateway' = [g \in Replicas |-> [gateway[g] EXCEPT !.at = NoStream]]
      /\ UNCHANGED ledger
  BY DEF RegistryRestart
<1>2. Unlisted \in States BY DEF Unlisted, States
<1>3. registry' \in RegistryState /\ registry'.version = registry.version + 1
  <2>1. [g \in Replicas |-> NoStream] \in [Replicas -> Streams \cup {NoStream}] OBVIOUS
  <2>2. /\ registry \in RegistryState
        /\ ledger.revoked \in SUBSET Nodes /\ ledger.maintenance \in SUBSET Nodes
    BY <1>0 DEF Types
  <2> DEFINE none == [g \in Replicas |-> NoStream]
  <2>3. registry' = [registry EXCEPT !.version = @ + 1, !.listed = Unlisted,
                                     !.revoked = ledger.revoked,
                                     !.maintenance = ledger.maintenance, !.owner = none]
    BY <1>1 DEF Restarted
  <2> HIDE DEF none
  <2>4. none \in [Replicas -> Streams \cup {NoStream}] BY <2>1 DEF none
  <2>5. PICK R \in SUBSET Nodes, M \in SUBSET Nodes :
          registry' = [registry EXCEPT !.version = @ + 1, !.listed = Unlisted,
                                       !.revoked = R, !.maintenance = M, !.owner = none]
    BY <2>2, <2>3
  <2>6. registry' = [version |-> registry.version + 1, listed |-> Unlisted, revoked |-> R,
                     maintenance |-> M, owner |-> none]
    BY <2>2, <2>5 DEF RegistryState
  <2>7. registry.version + 1 \in Nat BY <2>2 DEF RegistryState
  <2> QED BY <1>2, <2>4, <2>6, <2>7 DEF RegistryState
<1>4. Done \in AdminState /\ ~Done.read BY DEF Done, AdminState, Todos
<1>5. Free \in StreamState /\ Free.latest = NoRoster /\ ~Free.cut BY DEF Free, StreamState
<1>6. /\ gateway' \in [Replicas -> ReplicaState]
      /\ \A g \in Replicas : gateway'[g].at = NoStream /\ gateway'[g].roster = gateway[g].roster
  BY <1>0, <1>1 DEF Types, ReplicaState
<1>7. Types' BY <1>0, <1>1, <1>3, <1>4, <1>5, <1>6 DEF Types
<1>8. Placed' BY <1>1, <1>5, <1>6 DEF Placed
<1>9. NotAhead'
  <2>1. \A g \in Replicas : gateway[g].roster # NoRoster =>
            gateway[g].roster.version \in Nat /\ gateway[g].roster.version <= registry.version
    BY <1>0 DEF Types, ReplicaState, Copies, NotAhead
  <2>2. registry.version \in Nat BY <1>0 DEF Types, RegistryState
  <2>3. casts' = {} /\ \A s \in Streams : stream'[s].latest = NoRoster BY <1>1, <1>5
  <2>4. \A g \in Replicas : gateway'[g].roster # NoRoster =>
            gateway'[g].roster.version <= registry'.version
    BY <1>3, <1>6, <2>1, <2>2
  <2> QED BY <2>3, <2>4 DEF NotAhead
<1>10. Fresh' BY <1>6 DEF Fresh
<1> QED BY <1>7, <1>8, <1>9, <1>10 DEF RosterInv

\* A step that leaves the rosters and the streams alone.
LEMMA AloneKeeps ==
    ASSUME RosterInv, UNCHANGED <<registry, stream, casts, gateway>>,
           ledger' \in [revoked : SUBSET Nodes, maintenance : SUBSET Nodes],
           admin' \in [Admins -> AdminState],
           \A d \in Admins : admin'[d].read => admin'[d].todo # << >>
    PROVE  RosterInv'
<1>0. Types /\ Placed /\ NotAhead /\ Fresh BY DEF RosterInv
<1>1. Types' BY <1>0 DEF Types
<1> QED BY <1>0, <1>1 DEF RosterInv, Placed, NotAhead, Fresh

\* An operator call writes the ledger.
LEMMA BeginKeeps ==
    ASSUME RosterInv, NEW d \in Admins, NEW todo \in Todos \ {<< >>},
           NEW new \in [revoked : SUBSET Nodes, maintenance : SUBSET Nodes], Begin(d, new, todo)
    PROVE  RosterInv'
<1>0. Types /\ Placed /\ NotAhead /\ Fresh BY DEF RosterInv
<1>1. /\ admin[d] = Done /\ ledger' = new /\ admin' = [admin EXCEPT ![d].todo = todo]
      /\ UNCHANGED <<registry, stream, casts, gateway>>
  BY DEF Begin
<1>2. admin' \in [Admins -> AdminState] /\ \A e \in Admins : admin'[e].read => admin'[e].todo # << >>
  BY <1>0, <1>1 DEF Types, AdminState, Done
<1> QED BY <1>1, <1>2, AloneKeeps

\* The operator's five calls.
LEMMA OperatorKeeps ==
    ASSUME RosterInv, NEW d \in Admins, NEW n \in Nodes,
           \/ DisableNode(d, n) \/ EnableNode(d, n) \/ DeleteNode(d, n)
           \/ SetMaintenance(d, n) \/ ClearMaintenance(d, n)
    PROVE  RosterInv'
<1>0. Types /\ Placed /\ NotAhead /\ Fresh BY DEF RosterInv
<1> DEFINE L == [revoked : SUBSET Nodes, maintenance : SUBSET Nodes]
<1>1. /\ <<"revoked">> \in Todos \ {<< >>} /\ <<"maintenance">> \in Todos \ {<< >>}
      /\ <<"revoked", "maintenance">> \in Todos \ {<< >>}
  BY DEF Todos
<1>2. /\ [ledger EXCEPT !.revoked = @ \cup {n}] \in L /\ [ledger EXCEPT !.revoked = @ \ {n}] \in L
      /\ [ledger EXCEPT !.maintenance = @ \cup {n}] \in L
      /\ [ledger EXCEPT !.maintenance = @ \ {n}] \in L
      /\ [revoked |-> ledger.revoked \cup {n}, maintenance |-> ledger.maintenance \ {n}] \in L
  BY <1>0 DEF Types
<1> HIDE DEF L
<1>3. \A new \in L, todo \in Todos \ {<< >>} : Begin(d, new, todo) => RosterInv'
  BY BeginKeeps DEF L
<1> QED
  BY <1>1, <1>2, <1>3 DEF DisableNode, EnableNode, DeleteNode, SetMaintenance, ClearMaintenance

\* It reads a set back.
LEMMA ReadIDsKeeps ==
    ASSUME RosterInv, NEW d \in Admins, ReadIDs(d)
    PROVE  RosterInv'
<1>0. Types /\ Placed /\ NotAhead /\ Fresh BY DEF RosterInv
<1>1. /\ admin[d].todo # << >>
      /\ admin' = [admin EXCEPT ![d].read = TRUE, ![d].ids = ledger[Head(admin[d].todo)]]
      /\ UNCHANGED <<ledger, registry, stream, casts, gateway>>
  BY DEF ReadIDs
<1>2. Head(admin[d].todo) = "revoked" \/ Head(admin[d].todo) = "maintenance"
  BY <1>0, <1>1 DEF Types, AdminState, Todos
<1>3. ledger[Head(admin[d].todo)] \in SUBSET Nodes
  <2>1. ledger["revoked"] \in SUBSET Nodes /\ ledger["maintenance"] \in SUBSET Nodes
    BY <1>0 DEF Types
  <2> QED BY <1>2, <2>1
<1>4. admin' \in [Admins -> AdminState] /\ \A e \in Admins : admin'[e].read => admin'[e].todo # << >>
  BY <1>0, <1>1, <1>3 DEF Types, AdminState
<1>5. ledger' \in [revoked : SUBSET Nodes, maintenance : SUBSET Nodes] BY <1>0, <1>1 DEF Types
<1> QED BY <1>1, <1>4, <1>5, AloneKeeps

\* It pushes the set, when it differs.
LEMMA PushKeeps ==
    ASSUME RosterInv, NEW d \in Admins, Push(d)
    PROVE  RosterInv'
<1>0. Types /\ Placed /\ NotAhead /\ Fresh BY DEF RosterInv
<1> DEFINE next == [registry EXCEPT ![Head(admin[d].todo)] = admin[d].ids]
<1>1. /\ admin[d].read
      /\ admin' = [admin EXCEPT ![d] = [Done EXCEPT !.todo = Tail(admin[d].todo)]]
      /\ Change(next, Reading(Joined)) \/ UNCHANGED <<registry, casts>>
      /\ UNCHANGED <<ledger, stream, gateway>>
  BY DEF Push
<1>2. next \in RegistryState /\ next.version = registry.version BY <1>0, <1>1, PushedSet
<1>3. admin' \in [Admins -> AdminState] /\ \A e \in Admins : admin'[e].read => admin'[e].todo # << >>
  <2>1. admin[d].todo \in Todos \ {<< >>} BY <1>0, <1>1 DEF Types, AdminState
  <2>2. Tail(admin[d].todo) \in Todos
    <3>1. Tail(<<"revoked">>) = << >> /\ Tail(<<"maintenance">>) = << >> OBVIOUS
    <3>2. Tail(<<"revoked", "maintenance">>) = <<"maintenance">> OBVIOUS
    <3> QED BY <2>1, <3>1, <3>2, Zenon DEF Todos
  <2> QED BY <1>0, <1>1, <2>2 DEF Types, AdminState, Done
<1> DEFINE T == Reading(Joined)
<1>4. T \in SUBSET Streams /\ \A t \in T : stream[t].pc = "joined" /\ ~stream[t].cut
  BY DEF Reading, Joined
<1> HIDE DEF T, next
<1>5. CASE Change(next, T)
  <2>1. /\ registry' \in RegistryState /\ casts' \in SUBSET (Streams \X Copies)
        /\ \A c \in casts' : c \in casts \/ c[1] \in T
        /\ NotAhead' /\ Fresh'
    BY <1>1, <1>2, <1>4, <1>5, ChangeKeeps
  <2>2. \A c \in casts' : stream[c[1]].pc = "joined" /\ ~stream[c[1]].cut
    BY <1>0, <1>4, <2>1 DEF Placed
  <2>3. Placed' BY <1>0, <1>1, <2>2 DEF Placed
  <2>4. Types' BY <1>0, <1>1, <1>3, <2>1 DEF Types
  <2> QED BY <2>1, <2>3, <2>4 DEF RosterInv
<1>6. CASE UNCHANGED <<registry, casts>>
  <2>1. ledger' \in [revoked : SUBSET Nodes, maintenance : SUBSET Nodes] BY <1>0, <1>1 DEF Types
  <2> QED BY <1>1, <1>3, <1>6, <2>1, AloneKeeps
<1> QED BY <1>1, <1>5, <1>6 DEF T

\* A replica opens a stream.
LEMMA joinOnceKeeps ==
    ASSUME RosterInv, NEW g \in Replicas, joinOnce(g)
    PROVE  RosterInv'
<1>0. Types /\ Placed /\ NotAhead /\ Fresh BY DEF RosterInv
<1> DEFINE free == {s \in Streams : ReplicaOf[s] = g /\ stream[s].pc = "free"}
<1>1. PICK s \in free :
        /\ gateway[g].at = NoStream
        /\ stream' = [stream EXCEPT ![s].pc = "opening"]
        /\ gateway' = [gateway EXCEPT ![g].at = s]
        /\ UNCHANGED <<ledger, admin, registry, casts>>
  BY DEF joinOnce
<1>2. s \in Streams /\ ReplicaOf[s] = g /\ stream[s].pc = "free" OBVIOUS
<1> HIDE DEF free
<1>3. /\ stream' \in [Streams -> StreamState]
      /\ \A t \in Streams : /\ stream'[t].latest = stream[t].latest
                            /\ stream'[t].cut = stream[t].cut
                            /\ stream'[t].pc = IF t = s THEN "opening" ELSE stream[t].pc
  BY <1>0, <1>1, <1>2 DEF Types, StreamState
<1>4. /\ gateway' \in [Replicas -> ReplicaState]
      /\ \A h \in Replicas : /\ gateway'[h].at = IF h = g THEN s ELSE gateway[h].at
                             /\ gateway'[h].roster = gateway[h].roster
  BY <1>0, <1>1, <1>2 DEF Types, ReplicaState
<1>5. /\ \A c \in casts : c[1] \in Streams /\ c[1] # s
      /\ \A h \in Replicas : gateway[h].at \in Streams \cup {NoStream} /\ gateway[h].at # s
  BY <1>0, <1>2, RosterAssumption DEF Types, ReplicaState, Placed
<1>6. ~stream[s].cut /\ stream[s].latest = NoRoster
  BY <1>0, <1>2 DEF Placed, Types, StreamState
<1>7. Types' BY <1>0, <1>1, <1>3, <1>4 DEF Types
<1>8. Placed' BY <1>0, <1>1, <1>2, <1>3, <1>4, <1>5, <1>6 DEF Placed
<1>9. NotAhead' BY <1>0, <1>1, <1>3, <1>4 DEF NotAhead
<1>10. Fresh' BY <1>0, <1>1, <1>3, <1>4, <1>5, <1>6 DEF Fresh
<1> QED BY <1>7, <1>8, <1>9, <1>10 DEF RosterInv

\* The stream a replica reads breaks, or the replica stops.
LEMMA CutKeeps ==
    ASSUME RosterInv, NEW g \in Replicas, gateway[g].at # NoStream, NEW notice \in BOOLEAN,
           Cut(gateway[g].at, notice), NEW r \in ReplicaState, r.at = NoStream,
           r.roster \in {NoRoster, gateway[g].roster}, gateway' = [gateway EXCEPT ![g] = r],
           UNCHANGED <<ledger, admin, registry>>
    PROVE  RosterInv'
<1>0. Types /\ Placed /\ NotAhead /\ Fresh BY DEF RosterInv
<1> DEFINE s == gateway[g].at
<1>1. s \in Streams BY <1>0 DEF Types, ReplicaState
<1>2. /\ stream' = [stream EXCEPT ![s] = [@ EXCEPT !.cut = TRUE, !.notice = notice,
                                                   !.latest = NoRoster]]
      /\ casts' = {c \in casts : c[1] # s}
  BY DEF Cut
<1> HIDE DEF s
<1>3. /\ stream' \in [Streams -> StreamState]
      /\ \A t \in Streams :
            /\ t # s => stream'[t] = stream[t]
            /\ t = s => stream'[t].cut /\ stream'[t].latest = NoRoster
                        /\ stream'[t].pc = stream[t].pc
  BY <1>0, <1>1, <1>2, ZenonT(40) DEF Types, StreamState
<1>4. /\ gateway' \in [Replicas -> ReplicaState] /\ gateway'[g].at = NoStream
      /\ gateway'[g].roster \in {NoRoster, gateway[g].roster}
      /\ \A h \in Replicas : h # g => gateway'[h] = gateway[h]
  BY <1>0 DEF Types
<1>5. /\ \A c \in casts : c[1] \in Streams
      /\ \A h \in Replicas : gateway[h].at \in Streams \cup {NoStream}
      /\ \A h \in Replicas : h # g => gateway[h].at # s
      /\ stream[s].pc # "free"
  BY <1>0, <1>1 DEF Types, ReplicaState, Placed, s
<1>6. Types' BY <1>0, <1>2, <1>3, <1>4 DEF Types
<1>7. Placed' BY <1>0, <1>2, <1>3, <1>4, <1>5 DEF Placed
<1>8. NotAhead' BY <1>0, <1>2, <1>3, <1>4 DEF NotAhead
<1>9. Fresh' BY <1>0, <1>2, <1>3, <1>4, <1>5 DEF Fresh
<1> QED BY <1>6, <1>7, <1>8, <1>9 DEF RosterInv

\* The stream breaks; the replica keeps its roster.
LEMMA StreamBreaksKeeps ==
    ASSUME RosterInv, NEW g \in Replicas, StreamBreaks(g)
    PROVE  RosterInv'
<1>0. Types /\ Placed /\ NotAhead /\ Fresh BY DEF RosterInv
<1> DEFINE r == [gateway[g] EXCEPT !.at = NoStream]
<1>1. r \in ReplicaState /\ r.at = NoStream /\ r.roster = gateway[g].roster
  BY <1>0 DEF Types, ReplicaState
<1>2. /\ gateway[g].at # NoStream /\ Cut(gateway[g].at, FALSE)
      /\ UNCHANGED <<ledger, admin, registry>>
  BY DEF StreamBreaks
<1>3. gateway' = [gateway EXCEPT ![g] = r] BY DEF StreamBreaks
<1> HIDE DEF r
<1> QED BY <1>1, <1>2, <1>3, CutKeeps

\* The replica stops, and its roster is gone.
LEMMA StopKeeps ==
    ASSUME RosterInv, NEW g \in Replicas, Stop(g)
    PROVE  RosterInv'
<1>0. Types /\ Placed /\ NotAhead /\ Fresh BY DEF RosterInv
<1> DEFINE r == [up |-> FALSE, at |-> NoStream, roster |-> NoRoster]
<1>1. r \in ReplicaState /\ r.at = NoStream /\ r.roster = NoRoster BY DEF ReplicaState
<1>2. gateway' = [gateway EXCEPT ![g] = r] /\ UNCHANGED <<ledger, admin, registry>>
  BY DEF Stop
<1> HIDE DEF r
<1>3. CASE gateway[g].at = NoStream /\ UNCHANGED <<stream, casts>>
  <2>1. /\ gateway' \in [Replicas -> ReplicaState] /\ gateway'[g] = r
        /\ \A h \in Replicas : h # g => gateway'[h] = gateway[h]
    BY <1>0, <1>1, <1>2 DEF Types
  <2>2. Types' BY <1>0, <1>2, <1>3, <2>1 DEF Types
  <2> QED BY <1>0, <1>1, <1>2, <1>3, <2>1, <2>2 DEF RosterInv, Placed, NotAhead, Fresh
<1>4. CASE gateway[g].at # NoStream /\ \E notice \in BOOLEAN : Cut(gateway[g].at, notice)
  BY <1>1, <1>2, <1>4, CutKeeps
<1> QED BY <1>3, <1>4 DEF Stop

\* A stopped replica starts.
LEMMA StartKeeps ==
    ASSUME RosterInv, NEW g \in Replicas, Start(g)
    PROVE  RosterInv'
<1>0. Types /\ Placed /\ NotAhead /\ Fresh BY DEF RosterInv
<1>1. gateway' = [gateway EXCEPT ![g].up = TRUE] /\ UNCHANGED <<ledger, admin, registry, stream, casts>>
  BY DEF Start
<1>2. /\ gateway' \in [Replicas -> ReplicaState]
      /\ \A h \in Replicas : /\ gateway'[h].at = gateway[h].at
                             /\ gateway'[h].roster = gateway[h].roster
  BY <1>0, <1>1 DEF Types, ReplicaState
<1>3. Types' BY <1>0, <1>1, <1>2 DEF Types
<1> QED BY <1>0, <1>1, <1>2, <1>3 DEF RosterInv, Placed, NotAhead, Fresh

\* The Agent applies a roster.
LEMMA ApplyKeeps ==
    ASSUME RosterInv, NEW g \in Replicas, Apply(g)
    PROVE  RosterInv'
<1>0. Types /\ Placed /\ NotAhead /\ Fresh BY DEF RosterInv
<1>1. UNCHANGED <<ledger, admin, registry, stream, casts, gateway>> BY DEF Apply
<1> QED BY <1>0, <1>1 DEF RosterInv, Types, Placed, NotAhead, Fresh

LEMMA StutterKeeps ==
    ASSUME RosterInv, UNCHANGED vars PROVE RosterInv'
BY DEF RosterInv, vars, Types, Placed, NotAhead, Fresh

\* Every step of the specification keeps the invariant.
LEMMA StepKeeps == RosterInv /\ [Next]_vars => RosterInv'
<1> SUFFICES ASSUME RosterInv, [Next]_vars PROVE RosterInv' OBVIOUS
<1>1. ASSUME NEW s \in Streams, Serve(s) PROVE RosterInv'
  BY <1>1, joinKeeps, RefuseKeeps, updateStateKeeps, leaveKeeps, offerKeeps, runKeeps DEF Serve
<1>2. ASSUME NEW g \in Replicas, Replica(g) \/ Apply(g) \/ StreamBreaks(g) \/ Stop(g)
      PROVE  RosterInv'
  BY <1>2, joinOnceKeeps, StartKeeps, ApplyKeeps, StreamBreaksKeeps, StopKeeps DEF Replica
<1>3. ASSUME NEW d \in Admins, Operate(d) PROVE RosterInv'
  BY <1>3, ReadIDsKeeps, PushKeeps DEF Operate
<1> QED BY <1>1, <1>2, <1>3, OperatorKeeps, RegistryRestartKeeps, StutterKeeps DEF Next

-----------------------------------------------------------------------------
(* Who speaks for a replica, and what a version names.                     *)

\* The Registry lists exactly the replicas that have an owner, and an owner is
\* a joined stream of its replica.
Owned ==
    /\ agent.version \in Nat /\ agent.entries \in States
    /\ \A g \in Replicas :
        /\ (registry.listed[g] # "none") <=> (registry.owner[g] # NoStream)
        /\ registry.owner[g] # NoStream =>
                stream[registry.owner[g]].pc = "joined" /\ ReplicaOf[registry.owner[g]] = g

\* The joined stream a replica reads is the one that speaks for it, until an
\* older one of its streams joins after it.
Speaks ==
    \A g \in Replicas :
        LET s == gateway[g].at
        IN  s # NoStream /\ stream[s].pc = "joined" /\ g \notin overtaken =>
                registry.owner[g] = s

\* The invariant of the owners.
OwnerInv == Owned /\ Speaks

LEMMA OwnerInit == Init => OwnerInv
<1> SUFFICES ASSUME Init PROVE OwnerInv OBVIOUS
<1>1. agent.version \in Nat /\ agent.entries \in States BY DEF Init, States
<1>2. Owned BY <1>1 DEF Init, Owned, Unlisted
<1>3. Speaks BY DEF Init, Speaks
<1> QED BY <1>2, <1>3 DEF OwnerInv

\* What a change of the Registry leaves of the owners is what it was given.
LEMMA ChangeOwners ==
    ASSUME NEW next \in RegistryState, NEW targets, Change(next, targets)
    PROVE  registry'.owner = next.owner /\ registry'.listed = next.listed
BY DEF Change, RegistryState

\* A step that changes neither owners nor the listing, and no stream's pc but
\* that of a stream that is not joined and does not become so.
LEMMA OwnersStay ==
    ASSUME Types, OwnerInv, registry'.owner = registry.owner, registry'.listed = registry.listed,
           agent' = agent,
           \A s \in Streams : (stream'[s].pc = "joined") <=> (stream[s].pc = "joined"),
           \A g \in Replicas : \/ gateway'[g].at = NoStream
                               \/ stream'[gateway'[g].at].pc # "joined"
                               \/ /\ gateway'[g].at = gateway[g].at
                                  /\ g \in overtaken => g \in overtaken'
    PROVE  OwnerInv'
<1>1. registry.owner \in [Replicas -> Streams \cup {NoStream}] BY DEF Types, RegistryState
<1>2. \A g \in Replicas : gateway[g].at \in Streams \cup {NoStream} BY DEF Types, ReplicaState
<1>3. Owned' BY <1>1 DEF OwnerInv, Owned
<1>4. Speaks' BY <1>2 DEF OwnerInv, Speaks
<1> QED BY <1>3, <1>4 DEF OwnerInv

LEMMA OwnerJoin ==
    ASSUME Types, Placed, OwnerInv, NEW s \in Streams, join(s)
    PROVE  OwnerInv'
<1> DEFINE g == ReplicaOf[s]
           next == [registry EXCEPT !.owner[g] = s, !.listed[g] = "active"]
<1>1. /\ stream[s].pc = "opening" /\ Change(next, Reading(Joined \cup {s}))
      /\ overtaken' = IF gateway[g].at # s /\ gateway[g].at \in Joined
                      THEN overtaken \cup {g} ELSE overtaken
      /\ stream' = [stream EXCEPT ![s].pc = "joined"] /\ gateway' = gateway /\ agent' = agent
  BY DEF join
<1>2. g \in Replicas /\ s # NoStream BY RosterAssumption
<1>3. next \in RegistryState BY <1>2 DEF Types, RegistryState, States
<1>4. registry'.owner = next.owner /\ registry'.listed = next.listed BY <1>1, <1>3, ChangeOwners
<1>5. /\ registry.owner \in [Replicas -> Streams \cup {NoStream}]
      /\ \A h \in Replicas : registry'.owner[h] = IF h = g THEN s ELSE registry.owner[h]
      /\ \A h \in Replicas : registry'.listed[h] = IF h = g THEN "active" ELSE registry.listed[h]
  BY <1>2, <1>4 DEF Types, RegistryState, States
<1>6. \A t \in Streams : stream'[t].pc = IF t = s THEN "joined" ELSE stream[t].pc
  BY <1>1 DEF Types, StreamState
<1>7. \A h \in Replicas : gateway[h].at \in Streams \cup {NoStream} BY DEF Types, ReplicaState
<1> HIDE DEF next
<1>8. Owned' BY <1>1, <1>2, <1>5, <1>6 DEF OwnerInv, Owned
<1>9. Speaks'
  <2> SUFFICES ASSUME NEW h \in Replicas, gateway[h].at # NoStream,
                      stream'[gateway[h].at].pc = "joined", h \notin overtaken'
               PROVE  registry'.owner[h] = gateway[h].at
    BY <1>1 DEF Speaks
  <2>0. h \notin overtaken BY <1>1
  <2>1. CASE h = g
    <3>1. gateway[h].at = s \/ gateway[h].at \notin Joined BY <1>1, <2>1
    <3>2. gateway[h].at = s BY <1>6, <1>7, <3>1 DEF Joined
    <3> QED BY <1>5, <2>1, <3>2
  <2>2. CASE h # g
    <3>1. gateway[h].at # s BY <2>2 DEF Placed
    <3> QED BY <1>5, <1>6, <1>7, <2>0, <2>2, <3>1 DEF OwnerInv, Speaks
  <2> QED BY <2>1, <2>2
<1> QED BY <1>8, <1>9 DEF OwnerInv

LEMMA OwnerLeave ==
    ASSUME Types, Placed, OwnerInv, NEW s \in Streams, leave(s)
    PROVE  OwnerInv'
<1> DEFINE g == ReplicaOf[s]
<1>1. /\ stream[s].cut /\ stream' = [stream EXCEPT ![s] = Free] /\ gateway' = gateway /\ agent' = agent
      /\ overtaken' = overtaken
      /\ IF Owns(s) THEN Change(Without(g), Reading(Joined)) ELSE registry' = registry
  BY DEF leave
<1>2. g \in Replicas /\ s # NoStream BY RosterAssumption
<1>3. Without(g) \in RegistryState BY <1>2 DEF Types, RegistryState, States, Without
<1>4. /\ registry.owner \in [Replicas -> Streams \cup {NoStream}]
      /\ \A h \in Replicas : Without(g).owner[h] = IF h = g THEN NoStream ELSE registry.owner[h]
      /\ \A h \in Replicas : Without(g).listed[h] = IF h = g THEN "none" ELSE registry.listed[h]
  BY <1>2 DEF Types, RegistryState, States, Without
<1>5. \A t \in Streams : stream'[t].pc = IF t = s THEN "free" ELSE stream[t].pc
  BY <1>1 DEF Types, Free
<1>6. \A h \in Replicas : gateway[h].at \in Streams \cup {NoStream} /\ gateway[h].at # s
  BY <1>1, <1>2 DEF Types, ReplicaState, Placed
<1>7. CASE Owns(s)
  <2>1. registry'.owner = Without(g).owner /\ registry'.listed = Without(g).listed
    BY <1>1, <1>3, <1>7, ChangeOwners
  <2>2. \A h \in Replicas : h # g => registry.owner[h] # s
    BY <1>2 DEF OwnerInv, Owned
  <2>3. Owned' BY <1>1, <1>4, <1>5, <2>1, <2>2 DEF OwnerInv, Owned
  <2>4. Speaks'
    <3> SUFFICES ASSUME NEW h \in Replicas, gateway[h].at # NoStream,
                        stream'[gateway[h].at].pc = "joined", h \notin overtaken
                 PROVE  registry'.owner[h] = gateway[h].at
      BY <1>1 DEF Speaks
    <3>1. registry.owner[h] = gateway[h].at BY <1>5, <1>6 DEF OwnerInv, Speaks
    <3>2. h # g BY <1>6, <1>7, <3>1 DEF Owns
    <3> QED BY <1>4, <2>1, <3>1, <3>2
  <2> QED BY <2>3, <2>4 DEF OwnerInv
<1>8. CASE ~Owns(s)
  <2>1. \A h \in Replicas : registry.owner[h] # s
    BY <1>2, <1>8 DEF OwnerInv, Owned, Owns
  <2>2. registry' = registry BY <1>1, <1>8
  <2>3. Owned' BY <1>1, <1>4, <1>5, <2>1, <2>2 DEF OwnerInv, Owned
  <2>4. Speaks' BY <1>1, <1>5, <1>6, <2>2 DEF OwnerInv, Speaks
  <2> QED BY <2>3, <2>4 DEF OwnerInv
<1> QED BY <1>7, <1>8

LEMMA OwnerDraining ==
    ASSUME Types, OwnerInv, NEW s \in Streams, updateState(s)
    PROVE  OwnerInv'
<1> DEFINE g == ReplicaOf[s]
           next == [registry EXCEPT !.listed[g] = "draining"]
<1>1. /\ stream' = [stream EXCEPT ![s].notice = FALSE] /\ gateway' = gateway /\ agent' = agent
      /\ overtaken' = overtaken
      /\ IF registry.owner[g] = s /\ registry.listed[g] = "active"
         THEN Change(next, Reading(Joined)) ELSE registry' = registry
  BY DEF updateState
<1>2. g \in Replicas BY RosterAssumption
<1>3. next \in RegistryState BY <1>2 DEF Types, RegistryState, States
<1>4. \A t \in Streams : stream'[t].pc = stream[t].pc BY <1>1 DEF Types, StreamState
<1>5. /\ registry.owner \in [Replicas -> Streams \cup {NoStream}]
      /\ next.owner = registry.owner
      /\ \A h \in Replicas : next.listed[h] = IF h = g THEN "draining" ELSE registry.listed[h]
  BY <1>2 DEF Types, RegistryState, States
<1> HIDE DEF next
<1>6. /\ registry'.owner = registry.owner
      /\ \A h \in Replicas : (registry'.listed[h] # "none") <=> (registry.listed[h] # "none")
  <2>1. CASE registry.owner[g] = s /\ registry.listed[g] = "active"
    BY <1>1, <1>3, <1>5, <2>1, ChangeOwners
  <2>2. CASE ~(registry.owner[g] = s /\ registry.listed[g] = "active") BY <1>1, <2>2
  <2> QED BY <2>1, <2>2
<1>7. Owned' BY <1>1, <1>4, <1>5, <1>6 DEF OwnerInv, Owned
<1>8. \A h \in Replicas : gateway[h].at \in Streams \cup {NoStream} BY DEF Types, ReplicaState
<1>9. Speaks' BY <1>1, <1>4, <1>6, <1>8 DEF OwnerInv, Speaks
<1> QED BY <1>7, <1>9 DEF OwnerInv

\* A cut stream keeps its pc, and the replica reads it no longer.
LEMMA OwnerCut ==
    ASSUME Types, OwnerInv, NEW g \in Replicas, NEW notice \in BOOLEAN,
           gateway[g].at # NoStream, Cut(gateway[g].at, notice),
           registry' = registry, agent' = agent,
           \A h \in Replicas : \/ gateway'[h].at = NoStream
                               \/ /\ gateway'[h].at = gateway[h].at
                                  /\ h \in overtaken => h \in overtaken'
    PROVE  OwnerInv'
<1>1. gateway[g].at \in Streams BY DEF Types, ReplicaState
<1>2. \A t \in Streams : stream'[t].pc = stream[t].pc BY <1>1 DEF Cut, Types, StreamState
<1> QED BY <1>2, OwnersStay

LEMMA OwnerReplica ==
    ASSUME Types, OwnerInv, NEW g \in Replicas, joinOnce(g) \/ Start(g) \/ StreamBreaks(g) \/ Stop(g)
    PROVE  OwnerInv'
<1>1. CASE joinOnce(g)
  <2> DEFINE free == {s \in Streams : ReplicaOf[s] = g /\ stream[s].pc = "free"}
  <2>1. PICK s \in free : /\ stream' = [stream EXCEPT ![s].pc = "opening"]
                          /\ gateway' = [gateway EXCEPT ![g].at = s]
    BY <1>1 DEF joinOnce
  <2>2. registry' = registry /\ agent' = agent /\ overtaken' = overtaken BY <1>1 DEF joinOnce
  <2>3. \A t \in Streams : stream'[t].pc = IF t = s THEN "opening" ELSE stream[t].pc
    BY <2>1 DEF Types, StreamState
  <2>4. \A h \in Replicas : gateway'[h].at = IF h = g THEN s ELSE gateway[h].at
    BY <2>1 DEF Types, ReplicaState
  <2> QED BY <2>1, <2>2, <2>3, <2>4, OwnersStay
<1>2. CASE Start(g)
  <2>1. UNCHANGED <<registry, agent, stream, overtaken>> BY <1>2 DEF Start
  <2>2. \A h \in Replicas : gateway'[h].at = gateway[h].at
    BY <1>2 DEF Start, Types, ReplicaState
  <2> QED BY <2>1, <2>2, OwnersStay
<1>3. CASE StreamBreaks(g)
  <2>1. \A h \in Replicas : \/ gateway'[h].at = NoStream
                            \/ /\ gateway'[h].at = gateway[h].at
                               /\ h \in overtaken => h \in overtaken'
    BY <1>3 DEF StreamBreaks, Types, ReplicaState
  <2> QED BY <1>3, <2>1, OwnerCut DEF StreamBreaks
<1>4. CASE Stop(g)
  <2>1. \A h \in Replicas : \/ gateway'[h].at = NoStream
                            \/ /\ gateway'[h].at = gateway[h].at
                               /\ h \in overtaken => h \in overtaken'
    BY <1>4 DEF Stop, Types, ReplicaState
  <2>2. registry' = registry /\ agent' = agent BY <1>4 DEF Stop
  <2>3. CASE stream' = stream BY <2>1, <2>2, <2>3, OwnersStay
  <2>4. CASE gateway[g].at # NoStream /\ \E notice \in BOOLEAN : Cut(gateway[g].at, notice)
    BY <2>1, <2>2, <2>4, OwnerCut
  <2> QED BY <1>4, <2>3, <2>4 DEF Stop
<1> QED BY <1>1, <1>2, <1>3, <1>4

LEMMA OwnerRestart == ASSUME Types, OwnerInv, RegistryRestart PROVE OwnerInv'
<1>1. /\ registry' = Restarted /\ agent' = agent
      /\ gateway' = [g \in Replicas |-> [gateway[g] EXCEPT !.at = NoStream]]
  BY DEF RegistryRestart
<1>2. registry'.owner = [g \in Replicas |-> NoStream] /\ registry'.listed = Unlisted
  BY <1>1 DEF Restarted, Types, RegistryState
<1>3. Owned' BY <1>1, <1>2 DEF OwnerInv, Owned, Unlisted
<1>4. \A g \in Replicas : gateway'[g].at = NoStream BY <1>1 DEF Types, ReplicaState
<1>5. Speaks' BY <1>4 DEF Speaks
<1> QED BY <1>3, <1>5 DEF OwnerInv

LEMMA OwnerOperator ==
    ASSUME Types, OwnerInv, NEW d \in Admins,
           \/ Operate(d)
           \/ \E n \in Nodes : \/ DisableNode(d, n) \/ EnableNode(d, n) \/ DeleteNode(d, n)
                               \/ SetMaintenance(d, n) \/ ClearMaintenance(d, n)
    PROVE  OwnerInv'
<1>1. CASE Push(d)
  <2> DEFINE next == [registry EXCEPT ![Head(admin[d].todo)] = admin[d].ids]
  <2>1. /\ admin[d].read /\ UNCHANGED <<stream, gateway, agent, overtaken>>
        /\ registry' = registry \/ Change(next, Reading(Joined))
    BY <1>1 DEF Push
  <2>2. next \in RegistryState /\ next.owner = registry.owner /\ next.listed = registry.listed
    BY <2>1, PushedSet
  <2> HIDE DEF next
  <2>3. registry'.owner = registry.owner /\ registry'.listed = registry.listed
    BY <2>1, <2>2, ChangeOwners
  <2> QED BY <2>1, <2>3, OwnersStay
<1>2. CASE ~Push(d)
  <2>1. UNCHANGED <<registry, stream, gateway, agent, overtaken>>
    BY <1>2 DEF Operate, ReadIDs, Begin, DisableNode, EnableNode, DeleteNode, SetMaintenance,
                ClearMaintenance
  <2> QED BY <2>1, OwnersStay
<1> QED BY <1>1, <1>2

\* Every step keeps the owners.
LEMMA OwnerStep == RosterInv /\ OwnerInv /\ [Next]_vars => OwnerInv'
<1> SUFFICES ASSUME RosterInv, OwnerInv, [Next]_vars PROVE OwnerInv' OBVIOUS
<1>0. Types /\ Placed BY DEF RosterInv
<1>1. ASSUME NEW s \in Streams, Serve(s) PROVE OwnerInv'
  <2>1. CASE Refuse(s)
    <3>1. UNCHANGED <<registry, gateway, agent, overtaken>> /\ stream[s].pc = "opening"
          /\ stream' = [stream EXCEPT ![s] = Free]
      BY <2>1 DEF Refuse
    <3>2. \A t \in Streams : stream'[t].pc = IF t = s THEN "free" ELSE stream[t].pc
      BY <1>0, <3>1 DEF Types, Free
    <3> QED BY <1>0, <3>1, <3>2, OwnersStay
  <2>2. CASE offer(s)
    <3>1. UNCHANGED <<registry, gateway, agent, overtaken>> BY <2>2 DEF offer
    <3>2. \A t \in Streams : stream'[t].pc = stream[t].pc
      BY <1>0, <2>2 DEF offer, Types, StreamState
    <3> QED BY <1>0, <3>1, <3>2, OwnersStay
  <2>3. CASE run(s)
    <3>1. UNCHANGED <<registry, stream, agent, overtaken>> BY <2>3 DEF run
    <3>2. \A h \in Replicas : gateway'[h].at = gateway[h].at
      BY <1>0, <2>3 DEF run, Types, ReplicaState
    <3> QED BY <1>0, <3>1, <3>2, OwnersStay
  <2> QED BY <1>0, <1>1, <2>1, <2>2, <2>3, OwnerJoin, OwnerLeave, OwnerDraining DEF Serve
<1>2. ASSUME NEW g \in Replicas, Replica(g) \/ StreamBreaks(g) \/ Stop(g) PROVE OwnerInv'
  BY <1>0, <1>2, OwnerReplica DEF Replica
<1>3. ASSUME NEW g \in Replicas, Apply(g) PROVE OwnerInv'
  <2>1. UNCHANGED <<registry, stream, gateway, overtaken>> BY <1>3 DEF Apply
  <2>2. agent' = [version |-> gateway[g].roster.version, entries |-> gateway[g].roster.listed]
        /\ gateway[g].roster # NoRoster
    BY <1>3 DEF Apply, Accepts
  <2>3. agent'.version \in Nat /\ agent'.entries \in States
    BY <1>0, <2>2 DEF Types, ReplicaState, Copies
  <2> QED BY <2>1, <2>3 DEF OwnerInv, Owned, Speaks
<1>4. ASSUME UNCHANGED vars PROVE OwnerInv'
  BY <1>4 DEF OwnerInv, Owned, Speaks, vars
<1> QED BY <1>0, <1>1, <1>2, <1>3, <1>4, OwnerOperator, OwnerRestart DEF Next

-----------------------------------------------------------------------------
(* What a version names.                                                   *)

\* The copies after a step are copies from before it, and at most one more,
\* ahead of the Registry's version.
Copied(x) == x.version > registry.version /\ Rosters' \subseteq Rosters \cup {NoRoster, x}

LEMMA ChangeCopied ==
    ASSUME Types, NEW next \in RegistryState, next.version = registry.version,
           NEW targets \in SUBSET Streams, Change(next, targets),
           UNCHANGED gateway,
           \A s \in Streams : stream'[s].latest \in {NoRoster, stream[s].latest}
    PROVE  \E x : Copied(x)
<1> DEFINE b == [next EXCEPT !.version = @ + 1]
           x == snapshot(b)
<1>1. x.version = registry.version + 1 BY ChangeCopies
<1>2. registry.version \in Nat BY DEF Types, RegistryState
<1>3. casts' = casts \cup (targets \X {x}) BY DEF Change
<1> HIDE DEF x
<1>4. \A c \in casts' : c \in casts \/ c[2] = x BY <1>3
<1>5. Rosters' \subseteq Rosters \cup {NoRoster, x} BY <1>4 DEF Rosters
<1> QED BY <1>1, <1>2, <1>5 DEF Copied

LEMMA OldCopied ==
    ASSUME Types, casts' \subseteq casts,
           \A s \in Streams : \/ stream'[s].latest \in {NoRoster, stream[s].latest}
                              \/ \E c \in casts : stream'[s].latest = c[2],
           \A g \in Replicas : \/ gateway'[g].roster \in {NoRoster, gateway[g].roster}
                               \/ \E s \in Streams : gateway'[g].roster = stream[s].latest
    PROVE  \E x : Copied(x)
<1>1. registry.version \in Nat BY DEF Types, RegistryState
<1> DEFINE x == [version |-> registry.version + 1]
<1>2. x.version > registry.version BY <1>1
<1>3. Rosters' \subseteq Rosters \cup {NoRoster, x} BY DEF Rosters
<1> QED BY <1>2, <1>3 DEF Copied

LEMMA StepCopied ==
    ASSUME Types, Next PROVE \E x : Copied(x)
<1>1. ASSUME NEW s \in Streams, Serve(s) PROVE \E x : Copied(x)
  <2>0. ReplicaOf[s] \in Replicas BY RosterAssumption
  <2>1. CASE join(s)
    <3> DEFINE g == ReplicaOf[s]
               next == [registry EXCEPT !.owner[g] = s, !.listed[g] = "active"]
               T == Reading(Joined \cup {s})
    <3>1. Change(next, T) /\ stream' = [stream EXCEPT ![s].pc = "joined"] /\ gateway' = gateway
      BY <2>1 DEF join
    <3>2. next \in RegistryState /\ next.version = registry.version
      BY <2>0 DEF Types, RegistryState, States
    <3>3. \A t \in Streams : stream'[t].latest = stream[t].latest BY <3>1 DEF Types, StreamState
    <3>4. T \in SUBSET Streams BY DEF Reading, Joined
    <3> HIDE DEF next, T
    <3> QED BY <3>1, <3>2, <3>3, <3>4, ChangeCopied
  <2>2. CASE updateState(s)
    <3> DEFINE next == [registry EXCEPT !.listed[ReplicaOf[s]] = "draining"]
               T == Reading(Joined)
    <3>1. /\ Change(next, T) \/ casts' = casts
          /\ stream' = [stream EXCEPT ![s].notice = FALSE] /\ gateway' = gateway
      BY <2>2 DEF updateState
    <3>2. next \in RegistryState /\ next.version = registry.version
      BY <2>0 DEF Types, RegistryState, States
    <3>3. \A t \in Streams : stream'[t].latest = stream[t].latest BY <3>1 DEF Types, StreamState
    <3>4. T \in SUBSET Streams BY DEF Reading, Joined
    <3> HIDE DEF next, T
    <3>5. CASE Change(next, T) BY <3>1, <3>2, <3>3, <3>4, <3>5, ChangeCopied
    <3>6. CASE casts' = casts BY <3>1, <3>3, <3>6, OldCopied
    <3> QED BY <3>1, <3>5, <3>6
  <2>3. CASE leave(s)
    <3> DEFINE next == Without(ReplicaOf[s])
               T == Reading(Joined)
    <3>1. /\ Change(next, T) \/ casts' = casts
          /\ stream' = [stream EXCEPT ![s] = Free] /\ gateway' = gateway
      BY <2>3 DEF leave
    <3>2. next \in RegistryState /\ next.version = registry.version
      BY <2>0 DEF Types, RegistryState, States, Without
    <3>3. \A t \in Streams : stream'[t].latest \in {NoRoster, stream[t].latest}
      BY <3>1 DEF Types, Free
    <3>4. T \in SUBSET Streams BY DEF Reading, Joined
    <3> HIDE DEF next, T
    <3>5. CASE Change(next, T) BY <3>1, <3>2, <3>3, <3>4, <3>5, ChangeCopied
    <3>6. CASE casts' = casts BY <3>1, <3>3, <3>6, OldCopied
    <3> QED BY <3>1, <3>5, <3>6
  <2>4. CASE Refuse(s)
    <3>1. casts' = casts /\ gateway' = gateway /\ stream' = [stream EXCEPT ![s] = Free]
      BY <2>4 DEF Refuse
    <3>2. \A t \in Streams : stream'[t].latest \in {NoRoster, stream[t].latest}
      BY <3>1 DEF Types, Free
    <3> QED BY <3>1, <3>2, OldCopied
  <2>5. CASE offer(s)
    <3>1. PICK c \in casts :
             /\ casts' = casts \ {c} /\ gateway' = gateway
             /\ stream' = [stream EXCEPT ![s].latest = IF Newer(@, c[2]) THEN c[2] ELSE @]
      BY <2>5 DEF offer
    <3>2. \A t \in Streams : stream'[t].latest \in {stream[t].latest, c[2]}
      BY <3>1 DEF Types, StreamState
    <3> QED BY <3>1, <3>2, OldCopied
  <2>6. CASE run(s)
    <3>1. /\ casts' = casts /\ stream' = stream
          /\ gateway' = [gateway EXCEPT ![ReplicaOf[s]].roster = stream[s].latest]
      BY <2>6 DEF run
    <3>2. \A h \in Replicas : gateway'[h].roster \in {gateway[h].roster, stream[s].latest}
      BY <3>1 DEF Types, ReplicaState
    <3> QED BY <3>1, <3>2, OldCopied
  <2> QED BY <1>1, <2>1, <2>2, <2>3, <2>4, <2>5, <2>6 DEF Serve
<1>2. ASSUME NEW g \in Replicas, Replica(g) \/ Apply(g) \/ StreamBreaks(g) \/ Stop(g)
      PROVE  \E x : Copied(x)
  <2>1. casts' \subseteq casts
    BY <1>2 DEF Replica, joinOnce, Start, Apply, StreamBreaks, Stop, Cut
  <2>2. \A h \in Replicas : gateway'[h].roster \in {NoRoster, gateway[h].roster}
    <3>1. CASE joinOnce(g)
      <4>1. PICK s : gateway' = [gateway EXCEPT ![g].at = s] BY <3>1 DEF joinOnce
      <4> QED BY <4>1 DEF Types, ReplicaState
    <3>2. CASE Start(g) BY <3>2 DEF Start, Types, ReplicaState
    <3>3. CASE Apply(g) BY <3>3 DEF Apply
    <3>4. CASE StreamBreaks(g) BY <3>4 DEF StreamBreaks, Types, ReplicaState
    <3>5. CASE Stop(g) BY <3>5 DEF Stop, Types, ReplicaState
    <3> QED BY <1>2, <3>1, <3>2, <3>3, <3>4, <3>5 DEF Replica
  <2>3. \A t \in Streams : stream'[t].latest \in {NoRoster, stream[t].latest}
    <3>1. CASE joinOnce(g)
      <4>1. PICK s : stream' = [stream EXCEPT ![s].pc = "opening"] BY <3>1 DEF joinOnce
      <4> QED BY <4>1 DEF Types, StreamState
    <3>2. CASE Start(g) \/ Apply(g)
      <4>1. stream' = stream BY <3>2 DEF Start, Apply
      <4> QED BY <4>1
    <3>3. ASSUME NEW s, NEW notice \in BOOLEAN, Cut(s, notice)
          PROVE  \A t \in Streams : stream'[t].latest \in {NoRoster, stream[t].latest}
      BY <3>3 DEF Cut, Types, StreamState
    <3>4. CASE StreamBreaks(g) BY <3>3, <3>4 DEF StreamBreaks
    <3>5. CASE Stop(g)
      <4>1. stream' = stream \/ \E notice \in BOOLEAN : Cut(gateway[g].at, notice)
        BY <3>5 DEF Stop
      <4> QED BY <3>3, <4>1
    <3> QED BY <1>2, <3>1, <3>2, <3>4, <3>5 DEF Replica
  <2> QED BY <2>1, <2>2, <2>3, OldCopied
<1>3. ASSUME NEW d \in Admins, Push(d) PROVE \E x : Copied(x)
  <2> DEFINE next == [registry EXCEPT ![Head(admin[d].todo)] = admin[d].ids]
             T == Reading(Joined)
  <2>1. /\ admin[d].read /\ stream' = stream /\ gateway' = gateway
        /\ casts' = casts \/ Change(next, T)
    BY <1>3 DEF Push
  <2>2. next \in RegistryState /\ next.version = registry.version BY <2>1, PushedSet
  <2>3. T \in SUBSET Streams BY DEF Reading, Joined
  <2> HIDE DEF next, T
  <2>4. CASE Change(next, T) BY <2>1, <2>2, <2>3, <2>4, ChangeCopied
  <2>5. CASE casts' = casts BY <2>1, <2>5, OldCopied
  <2> QED BY <2>1, <2>4, <2>5
<1>4. ASSUME NEW d \in Admins,
             \/ ReadIDs(d)
             \/ \E n \in Nodes : \/ DisableNode(d, n) \/ EnableNode(d, n) \/ DeleteNode(d, n)
                                 \/ SetMaintenance(d, n) \/ ClearMaintenance(d, n)
      PROVE  \E x : Copied(x)
  <2>1. UNCHANGED <<casts, stream, gateway>>
    BY <1>4 DEF ReadIDs, Begin, DisableNode, EnableNode, DeleteNode, SetMaintenance,
                ClearMaintenance
  <2> QED BY <2>1, OldCopied
<1>5. CASE RegistryRestart
  <2>1. /\ casts' = {} /\ stream' = [s \in Streams |-> Free]
        /\ gateway' = [g \in Replicas |-> [gateway[g] EXCEPT !.at = NoStream]]
    BY <1>5 DEF RegistryRestart
  <2>2. \A t \in Streams : stream'[t].latest = NoRoster BY <2>1 DEF Free
  <2>3. \A h \in Replicas : gateway'[h].roster = gateway[h].roster BY <2>1 DEF Types, ReplicaState
  <2> QED BY <2>1, <2>2, <2>3, OldCopied
<1> QED BY <1>1, <1>2, <1>3, <1>4, <1>5 DEF Next, Operate

-----------------------------------------------------------------------------
(* The theorems.                                                           *)

\* The invariant holds in every reachable state.
THEOREM RosterAlways == Spec => []RosterInv
BY InitHolds, StepKeeps, PTL DEF Spec

\* The owners' invariant holds in every reachable state.
THEOREM OwnerAlways == Spec => []OwnerInv
BY OwnerInit, OwnerStep, RosterAlways, PTL DEF Spec

\* The module's type invariant: the Registry lists exactly the replicas that a
\* joined stream speaks for (join, leave).
THEOREM TypeCorrect == Spec => []TypeOK
<1>1. RosterInv /\ OwnerInv => TypeOK
  <2> SUFFICES ASSUME Types, Owned PROVE TypeOK BY DEF RosterInv, OwnerInv
  <2>1. \A r \in Rosters \ {NoRoster} : r \in Copies
    BY DEF Types, Rosters, StreamState, ReplicaState
  <2>2. \A r \in Copies : /\ r.version \in Nat /\ r.listed \in States
                          /\ r.revoked \subseteq Nodes /\ r.maintenance \subseteq Nodes
    BY DEF Copies
  <2>3. registry.listed \in States /\ registry.owner \in [Replicas -> Streams \cup {NoStream}]
    BY DEF Types, RegistryState
  <2>4. \A g \in Replicas : gateway[g].at \in Streams \cup {NoStream} BY DEF Types, ReplicaState
  <2>5. \A s \in Streams : stream[s].pc \in {"free", "opening", "joined"} BY DEF Types, StreamState
  <2>6. ledger \in [revoked : SUBSET Nodes, maintenance : SUBSET Nodes] BY DEF Types
  <2> QED BY <2>1, <2>2, <2>3, <2>4, <2>5, <2>6 DEF TypeOK, Owned, Joined
<1> QED BY <1>1, RosterAlways, OwnerAlways, PTL

\* A replica whose stream is joined stays listed, whatever its older streams do
\* on their way out (leave's owner check), for as long as none of them has
\* joined after it.
THEOREM LiveIsListedHolds == Spec => []LiveIsListed
<1>1. RosterInv /\ OwnerInv => LiveIsListed
  BY RosterAssumption DEF OwnerInv, Owned, Speaks, LiveIsListed, Joined
<1> QED BY <1>1, RosterAlways, OwnerAlways, PTL

\* A version names one roster, wherever its copies are (every change bumps the
\* version under rosterState's lock, and New goes on from a later one).
THEOREM VersionNamesHolds == Spec => []VersionNames
<1>1. Init => VersionNames
  <2> SUFFICES ASSUME Init PROVE Rosters \subseteq {NoRoster} BY DEF VersionNames
  <2> QED BY DEF Init, Rosters, Free
<1>2. ASSUME RosterInv, VersionNames, Next PROVE VersionNames'
  <2>1. Types /\ NotAhead BY <1>2 DEF RosterInv
  <2>2. PICK x : Copied(x) BY <1>2, <2>1, StepCopied
  <2>3. \A r \in Rosters \ {NoRoster} : r.version \in Nat /\ r.version <= registry.version
    <3>1. \A r \in Rosters \ {NoRoster} : r \in Copies
      BY <2>1 DEF Types, Rosters, StreamState, ReplicaState
    <3>2. \A r \in Rosters \ {NoRoster} : r.version <= registry.version
      BY <2>1 DEF Rosters, NotAhead
    <3> QED BY <3>1, <3>2 DEF Copies
  <2>4. registry.version \in Nat BY <2>1 DEF Types, RegistryState
  <2>5. \A r \in Rosters \ {NoRoster} : r.version # x.version
    BY <2>2, <2>3, <2>4 DEF Copied
  <2>6. \A r \in Rosters' \ {NoRoster} : r \in Rosters \ {NoRoster} \/ r = x
    BY <2>2 DEF Copied
  <2> SUFFICES ASSUME NEW r1 \in Rosters' \ {NoRoster}, NEW r2 \in Rosters' \ {NoRoster},
                      r1.version = r2.version
               PROVE  r1 = r2
    BY DEF VersionNames
  <2> QED BY <1>2, <2>5, <2>6 DEF VersionNames
<1>3. VersionNames /\ UNCHANGED vars => VersionNames' BY DEF VersionNames, Rosters, vars
<1> QED BY <1>1, <1>2, <1>3, RosterAlways, PTL DEF Spec

\* A replica's roster is never replaced by an older one, in whatever order
\* broadcasts are delivered and however often streams break and the Registry
\* restarts (offer, run).
THEOREM NeverBackwardsHolds == Spec => NeverBackwards
<1> DEFINE Forward ==
        \A g \in Replicas :
            gateway[g].roster # NoRoster /\ gateway'[g].roster # NoRoster =>
                gateway'[g].roster.version >= gateway[g].roster.version
<1>1. ASSUME RosterInv, Next PROVE Forward
  <2>0. Types /\ Fresh BY <1>1 DEF RosterInv
  <2>1. \A g \in Replicas : gateway[g].roster # NoRoster => gateway[g].roster.version \in Nat
    BY <2>0 DEF Types, ReplicaState, Copies
  <2>2. (\A g \in Replicas : gateway'[g].roster \in {NoRoster, gateway[g].roster}) => Forward
    BY <2>1
  <2>3. ASSUME NEW s \in Streams, Serve(s) PROVE Forward
    <3>1. CASE run(s)
      <4>1. /\ gateway[ReplicaOf[s]].at = s /\ stream[s].latest # NoRoster
            /\ gateway' = [gateway EXCEPT ![ReplicaOf[s]].roster = stream[s].latest]
        BY <3>1 DEF run
      <4>2. ReplicaOf[s] \in Replicas /\ s # NoStream BY RosterAssumption
      <4>3. \A h \in Replicas : gateway'[h].roster = IF h = ReplicaOf[s] THEN stream[s].latest
                                                     ELSE gateway[h].roster
        BY <2>0, <4>1, <4>2 DEF Types, ReplicaState
      <4> QED BY <2>0, <2>1, <4>1, <4>2, <4>3 DEF Fresh
    <3>2. CASE join(s) \/ Refuse(s) \/ updateState(s) \/ leave(s) \/ offer(s)
      <4>1. gateway' = gateway BY <3>2 DEF join, Refuse, updateState, leave, offer
      <4> QED BY <2>2, <4>1
    <3> QED BY <2>3, <3>1, <3>2 DEF Serve
  <2>4. ASSUME NEW g \in Replicas, Replica(g) \/ Apply(g) \/ StreamBreaks(g) \/ Stop(g)
        PROVE  Forward
    <3>1. \A h \in Replicas : gateway'[h].roster \in {NoRoster, gateway[h].roster}
      <4>1. CASE joinOnce(g)
        <5>1. PICK s \in Streams \cup {NoStream} :
                 gateway' = [gateway EXCEPT ![g].at = s] \/ gateway' = gateway
          BY <4>1 DEF joinOnce
        <5> QED BY <2>0, <5>1 DEF Types, ReplicaState
      <4>2. CASE Start(g) BY <2>0, <4>2 DEF Start, Types, ReplicaState
      <4>3. CASE Apply(g) BY <2>0, <4>3 DEF Apply
      <4>4. CASE StreamBreaks(g) BY <2>0, <4>4 DEF StreamBreaks, Types, ReplicaState
      <4>5. CASE Stop(g) BY <2>0, <4>5 DEF Stop, Types, ReplicaState
      <4> QED BY <2>4, <4>1, <4>2, <4>3, <4>4, <4>5 DEF Replica
    <3> QED BY <2>2, <3>1
  <2>5. ASSUME NEW d \in Admins, Operate(d) PROVE Forward
    <3>1. gateway' = gateway BY <2>5 DEF Operate, ReadIDs, Push
    <3> QED BY <2>2, <3>1
  <2>6. ASSUME NEW d \in Admins, NEW n \in Nodes,
               \/ DisableNode(d, n) \/ EnableNode(d, n) \/ DeleteNode(d, n)
               \/ SetMaintenance(d, n) \/ ClearMaintenance(d, n)
        PROVE  Forward
    <3>1. gateway' = gateway
      BY <2>6 DEF DisableNode, EnableNode, DeleteNode, SetMaintenance, ClearMaintenance, Begin
    <3> QED BY <2>2, <3>1
  <2>7. CASE RegistryRestart
    <3>1. \A h \in Replicas : gateway'[h].roster = gateway[h].roster
      BY <2>0, <2>7 DEF RegistryRestart, Types, ReplicaState
    <3> QED BY <2>2, <3>1
  <2> QED BY <1>1, <2>3, <2>4, <2>5, <2>6, <2>7 DEF Next
<1>2. RosterInv /\ [Next]_vars => [Forward]_vars BY <1>1
<1> QED BY <1>2, RosterAlways, PTL DEF Spec, NeverBackwards

=============================================================================
