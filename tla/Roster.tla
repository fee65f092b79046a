------------------------------- MODULE Roster -------------------------------
(***************************************************************************)
(* The Gateway roster on its way from the Registry to an Agent: the        *)
(* Registry's rosterState and its Join streams (registryserver/roster.go), *)
(* the operator calls that change the revoked and maintenance sets         *)
(* (token_admin.go), each replica's subscription (registryclient) and the  *)
(* relay to its Agents (tunnelserver SetRoster), and the Agent's Roster    *)
(* with the tunnels that follow it (tunnel/roster.go, manager.go).         *)
(*                                                                         *)
(* A roster is a full snapshot with a version.  broadcast runs outside the *)
(* lock that took the snapshot, so offers of two changes interleave; a     *)
(* stream's sender sends only the newest offer.  gRPC streams deliver in   *)
(* order, so a roster on its way is modelled as one not sent yet: sending  *)
(* and receiving it are one step.  What one replica does with its own      *)
(* nodes is NodeRegistry's subject; here an Agent has one tunnel per       *)
(* replica and no identity trouble.                                        *)
(***************************************************************************)
EXTENDS Naturals, Sequences, FiniteSets

CONSTANTS
    Replicas,       \* Gateway replicas, each with its endpoint
    Streams,        \* Join streams the Registry may know of at one time
    ReplicaOf,      \* the replica each of them belongs to
    Seeds,          \* the Agent's seed endpoints
    Nodes,          \* node ids the operator disables or puts in maintenance
    Ledgers,        \* identity ledgers a Registry may start on
    Admins,         \* TokenAdmin calls running at one time
    NoStream, NoRoster,
    MaxDisturbances \* bound: operator calls, streams that break, replicas that
                    \* stop and Registry restarts, together

ASSUME RosterAssumption ==
    /\ ReplicaOf \in [Streams -> Replicas]
    /\ Seeds \subseteq Replicas /\ Seeds # {}
    /\ Ledgers \subseteq [revoked : SUBSET Nodes, maintenance : SUBSET Nodes]
    /\ NoStream \notin Streams
    /\ NoRoster \notin [version : Nat, listed : [Replicas -> {"none", "active", "draining"}],
                        revoked : SUBSET Nodes, maintenance : SUBSET Nodes]
    /\ MaxDisturbances \in Nat

VARIABLES
    ledger,         \* the identity ledger's disabled and maintenance node ids
    admin,          \* per operator call: the sets still to push, the ids read
    registry,       \* rosterState
    stream,         \* joinStream, and whether the replica is still there
    casts,          \* offers that broadcast has still to make
    gateway,        \* per replica: up, the stream it reads, its roster
    agent,          \* the Agent's Roster
    overtaken,      \* history: the replicas whose stream had joined when an
                    \* older one of theirs joined after it
    disturbances

vars == <<ledger, admin, registry, stream, casts, gateway, agent,
          overtaken, disturbances>>

Unlisted == [g \in Replicas |-> "none"]
Free     == [pc |-> "free", cut |-> FALSE, notice |-> FALSE, latest |-> NoRoster]
Done     == [todo |-> << >>, read |-> FALSE, ids |-> {}]

Joined == {s \in Streams : stream[s].pc = "joined"}

\* An offer to a stream whose replica is gone reaches nobody; it is left out.
Reading(S) == {s \in S : ~stream[s].cut}

\* snapshotLocked
snapshot(r) == [version |-> r.version, listed |-> r.listed,
                revoked |-> r.revoked, maintenance |-> r.maintenance]

\* A Registry that starts on the ledger it finds, with nobody joined.
Init ==
    /\ ledger \in Ledgers
    /\ admin    = [d \in Admins |-> Done]
    /\ registry = [version |-> 1, listed |-> Unlisted, revoked |-> ledger.revoked,
                   maintenance |-> ledger.maintenance,
                   owner |-> [g \in Replicas |-> NoStream]]
    /\ stream   = [s \in Streams |-> Free]
    /\ casts    = {}
    /\ gateway  = [g \in Replicas |-> [up |-> TRUE, at |-> NoStream, roster |-> NoRoster]]
    /\ agent    = [version |-> 0,
                   entries |-> [g \in Replicas |-> IF g \in Seeds THEN "active" ELSE "none"]]
    /\ overtaken = {}
    /\ disturbances = 0

Disturb ==
    /\ disturbances < MaxDisturbances
    /\ disturbances' = disturbances + 1

-----------------------------------------------------------------------------
(* The Registry.                                                           *)

\* Every change bumps the version and broadcasts to the streams then joined.
Change(next, targets) ==
    LET bumped == [next EXCEPT !.version = @ + 1]
    IN  /\ registry' = bumped
        /\ casts' = casts \cup (targets \X {snapshot(bumped)})

\* Join, from the first request on: join takes the replica over, from a newer
\* stream too.
join(s) ==
    LET g    == ReplicaOf[s]
        late == gateway[g].at # s /\ gateway[g].at \in Joined
    IN  /\ stream[s].pc = "opening"
        /\ stream' = [stream EXCEPT ![s].pc = "joined"]
        /\ Change([registry EXCEPT !.owner[g] = s, !.listed[g] = "active"],
                  Reading(Joined \cup {s}))
        /\ overtaken' = IF late THEN overtaken \cup {g} ELSE overtaken
        /\ UNCHANGED <<ledger, admin, gateway, agent, disturbances>>

\* The first request of a broken stream does not get through.
Refuse(s) ==
    /\ stream[s].pc = "opening"
    /\ stream[s].cut
    /\ stream' = [stream EXCEPT ![s] = Free]
    /\ UNCHANGED <<ledger, admin, registry, casts, gateway, agent, overtaken, disturbances>>

\* The DRAINING notice, from the stream that speaks for the replica.
updateState(s) ==
    LET g == ReplicaOf[s]
    IN  /\ stream[s].pc = "joined"
        /\ stream[s].notice
        /\ stream' = [stream EXCEPT ![s].notice = FALSE]
        /\ IF registry.owner[g] = s /\ registry.listed[g] = "active"
           THEN Change([registry EXCEPT !.listed[g] = "draining"], Reading(Joined))
           ELSE UNCHANGED <<registry, casts>>
        /\ UNCHANGED <<ledger, admin, gateway, agent, overtaken, disturbances>>

Without(g) == [registry EXCEPT !.owner[g] = NoStream, !.listed[g] = "none"]

\* Mutant: leave asks for an owner, not for this one.
MutOwns(s) == registry.owner[ReplicaOf[s]] # NoStream

\* The stream ended: leave.  A superseded stream takes nothing with it.
Owns(s) == registry.owner[ReplicaOf[s]] = s

leave(s) ==
    LET g == ReplicaOf[s]
    IN  /\ stream[s].pc = "joined"
        /\ stream[s].cut /\ ~stream[s].notice
        /\ stream' = [stream EXCEPT ![s] = Free]
        /\ IF Owns(s) THEN Change(Without(g), Reading(Joined))
           ELSE UNCHANGED <<registry, casts>>
        /\ UNCHANGED <<ledger, admin, gateway, agent, overtaken, disturbances>>

\* Mutant: the last offer replaces latest.
MutNewer(old, new) == TRUE

\* broadcast reaches one more stream: only a newer roster replaces latest.
Newer(old, new) == old = NoRoster \/ new.version > old.version

offer(s) ==
    \E c \in casts :
        /\ c[1] = s
        /\ casts' = casts \ {c}
        /\ stream' = [stream EXCEPT ![s].latest = IF Newer(@, c[2]) THEN c[2] ELSE @]
        /\ UNCHANGED <<ledger, admin, registry, gateway, agent, overtaken, disturbances>>

\* The stream's only sender, and the replica's Recv and SetRoster.
run(s) ==
    LET g == ReplicaOf[s]
    IN  /\ stream[s].pc = "joined" /\ gateway[g].at = s
        /\ stream[s].latest \notin {NoRoster, gateway[g].roster}
        /\ gateway' = [gateway EXCEPT ![g].roster = stream[s].latest]
        /\ UNCHANGED <<ledger, admin, registry, stream, casts, agent, overtaken, disturbances>>

\* Mutant: a restart starts with empty sets.
MutForgets == [registry EXCEPT !.version = @ + 1, !.listed = Unlisted,
                               !.revoked = {}, !.maintenance = {},
                               !.owner = [g \in Replicas |-> NoStream]]

\* New: the two sets come from the ledger, and versions go on from the wall
\* clock, which is taken to be past the last version: no more changes than
\* milliseconds in a run (New's comment), and no clock that was set back.
Restarted == [registry EXCEPT !.version = @ + 1, !.listed = Unlisted,
                              !.revoked = ledger.revoked,
                              !.maintenance = ledger.maintenance,
                              !.owner = [g \in Replicas |-> NoStream]]

\* The Registry stops and starts again.  Of a graceful stop, which ends the Join
\* handlers one by one, the streams that end first are StreamBreaks.
RegistryRestart ==
    /\ Disturb
    /\ registry' = Restarted
    /\ admin'    = [d \in Admins |-> Done]
    /\ stream'   = [s \in Streams |-> Free]
    /\ casts'    = {}
    /\ gateway'  = [g \in Replicas |-> [gateway[g] EXCEPT !.at = NoStream]]
    /\ overtaken' = {}
    /\ UNCHANGED <<ledger, agent>>

-----------------------------------------------------------------------------
(* The operator.  The ledger is written first; then each set is read from  *)
(* it and pushed to the roster, in two steps of its own.  A call that      *)
(* changes nothing in the ledger is left out.                              *)

Begin(d, new, todo) ==
    /\ admin[d] = Done
    /\ new # ledger
    /\ Disturb
    /\ ledger' = new
    /\ admin' = [admin EXCEPT ![d].todo = todo]
    /\ UNCHANGED <<registry, stream, casts, gateway, agent, overtaken>>

DisableNode(d, n) ==
    Begin(d, [ledger EXCEPT !.revoked = @ \cup {n}], <<"revoked">>)

EnableNode(d, n) ==
    Begin(d, [ledger EXCEPT !.revoked = @ \ {n}], <<"revoked">>)

DeleteNode(d, n) ==
    Begin(d, [revoked |-> ledger.revoked \cup {n}, maintenance |-> ledger.maintenance \ {n}],
          <<"revoked", "maintenance">>)

SetMaintenance(d, n) ==
    Begin(d, [ledger EXCEPT !.maintenance = @ \cup {n}], <<"maintenance">>)

ClearMaintenance(d, n) ==
    Begin(d, [ledger EXCEPT !.maintenance = @ \ {n}], <<"maintenance">>)

\* DisabledNodeIDs, MaintenanceNodeIDs
ReadIDs(d) ==
    /\ admin[d].todo # << >>
    /\ ~admin[d].read
    /\ admin' = [admin EXCEPT ![d].read = TRUE, ![d].ids = ledger[Head(admin[d].todo)]]
    /\ UNCHANGED <<ledger, registry, stream, casts, gateway, agent, overtaken, disturbances>>

\* setRevoked, setMaintenance: an unchanged set is not broadcast.
Push(d) ==
    LET set == Head(admin[d].todo)
    IN  /\ admin[d].read
        /\ admin' = [admin EXCEPT ![d] = [Done EXCEPT !.todo = Tail(admin[d].todo)]]
        /\ IF registry[set] = admin[d].ids
           THEN UNCHANGED <<registry, casts>>
           ELSE Change([registry EXCEPT ![set] = admin[d].ids], Reading(Joined))
        /\ UNCHANGED <<ledger, stream, gateway, agent, overtaken, disturbances>>

-----------------------------------------------------------------------------
(* A Gateway replica.                                                      *)

\* joinOnce up to its first Send.
joinOnce(g) ==
    LET free == {s \in Streams : ReplicaOf[s] = g /\ stream[s].pc = "free"}
    IN  /\ gateway[g].up /\ gateway[g].at = NoStream
        /\ free # {}
        /\ LET s == CHOOSE s \in free : TRUE
           IN  /\ stream' = [stream EXCEPT ![s].pc = "opening"]
               /\ gateway' = [gateway EXCEPT ![g].at = s]
        /\ UNCHANGED <<ledger, admin, registry, casts, agent, overtaken, disturbances>>

Cut(s, notice) ==
    /\ stream' = [stream EXCEPT ![s] = [@ EXCEPT !.cut = TRUE, !.notice = notice,
                                                 !.latest = NoRoster]]
    /\ casts' = {c \in casts : c[1] # s}

\* The stream breaks; Run backs off and joins again.
StreamBreaks(g) ==
    /\ gateway[g].at # NoStream
    /\ Disturb
    /\ Cut(gateway[g].at, FALSE)
    /\ gateway' = [gateway EXCEPT ![g].at = NoStream]
    /\ overtaken' = overtaken \ {g}
    /\ UNCHANGED <<ledger, admin, registry, agent>>

\* The replica stops: with a DRAINING notice and CloseSend, or with the notice
\* lost to the reset that follows, or by crashing.
Stop(g) ==
    /\ gateway[g].up
    /\ Disturb
    /\ \/ gateway[g].at = NoStream /\ UNCHANGED <<stream, casts>>
       \/ gateway[g].at # NoStream
          /\ \E notice \in BOOLEAN : Cut(gateway[g].at, notice)
    /\ gateway' = [gateway EXCEPT ![g] = [up |-> FALSE, at |-> NoStream, roster |-> NoRoster]]
    /\ overtaken' = overtaken \ {g}
    /\ UNCHANGED <<ledger, admin, registry, agent>>

Start(g) ==
    /\ ~gateway[g].up
    /\ gateway' = [gateway EXCEPT ![g].up = TRUE]
    /\ UNCHANGED <<ledger, admin, registry, stream, casts, agent, overtaken, disturbances>>

-----------------------------------------------------------------------------
(* The Agent.                                                              *)

\* reconcile keeps a tunnel to every listed replica that answers.
Tunnel(g) == agent.entries[g] # "none" /\ gateway[g].up

\* Mutant: only the first roster is accepted.
MutAccepts(r) == r # NoRoster /\ agent.version = 0

\* Roster.Apply of what the replica's welcome or its SetRoster sends: a roster
\* that is newer, and not empty.
Accepts(r) == r # NoRoster /\ r.version > agent.version /\ r.listed # Unlisted

Apply(g) ==
    LET r == gateway[g].roster
    IN  /\ Tunnel(g)
        /\ Accepts(r)
        /\ agent' = [version |-> r.version, entries |-> r.listed]
        /\ UNCHANGED <<ledger, admin, registry, stream, casts, gateway, overtaken, disturbances>>

-----------------------------------------------------------------------------

Serve(s)   == join(s) \/ Refuse(s) \/ updateState(s) \/ leave(s) \/ offer(s) \/ run(s)
Replica(g) == joinOnce(g) \/ Start(g)
Operate(d) == ReadIDs(d) \/ Push(d)

Next ==
    \/ \E s \in Streams : Serve(s)
    \/ \E g \in Replicas : Replica(g) \/ Apply(g) \/ StreamBreaks(g) \/ Stop(g)
    \/ \E d \in Admins : Operate(d) \/ \E n \in Nodes :
            \/ DisableNode(d, n) \/ EnableNode(d, n) \/ DeleteNode(d, n)
            \/ SetMaintenance(d, n) \/ ClearMaintenance(d, n)
    \/ RegistryRestart

Spec == Init /\ [][Next]_vars

\* Goroutines run and connections deliver; a replica reconnects with backoff,
\* and one that stopped is started again by its supervisor.
Fairness ==
    /\ \A s \in Streams : WF_vars(Serve(s))
    /\ \A g \in Replicas : WF_vars(Replica(g)) /\ WF_vars(Apply(g))
    /\ \A d \in Admins : WF_vars(Operate(d))

FairSpec == Spec /\ Fairness

-----------------------------------------------------------------------------
(* What is checked.                                                        *)

Rosters ==
    {c[2] : c \in casts} \cup {stream[s].latest : s \in Streams}
        \cup {gateway[g].roster : g \in Replicas}

States == [Replicas -> {"none", "active", "draining"}]

\* Every variable has its type, and the Registry lists exactly the replicas
\* that some joined stream speaks for.
TypeOK ==
    /\ ledger \in [revoked : SUBSET Nodes, maintenance : SUBSET Nodes]
    /\ \A r \in Rosters \ {NoRoster} :
        /\ r.version \in Nat /\ r.listed \in States
        /\ r.revoked \subseteq Nodes /\ r.maintenance \subseteq Nodes
    /\ registry.listed \in States
    /\ \A g \in Replicas :
        /\ (registry.listed[g] # "none") <=> (registry.owner[g] # NoStream)
        /\ registry.owner[g] # NoStream =>
                registry.owner[g] \in Joined /\ ReplicaOf[registry.owner[g]] = g
        /\ gateway[g].at \in Streams \cup {NoStream}
    /\ \A s \in Streams : stream[s].pc \in {"free", "opening", "joined"}
    /\ agent.version \in Nat /\ agent.entries \in States

\* A version names one roster: wherever two copies with the same version are,
\* they are the same, so a receiver that skips a version it has misses nothing
\* (rosterState bumps the version with every change, under its lock).
VersionNames ==
    \A r1 \in Rosters \ {NoRoster} : \A r2 \in Rosters \ {NoRoster} :
        r1.version = r2.version => r1 = r2

\* A replica whose stream the Registry has joined stays listed whatever an
\* older stream of the same replica does on its way out (leave's owner check),
\* provided that the older one had joined first (see LateExitEvictsNobody).
LiveIsListed ==
    \A g \in Replicas :
        gateway[g].at \in Joined /\ g \notin overtaken => registry.listed[g] # "none"

\* rosterState.owners ("only the owning stream may change or remove the entry,
\* so the old stream's late exit cannot evict the live replica"): the same with
\* no condition.  A JoinRequest handled late makes the old stream the owner.
LateExitEvictsNobody ==
    \A g \in Replicas : gateway[g].at \in Joined => registry.listed[g] # "none"

\* A replica's roster is never replaced by an older one, though broadcasts of
\* different changes interleave (offer keeps the newest, run is the only
\* sender): a revocation it has seen is not undone by a late message.
NeverBackwards ==
    [][\A g \in Replicas :
        gateway[g].roster # NoRoster /\ gateway'[g].roster # NoRoster =>
            gateway'[g].roster.version >= gateway[g].roster.version]_vars

\* No two operator calls are under way at the same time.
OneAtATime ==
    \A d1, d2 \in Admins : admin[d1] # Done /\ admin[d2] # Done => d1 = d2

\* What the operator did arrives: in the end every replica's roster has the
\* ledger's disabled and maintenance nodes, whatever broke in between.  The
\* condition is that operator calls do not overlap: DisableNode and the others
\* read the ledger and push what they read in two steps, so of two at a time
\* the older reading may be pushed last.
OrdersArrive ==
    []OneAtATime =>
        <>[](\A g \in Replicas :
                /\ gateway[g].roster # NoRoster
                /\ gateway[g].roster.revoked = ledger.revoked
                /\ gateway[g].roster.maintenance = ledger.maintenance)

\* The Agent ends up with a tunnel to every replica, having started with the
\* seeds: it neither keeps an old roster nor ignores a current one, and a
\* restarted Registry is listened to again (New's version).  The condition, for
\* each replica, is that it does not stay overtaken by its own older stream.
FullyConnected ==
    \A g \in Replicas :
        <>[](g \notin overtaken) => <>[](agent.entries[g] = "active" /\ Tunnel(g))

=============================================================================
