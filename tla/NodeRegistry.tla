---------------------------- MODULE NodeRegistry ----------------------------
(***************************************************************************)
(* How one Gateway replica keeps its table of connected nodes: the entry of *)
(* one node_id, created by the first of its streams and dropped by the      *)
(* last, while the Registry's rosters disable it, put it into maintenance,  *)
(* and allow it again.                                                      *)
(*                                                                         *)
(*   service/aiServeWeaveGateway/tunnelserver/server.go, control.go,        *)
(*   node.go and the outer half of slot.go                                  *)
(*                                                                         *)
(* A stream is a member of Controls or Slots and is one goroutine.  An      *)
(* entry is one *node, named after the stream for which newNode made it;    *)
(* nodes is what the table holds for the node_id.  Server.mu and node.mu    *)
(* are lock variables, because two sections take the second lock while they *)
(* hold the first; a section that takes one lock only is one step that      *)
(* waits for it.  The requests a slot carries are the subject of TunnelSlot. *)
(***************************************************************************)
EXTENDS Integers, FiniteSets

CONSTANTS
  Controls, Slots,  \* Control and Serve streams, each used once
  Free,             \* a lock nobody holds
  NoEntry,          \* a nil *node
  MaxRosters        \* bound on the rosters the Registry sends

ASSUME ConstantsAssumption ==
  /\ IsFiniteSet(Controls) /\ IsFiniteSet(Slots)
  /\ Controls \cap Slots = {} /\ {Free, NoEntry} \cap (Controls \cup Slots) = {}
  /\ MaxRosters \in Nat

Streams == Controls \cup Slots
Entries == Streams

VARIABLES
  link,        \* the Agent's end of a stream: off, open, draining, gone
  notice,      \* a Draining frame sent and neither read nor lost, per control
  pc, at,      \* where a stream's goroutine is, and the entry it got
  \* Server
  nodes,       \* nodes[node_id]
  sMu,         \* who holds Server.mu across steps
  roster,      \* version, and whether it disables / maintains this node
  closed, connected,
  setter,      \* SetRoster: what it does next, and the entry it found
  \* node, per entry
  nMu,         \* who holds node.mu across steps
  controls,    \* node.controls
  live,        \* the slots node.live counts
  draining, maintenance,
  revoked,     \* node.revoked is closed
  \* Agent
  told         \* the newest roster version sent on a control stream

server == <<nodes, sMu, roster, closed, connected, setter>>
node   == <<nMu, controls, live, draining, maintenance, revoked>>
vars   == <<link, notice, pc, at, server, node, told>>

Init ==
  /\ link = [s \in Streams |-> "off"] /\ notice = [c \in Controls |-> FALSE]
  /\ pc = [s \in Streams |-> "off"] /\ at = [s \in Streams |-> NoEntry]
  /\ nodes = NoEntry /\ sMu = Free
  /\ roster = [version |-> 0, revoked |-> FALSE, maintenance |-> FALSE]
  /\ closed = FALSE /\ connected = 0
  /\ setter = [pc |-> "idle", target |-> NoEntry]
  /\ nMu = [e \in Entries |-> Free]
  /\ controls = [e \in Entries |-> {}] /\ live = [e \in Entries |-> {}]
  /\ draining = [e \in Entries |-> FALSE]
  /\ maintenance = [e \in Entries |-> FALSE]
  /\ revoked = [e \in Entries |-> FALSE]
  /\ told = [c \in Controls |-> 0]

\* A step of stream s takes it from one place to another.
Goes(s, from, to) == pc[s] = from /\ pc' = [pc EXCEPT ![s] = to]
\* The rest of the state a step leaves alone, by part.
AgentSame == UNCHANGED <<link, notice>>
ServerSame == UNCHANGED server
NodeSame == UNCHANGED node

-----------------------------------------------------------------------------
(* The Agent (tunnel/client.go, manager.go).  It has one Control stream to  *)
(* a replica at a time and opens slots behind it; when the connection ends, *)
(* every stream of it does, and the replica notices each in its own time.   *)

Acked(c) == pc[c] \in {"welcome", "serving"}

DialControl(c) ==
  /\ \A d \in Controls : link[d] \in {"off", "gone"}
  /\ link[c] = "off" /\ link' = [link EXCEPT ![c] = "open"]
  /\ Goes(c, "off", "hello")
  /\ UNCHANGED <<notice, at, told>> /\ ServerSame /\ NodeSame

DialSlot(s) ==
  /\ \E c \in Controls : link[c] = "open" /\ Acked(c)
  /\ link[s] = "off" /\ link' = [link EXCEPT ![s] = "open"]
  /\ Goes(s, "off", "hello")
  /\ UNCHANGED <<notice, at, told>> /\ ServerSame /\ NodeSame

\* drain: Draining goes out and the stream is half-closed behind it.
AgentDrains(c) ==
  /\ link[c] = "open" /\ Acked(c)
  /\ link' = [link EXCEPT ![c] = "draining"]
  /\ notice' = [notice EXCEPT ![c] = TRUE]
  /\ UNCHANGED <<pc, at, told>> /\ ServerSame /\ NodeSame

\* The connection ends: the drain is over, the Agent died, or the network did.
Disconnect(c) ==
  /\ link[c] \in {"open", "draining"}
  /\ link' = [s \in Streams |-> IF link[s] = "off" THEN "off" ELSE "gone"]
  /\ UNCHANGED <<notice, pc, at, told>> /\ ServerSame /\ NodeSame

\* The pool retires one slot.
SlotEnds(s) ==
  /\ link[s] = "open" /\ link' = [link EXCEPT ![s] = "gone"]
  /\ UNCHANGED <<notice, pc, at, told>> /\ ServerSame /\ NodeSame

-----------------------------------------------------------------------------
(* Both kinds of stream: the handshake up to the entry, and the way out.    *)

\* The first frame is read and isRevoked says no; or the stream is over.
Check(s) ==
  /\ \/ sMu = Free /\ ~roster.revoked /\ Goes(s, "hello", "checked")
     \/ sMu = Free /\ roster.revoked /\ Goes(s, "hello", "done")
     \/ link[s] = "gone" /\ Goes(s, "hello", "done")
  /\ AgentSame /\ UNCHANGED <<at, told>> /\ ServerSame /\ NodeSame

\* Server.node: the entry, made when there is none; refused after Close.
Enter(s) ==
  /\ sMu = Free
  /\ IF closed
       THEN Goes(s, "checked", "done") /\ UNCHANGED <<at, nodes>>
       ELSE /\ Goes(s, "checked", "entered")
            /\ nodes' = IF nodes = NoEntry THEN s ELSE nodes
            /\ at' = [at EXCEPT ![s] = nodes']
  /\ AgentSame /\ NodeSame /\ UNCHANGED <<sMu, roster, closed, connected, setter, told>>

\* forget, first half: Server.mu is taken.
ForgetLock(s) ==
  /\ sMu = Free /\ Goes(s, "forget", "emptyCheck")
  /\ sMu' = s
  /\ AgentSame /\ NodeSame
  /\ UNCHANGED <<at, nodes, roster, closed, connected, setter, told>>

\* isEmpty, which takes node.mu.
IsEmpty(e) == controls[e] = {} /\ live[e] = {}

\* forget, second half, still under Server.mu: the entry goes if it is the
\* one in the table and empty.
Forget(s) ==
  /\ Goes(s, "emptyCheck", "done")
  /\ nodes = at[s] => nMu[at[s]] = Free
  /\ nodes' = IF nodes = at[s] /\ IsEmpty(at[s]) THEN NoEntry ELSE nodes
  /\ sMu' = Free
  /\ AgentSame /\ NodeSame
  /\ UNCHANGED <<at, roster, closed, connected, setter, told>>

-----------------------------------------------------------------------------
(* A Control stream.                                                        *)

\* The registration takes node.mu ...
Register(c) ==
  LET e == at[c] IN
  /\ c \in Controls /\ Goes(c, "entered", "register") /\ nMu[e] = Free
  /\ nMu' = [nMu EXCEPT ![e] = c]
  /\ controls' = [controls EXCEPT ![e] = @ \cup {c}]
  /\ draining' = [draining EXCEPT ![e] = FALSE]
  /\ AgentSame /\ ServerSame /\ UNCHANGED <<at, live, maintenance, revoked, told>>

\* Mutant: maintenance is reset like draining, not read from the roster.
ReadMaintenanceResets(c) ==
  LET e == at[c] IN
  /\ pc[c] = "register" /\ sMu = Free
  /\ maintenance' = [maintenance EXCEPT ![e] = FALSE]
  /\ nMu' = [nMu EXCEPT ![e] = Free]
  /\ Goes(c, "register", IF controls[e] = {c} THEN "count" ELSE "welcome")
  /\ AgentSame /\ ServerSame /\ UNCHANGED <<at, controls, live, draining, revoked, told>>

\* ... and under it asks isMaintenance, which takes Server.mu.
ReadMaintenance(c) ==
  LET e == at[c] IN
  /\ pc[c] = "register" /\ sMu = Free
  /\ maintenance' = [maintenance EXCEPT ![e] = roster.maintenance]
  /\ nMu' = [nMu EXCEPT ![e] = Free]
  /\ Goes(c, "register", IF controls[e] = {c} THEN "count" ELSE "welcome")
  /\ AgentSame /\ ServerSame /\ UNCHANGED <<at, controls, live, draining, revoked, told>>

\* controlsChanged(1), for the first stream of the entry.
CountUp(c) ==
  /\ sMu = Free /\ Goes(c, "count", "welcome")
  /\ connected' = connected + 1
  /\ AgentSame /\ NodeSame
  /\ UNCHANGED <<at, nodes, sMu, roster, closed, setter, told>>

\* Mutant: only the first Control stream of a node is sent the roster.
WelcomeFirstOnly(c) ==
  /\ sMu = Free /\ Goes(c, "welcome", "serving")
  /\ told' = [told EXCEPT ![c] = IF controls[at[c]] # {c} \/ @ > roster.version
                                   THEN @ ELSE roster.version]
  /\ AgentSame /\ ServerSame /\ NodeSame /\ UNCHANGED at

\* HelloAck, the slot hint and currentRoster go out.  The Agent keeps the
\* newest version it was sent, so the send is one step with the read.
Welcome(c) ==
  /\ sMu = Free /\ Goes(c, "welcome", "serving")
  /\ told' = [told EXCEPT ![c] = IF @ > roster.version THEN @ ELSE roster.version]
  /\ AgentSame /\ ServerSame /\ NodeSame /\ UNCHANGED at

\* serveControl on a Draining frame: the entry offers nothing any more, and
\* what was idle is closed.
RecvDraining(c) ==
  LET e == at[c] IN
  /\ pc[c] = "serving" /\ notice[c] /\ nMu[e] = Free
  /\ notice' = [notice EXCEPT ![c] = FALSE]
  /\ draining' = [draining EXCEPT ![e] = TRUE]
  /\ pc' = [s \in Streams |-> IF pc[s] = "parked" /\ at[s] = e THEN "closed" ELSE pc[s]]
  /\ ServerSame /\ UNCHANGED <<link, at, nMu, controls, live, maintenance, revoked, told>>

\* Mutant: every departing Control stream is counted as the node's last.
LeaveControlAlwaysCounts(c) ==
  LET e == at[c] IN
  /\ Goes(c, "serving", "uncount") /\ nMu[e] = Free
  /\ \/ link[c] = "gone" \/ revoked[e]
     \/ link[c] = "draining" /\ ~notice[c]
  /\ controls' = [controls EXCEPT ![e] = @ \ {c}]
  /\ AgentSame /\ ServerSame
  /\ UNCHANGED <<at, nMu, live, draining, maintenance, revoked, told>>

\* The stream is over for serveControl: an error, the half-close behind a
\* Draining, or the entry's revoked channel.  The deferred leave follows.
LeaveControl(c) ==
  LET e == at[c] IN
  /\ pc[c] = "serving" /\ nMu[e] = Free
  /\ \/ link[c] = "gone" \/ revoked[e]
     \/ link[c] = "draining" /\ ~notice[c]
  /\ Goes(c, "serving", IF controls[e] = {c} THEN "uncount" ELSE "forget")
  /\ controls' = [controls EXCEPT ![e] = @ \ {c}]
  /\ AgentSame /\ ServerSame
  /\ UNCHANGED <<at, nMu, live, draining, maintenance, revoked, told>>

\* controlsChanged(-1), for the last stream of the entry.
CountDown(c) ==
  /\ sMu = Free /\ Goes(c, "uncount", "forget")
  /\ connected' = connected - 1
  /\ AgentSame /\ NodeSame
  /\ UNCHANGED <<at, nodes, sMu, roster, closed, setter, told>>

-----------------------------------------------------------------------------
(* A slot stream.                                                           *)

AddLive(s) ==
  LET e == at[s] IN
  /\ s \in Slots /\ Goes(s, "entered", "parking") /\ nMu[e] = Free
  /\ live' = [live EXCEPT ![e] = @ \cup {s}]
  /\ AgentSame /\ ServerSame
  /\ UNCHANGED <<at, nMu, controls, draining, maintenance, revoked, told>>

\* node.park: offered, or refused because the node drains.
ParkSlot(s) ==
  /\ pc[s] = "parking" /\ nMu[at[s]] = Free
  /\ Goes(s, "parking", IF draining[at[s]] THEN "leave" ELSE "parked")
  /\ AgentSame /\ ServerSame /\ NodeSame /\ UNCHANGED <<at, told>>

\* Dispatch: lookup, then acquire, which refuses a draining node.
Take(s) ==
  /\ sMu = Free /\ nodes # NoEntry /\ at[s] = nodes
  /\ nMu[nodes] = Free /\ ~draining[nodes]
  /\ Goes(s, "parked", "busy")
  /\ AgentSame /\ ServerSame /\ NodeSame /\ UNCHANGED <<at, told>>

\* The request is over and the Agent sends Ready.
Ready(s) ==
  /\ link[s] = "open" /\ Goes(s, "busy", "parking")
  /\ AgentSame /\ ServerSame /\ NodeSame /\ UNCHANGED <<at, told>>

\* The stream ends; a slot the replica closed is noticed by the Agent's end.
SlotOver(s) ==
  /\ link[s] = "gone"
  /\ \E from \in {"parked", "busy", "closed"} : Goes(s, from, "leave")
  /\ AgentSame /\ ServerSame /\ NodeSame /\ UNCHANGED <<at, told>>

\* Mutant: a slot that leaves does not try to forget the entry.
LeaveSlotForgetless(s) ==
  LET e == at[s] IN
  /\ Goes(s, "leave", "done") /\ nMu[e] = Free
  /\ live' = [live EXCEPT ![e] = @ \ {s}]
  /\ AgentSame /\ ServerSame
  /\ UNCHANGED <<at, nMu, controls, draining, maintenance, revoked, told>>

LeaveSlot(s) ==
  LET e == at[s] IN
  /\ Goes(s, "leave", "forget") /\ nMu[e] = Free
  /\ live' = [live EXCEPT ![e] = @ \ {s}]
  /\ AgentSame /\ ServerSame
  /\ UNCHANGED <<at, nMu, controls, draining, maintenance, revoked, told>>

-----------------------------------------------------------------------------
(* The roster, from the one goroutine that follows the Registry, and Close. *)

SetterGoes(from, to) ==
  setter.pc = from /\ setter' = [setter EXCEPT !.pc = to]

\* SetRoster under Server.mu: install, and find the entry.
InstallRoster ==
  /\ setter.pc = "idle" /\ sMu = Free /\ roster.version < MaxRosters
  /\ \E dis, mnt \in BOOLEAN :
       roster' = [version |-> roster.version + 1, revoked |-> dis, maintenance |-> mnt]
  /\ setter' = IF nodes = NoEntry THEN setter ELSE [pc |-> "mark", target |-> nodes]
  /\ AgentSame /\ NodeSame
  /\ UNCHANGED <<pc, at, nodes, sMu, closed, connected, told>>

\* setMaintenance.
SetMaintenance ==
  LET e == setter.target IN
  /\ SetterGoes("mark", "broadcast") /\ nMu[e] = Free
  /\ maintenance' = [maintenance EXCEPT ![e] = roster.maintenance]
  /\ AgentSame
  /\ UNCHANGED <<pc, at, nodes, sMu, roster, closed, connected,
                 nMu, controls, live, draining, revoked, told>>

\* broadcast: the roster goes to the Control streams of the entry.
Broadcast ==
  LET e == setter.target IN
  /\ setter.pc = "broadcast" /\ nMu[e] = Free
  /\ SetterGoes("broadcast", IF roster.revoked /\ ~revoked[e] THEN "kill" ELSE "idle")
  /\ told' = [c \in Controls |-> IF c \in controls[e] THEN roster.version ELSE told[c]]
  /\ AgentSame /\ NodeSame
  /\ UNCHANGED <<pc, at, nodes, sMu, roster, closed, connected>>

\* kill, once per entry: the channel is closed first ...
Kill ==
  /\ SetterGoes("kill", "drain")
  /\ revoked' = [revoked EXCEPT ![setter.target] = TRUE]
  /\ AgentSame
  /\ UNCHANGED <<pc, at, nodes, sMu, roster, closed, connected,
                 nMu, controls, live, draining, maintenance, told>>

\* ... and then node.mu is taken to withdraw what is idle.
KillDrains ==
  LET e == setter.target IN
  /\ SetterGoes("drain", "idle") /\ nMu[e] = Free
  /\ draining' = [draining EXCEPT ![e] = TRUE]
  /\ pc' = [s \in Streams |-> IF pc[s] = "parked" /\ at[s] = e THEN "closed" ELSE pc[s]]
  /\ AgentSame
  /\ UNCHANGED <<at, nodes, sMu, roster, closed, connected,
                 nMu, controls, live, maintenance, revoked, told>>

\* Close.  The Agent may answer its Shutdown frame with AgentDrains.
Close ==
  /\ ~closed /\ sMu = Free /\ closed' = TRUE
  /\ AgentSame /\ NodeSame
  /\ UNCHANGED <<pc, at, nodes, sMu, roster, connected, setter, told>>

-----------------------------------------------------------------------------
ControlStep(c) == \/ Register(c) \/ ReadMaintenance(c) \/ CountUp(c) \/ Welcome(c)
                  \/ RecvDraining(c) \/ LeaveControl(c) \/ CountDown(c)
SlotStep(s) == AddLive(s) \/ ParkSlot(s) \/ SlotOver(s) \/ LeaveSlot(s)
StreamStep(s) == Check(s) \/ Enter(s) \/ ForgetLock(s) \/ Forget(s)
SetterStep == SetMaintenance \/ Broadcast \/ Kill \/ KillDrains

Next ==
  \/ \E s \in Streams : StreamStep(s)
  \/ \E c \in Controls : ControlStep(c) \/ DialControl(c) \/ AgentDrains(c) \/ Disconnect(c)
  \/ \E s \in Slots : SlotStep(s) \/ DialSlot(s) \/ SlotEnds(s) \/ Take(s) \/ Ready(s)
  \/ InstallRoster \/ SetterStep \/ Close

Spec == Init /\ [][Next]_vars

\* A goroutine that can take a step eventually does: Go's scheduler runs it
\* and Go's mutexes do not starve a waiter.  The Agent, the Registry and Close
\* need not do anything.
Fairness ==
  /\ \A c \in Controls : WF_vars(StreamStep(c)) /\ WF_vars(ControlStep(c))
  /\ \A s \in Slots : WF_vars(StreamStep(s)) /\ WF_vars(SlotStep(s))
  /\ WF_vars(SetterStep)

FairSpec == Spec /\ Fairness

-----------------------------------------------------------------------------
(* Properties.                                                              *)

Steps == {"off", "hello", "checked", "entered", "register", "count", "welcome",
          "serving", "uncount", "parking", "parked", "busy", "closed", "leave",
          "forget", "emptyCheck", "done"}

TableType ==
  /\ link \in [Streams -> {"off", "open", "draining", "gone"}]
  /\ notice \in [Controls -> BOOLEAN]
  /\ pc \in [Streams -> Steps]
  /\ at \in [Streams -> Entries \cup {NoEntry}]
  /\ nodes \in Entries \cup {NoEntry}
  /\ sMu \in Streams \cup {Free}
  /\ roster \in [version : 0 .. MaxRosters, revoked : BOOLEAN, maintenance : BOOLEAN]
  /\ closed \in BOOLEAN /\ connected \in Int
  /\ setter \in [pc : {"idle", "mark", "broadcast", "kill", "drain"},
                 target : Entries \cup {NoEntry}]
  /\ nMu \in [Entries -> Streams \cup {Free}]
  /\ controls \in [Entries -> SUBSET Controls] /\ live \in [Entries -> SUBSET Slots]
  /\ draining \in [Entries -> BOOLEAN]
  /\ maintenance \in [Entries -> BOOLEAN]
  /\ revoked \in [Entries -> BOOLEAN]
  /\ told \in [Controls -> 0 .. MaxRosters]

\* Type correctness of the table, its entries and the streams; and the
\* connected-node count, which departures lower, never goes below zero.
TypeOK == TableType /\ connected \in Nat

\* The streams in an entry: attached as a Control stream or as a slot, about
\* to be, or on the way out.
Attached == {"register", "count", "welcome", "serving"}
Counted == {"parking", "parked", "busy", "closed", "leave"}
Inside == Attached \cup Counted \cup {"entered", "uncount", "forget", "emptyCheck"}

\* Control streams that registered first and left last, with controlsChanged
\* still to be called.
OwesUp == {c \in Controls : \/ pc[c] = "count"
                            \/ pc[c] = "register" /\ controls[at[c]] = {c}}
OwesDown == {c \in Controls : pc[c] = "uncount"}
Occupied == {e \in Entries : controls[e] # {}}

\* The connected-node count is exact up to the changes still owed by streams
\* that have registered or left and not yet called controlsChanged, however
\* many streams of the node overlap.
ConnectedExact ==
  connected + Cardinality(OwesUp) = Cardinality(Occupied) + Cardinality(OwesDown)

\* No entry is left behind in the table: when the node's last stream is over,
\* the entry is forgotten, whichever way the departures overlapped.
NoEntryLeak ==
  (\A s \in Streams : pc[s] \in {"off", "hello", "checked", "done"}) => nodes = NoEntry

\* Outside a SetRoster call the entry in the table agrees with the roster
\* about maintenance: a reconnect during the call never leaves the old value.
MaintenanceCurrent ==
  /\ setter.pc = "idle" /\ nodes # NoEntry
  /\ controls[nodes] # {} /\ nMu[nodes] = Free
  => maintenance[nodes] = roster.maintenance

\* Outside a SetRoster call every Control stream served by the entry in the
\* table has been sent the installed roster: one that connects during the call
\* gets it from the broadcast or from its own welcome.
RosterReachesAll ==
  setter.pc = "idle" =>
    \A c \in Controls : pc[c] = "serving" /\ at[c] = nodes => told[c] = roster.version

-----------------------------------------------------------------------------
(* The inductive invariant behind these properties.                         *)

\* An entry is known to its own maker for good, and nobody else's step can
\* make it again.
Places ==
  /\ \A s \in Streams : pc[s] \in {"off", "hello", "checked"} => at[s] = NoEntry
  /\ \A s \in Streams : pc[s] \in Inside => at[s] \in Entries
  /\ \A s \in Streams : at[s] \in Entries => at[at[s]] = at[s]
  /\ nodes # NoEntry => at[nodes] = nodes
  /\ \A s \in Slots : pc[s] \notin Attached \cup {"uncount"}
  /\ \A c \in Controls : pc[c] \notin Counted
  /\ setter.pc # "idle" => setter.target \in Entries

\* An entry holds exactly the streams that are attached to it.
Members ==
  \A e \in Entries :
    /\ controls[e] = {c \in Controls : at[c] = e /\ pc[c] \in Attached}
    /\ live[e] = {s \in Slots : at[s] = e /\ pc[s] \in Counted}

\* node.mu is held across steps by a registration only.
Locks == \A e \in Entries, s \in Streams :
           nMu[e] = s <=> at[s] = e /\ pc[s] = "register"

\* The entry in the table has a stream that will try to forget it.
Held == nodes # NoEntry => \E s \in Streams : at[s] = nodes /\ pc[s] \in Inside

\* At most one stream of an entry owes the count its +1.
OneOwes == \A c, d \in OwesUp : at[c] = at[d] => c = d

\* MaintenanceCurrent, except for the entry SetRoster has yet to mark.
MaintenanceKept ==
  nodes # NoEntry /\ controls[nodes] # {} /\ nMu[nodes] = Free =>
    \/ setter.pc = "mark" /\ setter.target = nodes
    \/ maintenance[nodes] = roster.maintenance

\* RosterReachesAll, except for the entry SetRoster has yet to broadcast to.
RosterKept ==
  /\ \A c \in Controls : told[c] <= roster.version
  /\ \A c \in Controls :
       pc[c] = "serving" /\ at[c] = nodes =>
         \/ setter.pc \in {"mark", "broadcast"} /\ setter.target = nodes
         \/ told[c] = roster.version

\* The node table at any moment: what ConnectedExact, NoEntryLeak,
\* MaintenanceCurrent and RosterReachesAll rest on.
TableInv == /\ TableType /\ Places /\ Members /\ Locks /\ Held /\ OneOwes
            /\ ConnectedExact /\ MaintenanceKept /\ RosterKept

-----------------------------------------------------------------------------
(* What the comments of the code say and the code does not keep.            *)

\* node.go says of an entry: "It is dropped only once the last of those
\* streams is gone".  The entry of a stream that is registered is therefore
\* the one in the table.
EntryKept ==
  \A s \in Streams : pc[s] \in Attached \cup Counted => at[s] = nodes

\* server.go says of SetRoster: "disabling a node must take effect against a
\* connection this replica already holds open".  After the call, an entry that
\* serves a Control stream of a disabled node has been killed.
DisabledNodeGone ==
  setter.pc = "idle" /\ roster.revoked =>
    \A c \in Controls : pc[c] = "serving" => revoked[at[c]]

\* control.go says: "Draining describes the stream it was announced on, and
\* that stream is gone".  An entry that was not killed drains only while a
\* Control stream that announced it is there, or none is.
DrainingIsOwn ==
  \A e \in Entries :
    draining[e] /\ ~revoked[e] /\ controls[e] # {} =>
      \E c \in controls[e] : link[c] # "open"

\* control.go says of Control: it "returns when the Agent disconnects".
DisconnectedReturns ==
  \A c \in Controls : link[c] = "gone" ~> pc[c] \in {"off", "done"}
=============================================================================
