------------------------- MODULE NodeRegistryProofs -------------------------
(***************************************************************************)
(* Proofs about the node table, for any number of streams and rosters:      *)
(* TableInv is inductive, and what the runs check of NodeRegistry follows    *)
(* from it.  Each lemma below takes one part of TableInv through every       *)
(* action; the parts are ordered so that each uses the earlier ones only.    *)
(***************************************************************************)
EXTENDS NodeRegistry, FiniteSetTheorems, TLAPS


\* Types.  Places is needed for the entry a Server.node call hands out.
LEMMA TypeStep ==
  ASSUME TableType, Places, [Next]_vars
  PROVE  TableType'
<1>1. ASSUME NEW s \in Streams, Check(s) PROVE TableType'
  BY <1>1, ConstantsAssumption DEF Check, Goes, AgentSame, ServerSame, NodeSame,
     server, node, TableType, Steps, Streams, Entries, Places, Inside, Attached,
     Counted
<1>2. ASSUME NEW s \in Streams, Enter(s) PROVE TableType'
  BY <1>2, ConstantsAssumption DEF Enter, Goes, AgentSame, ServerSame, NodeSame,
     server, node, TableType, Steps, Streams, Entries, Places, Inside, Attached,
     Counted
<1>3. ASSUME NEW s \in Streams, ForgetLock(s) PROVE TableType'
  BY <1>3, ConstantsAssumption DEF ForgetLock, Goes, AgentSame, ServerSame,
     NodeSame, server, node, TableType, Steps, Streams, Entries, Places, Inside,
     Attached, Counted
<1>4. ASSUME NEW s \in Streams, Forget(s) PROVE TableType'
  BY <1>4, ConstantsAssumption DEF Forget, Goes, AgentSame, ServerSame,
     NodeSame, server, node, TableType, Steps, Streams, Entries, Places, Inside,
     Attached, Counted
<1>5. ASSUME NEW c \in Controls, Register(c) PROVE TableType'
  BY <1>5, ConstantsAssumption DEF Register, Goes, AgentSame, ServerSame,
     NodeSame, server, node, TableType, Steps, Streams, Entries, Places, Inside,
     Attached, Counted
<1>6. ASSUME NEW c \in Controls, ReadMaintenance(c) PROVE TableType'
  BY <1>6, ConstantsAssumption DEF ReadMaintenance, Goes, AgentSame, ServerSame,
     NodeSame, server, node, TableType, Steps, Streams, Entries, Places, Inside,
     Attached, Counted
<1>7. ASSUME NEW c \in Controls, CountUp(c) PROVE TableType'
  BY <1>7, ConstantsAssumption DEF CountUp, Goes, AgentSame, ServerSame,
     NodeSame, server, node, TableType, Steps, Streams, Entries, Places, Inside,
     Attached, Counted
<1>8. ASSUME NEW c \in Controls, Welcome(c) PROVE TableType'
  BY <1>8, ConstantsAssumption DEF Welcome, Goes, AgentSame, ServerSame,
     NodeSame, server, node, TableType, Steps, Streams, Entries, Places, Inside,
     Attached, Counted
<1>9. ASSUME NEW c \in Controls, RecvDraining(c) PROVE TableType'
  BY <1>9, ConstantsAssumption DEF RecvDraining, Goes, AgentSame, ServerSame,
     NodeSame, server, node, TableType, Steps, Streams, Entries, Places, Inside,
     Attached, Counted
<1>10. ASSUME NEW c \in Controls, LeaveControl(c) PROVE TableType'
  BY <1>10, ConstantsAssumption DEF LeaveControl, Goes, AgentSame, ServerSame,
     NodeSame, server, node, TableType, Steps, Streams, Entries, Places, Inside,
     Attached, Counted
<1>11. ASSUME NEW c \in Controls, CountDown(c) PROVE TableType'
  BY <1>11, ConstantsAssumption DEF CountDown, Goes, AgentSame, ServerSame,
     NodeSame, server, node, TableType, Steps, Streams, Entries, Places, Inside,
     Attached, Counted
<1>12. ASSUME NEW c \in Controls, DialControl(c) PROVE TableType'
  BY <1>12, ConstantsAssumption DEF DialControl, Goes, AgentSame, ServerSame,
     NodeSame, server, node, TableType, Steps, Streams, Entries, Places, Inside,
     Attached, Counted
<1>13. ASSUME NEW c \in Controls, AgentDrains(c) PROVE TableType'
  BY <1>13, ConstantsAssumption DEF AgentDrains, Goes, AgentSame, ServerSame,
     NodeSame, server, node, TableType, Steps, Streams, Entries, Places, Inside,
     Attached, Counted
<1>14. ASSUME NEW c \in Controls, Disconnect(c) PROVE TableType'
  BY <1>14, ConstantsAssumption DEF Disconnect, Goes, AgentSame, ServerSame,
     NodeSame, server, node, TableType, Steps, Streams, Entries, Places, Inside,
     Attached, Counted
<1>15. ASSUME NEW s \in Slots, AddLive(s) PROVE TableType'
  BY <1>15, ConstantsAssumption DEF AddLive, Goes, AgentSame, ServerSame,
     NodeSame, server, node, TableType, Steps, Streams, Entries, Places, Inside,
     Attached, Counted
<1>16. ASSUME NEW s \in Slots, ParkSlot(s) PROVE TableType'
  BY <1>16, ConstantsAssumption DEF ParkSlot, Goes, AgentSame, ServerSame,
     NodeSame, server, node, TableType, Steps, Streams, Entries, Places, Inside,
     Attached, Counted
<1>17. ASSUME NEW s \in Slots, SlotOver(s) PROVE TableType'
  BY <1>17, ConstantsAssumption DEF SlotOver, Goes, AgentSame, ServerSame,
     NodeSame, server, node, TableType, Steps, Streams, Entries, Places, Inside,
     Attached, Counted
<1>18. ASSUME NEW s \in Slots, LeaveSlot(s) PROVE TableType'
  BY <1>18, ConstantsAssumption DEF LeaveSlot, Goes, AgentSame, ServerSame,
     NodeSame, server, node, TableType, Steps, Streams, Entries, Places, Inside,
     Attached, Counted
<1>19. ASSUME NEW s \in Slots, DialSlot(s) PROVE TableType'
  BY <1>19, ConstantsAssumption DEF DialSlot, Goes, AgentSame, ServerSame,
     NodeSame, server, node, TableType, Steps, Streams, Entries, Places, Inside,
     Attached, Counted
<1>20. ASSUME NEW s \in Slots, SlotEnds(s) PROVE TableType'
  BY <1>20, ConstantsAssumption DEF SlotEnds, Goes, AgentSame, ServerSame,
     NodeSame, server, node, TableType, Steps, Streams, Entries, Places, Inside,
     Attached, Counted
<1>21. ASSUME NEW s \in Slots, Take(s) PROVE TableType'
  BY <1>21, ConstantsAssumption DEF Take, Goes, AgentSame, ServerSame, NodeSame,
     server, node, TableType, Steps, Streams, Entries, Places, Inside, Attached,
     Counted
<1>22. ASSUME NEW s \in Slots, Ready(s) PROVE TableType'
  BY <1>22, ConstantsAssumption DEF Ready, Goes, AgentSame, ServerSame,
     NodeSame, server, node, TableType, Steps, Streams, Entries, Places, Inside,
     Attached, Counted
<1>23. ASSUME InstallRoster PROVE TableType'
  BY <1>23, ConstantsAssumption DEF InstallRoster, AgentSame, NodeSame, node,
     TableType, Steps, Streams, Entries, Places, Inside, Attached, Counted
<1>24. ASSUME SetMaintenance PROVE TableType'
  BY <1>24, ConstantsAssumption DEF SetMaintenance, SetterGoes, AgentSame,
     NodeSame, node, TableType, Steps, Streams, Entries, Places, Inside,
     Attached, Counted
<1>25. ASSUME Broadcast PROVE TableType'
  BY <1>25, ConstantsAssumption DEF Broadcast, SetterGoes, AgentSame, NodeSame,
     node, TableType, Steps, Streams, Entries, Places, Inside, Attached, Counted
<1>26. ASSUME Kill PROVE TableType'
  BY <1>26, ConstantsAssumption DEF Kill, SetterGoes, AgentSame, NodeSame, node,
     TableType, Steps, Streams, Entries, Places, Inside, Attached, Counted
<1>27. ASSUME KillDrains PROVE TableType'
  BY <1>27, ConstantsAssumption DEF KillDrains, SetterGoes, AgentSame, NodeSame,
     node, TableType, Steps, Streams, Entries, Places, Inside, Attached, Counted
<1>28. ASSUME Close PROVE TableType'
  BY <1>28, ConstantsAssumption DEF Close, AgentSame, NodeSame, node, TableType,
     Steps, Streams, Entries, Places, Inside, Attached, Counted
<1>29. CASE UNCHANGED vars
  BY <1>29 DEF vars, server, node, TableType, Steps, Streams, Entries, Places,
     Inside, Attached, Counted
<1>30. QED
  BY <1>1, <1>2, <1>3, <1>4, <1>5, <1>6, <1>7, <1>8, <1>9, <1>10, <1>11, <1>12,
     <1>13, <1>14, <1>15, <1>16, <1>17, <1>18, <1>19, <1>20, <1>21, <1>22,
     <1>23, <1>24, <1>25, <1>26, <1>27, <1>28, <1>29 DEF Next, StreamStep,
     ControlStep, SlotStep, SetterStep

\* Where streams are: Server.node is the only step that gives out an entry.
LEMMA PlacesStep ==
  ASSUME TableType, Places, [Next]_vars
  PROVE  Places'
<1>1. ASSUME NEW s \in Streams, Check(s) PROVE Places'
  BY <1>1, ConstantsAssumption DEF Check, Goes, AgentSame, ServerSame, NodeSame,
     server, node, TableType, Steps, Streams, Entries, Places, Inside, Attached,
     Counted
<1>2. ASSUME NEW s \in Streams, Enter(s) PROVE Places'
  BY <1>2, ConstantsAssumption DEF Enter, Goes, AgentSame, ServerSame, NodeSame,
     server, node, TableType, Steps, Streams, Entries, Places, Inside, Attached,
     Counted
<1>3. ASSUME NEW s \in Streams, ForgetLock(s) PROVE Places'
  BY <1>3, ConstantsAssumption DEF ForgetLock, Goes, AgentSame, ServerSame,
     NodeSame, server, node, TableType, Steps, Streams, Entries, Places, Inside,
     Attached, Counted
<1>4. ASSUME NEW s \in Streams, Forget(s) PROVE Places'
  BY <1>4, ConstantsAssumption DEF Forget, Goes, AgentSame, ServerSame,
     NodeSame, server, node, TableType, Steps, Streams, Entries, Places, Inside,
     Attached, Counted
<1>5. ASSUME NEW c \in Controls, Register(c) PROVE Places'
  BY <1>5, ConstantsAssumption DEF Register, Goes, AgentSame, ServerSame,
     NodeSame, server, node, TableType, Steps, Streams, Entries, Places, Inside,
     Attached, Counted
<1>6. ASSUME NEW c \in Controls, ReadMaintenance(c) PROVE Places'
  BY <1>6, ConstantsAssumption DEF ReadMaintenance, Goes, AgentSame, ServerSame,
     NodeSame, server, node, TableType, Steps, Streams, Entries, Places, Inside,
     Attached, Counted
<1>7. ASSUME NEW c \in Controls, CountUp(c) PROVE Places'
  BY <1>7, ConstantsAssumption DEF CountUp, Goes, AgentSame, ServerSame,
     NodeSame, server, node, TableType, Steps, Streams, Entries, Places, Inside,
     Attached, Counted
<1>8. ASSUME NEW c \in Controls, Welcome(c) PROVE Places'
  BY <1>8, ConstantsAssumption DEF Welcome, Goes, AgentSame, ServerSame,
     NodeSame, server, node, TableType, Steps, Streams, Entries, Places, Inside,
     Attached, Counted
<1>9. ASSUME NEW c \in Controls, RecvDraining(c) PROVE Places'
  BY <1>9, ConstantsAssumption DEF RecvDraining, Goes, AgentSame, ServerSame,
     NodeSame, server, node, TableType, Steps, Streams, Entries, Places, Inside,
     Attached, Counted
<1>10. ASSUME NEW c \in Controls, LeaveControl(c) PROVE Places'
  BY <1>10, ConstantsAssumption DEF LeaveControl, Goes, AgentSame, ServerSame,
     NodeSame, server, node, TableType, Steps, Streams, Entries, Places, Inside,
     Attached, Counted
<1>11. ASSUME NEW c \in Controls, CountDown(c) PROVE Places'
  BY <1>11, ConstantsAssumption DEF CountDown, Goes, AgentSame, ServerSame,
     NodeSame, server, node, TableType, Steps, Streams, Entries, Places, Inside,
     Attached, Counted
<1>12. ASSUME NEW c \in Controls, DialControl(c) PROVE Places'
  BY <1>12, ConstantsAssumption DEF DialControl, Goes, AgentSame, ServerSame,
     NodeSame, server, node, TableType, Steps, Streams, Entries, Places, Inside,
     Attached, Counted
<1>13. ASSUME NEW c \in Controls, AgentDrains(c) PROVE Places'
  BY <1>13, ConstantsAssumption DEF AgentDrains, Goes, AgentSame, ServerSame,
     NodeSame, server, node, TableType, Steps, Streams, Entries, Places, Inside,
     Attached, Counted
<1>14. ASSUME NEW c \in Controls, Disconnect(c) PROVE Places'
  BY <1>14, ConstantsAssumption DEF Disconnect, Goes, AgentSame, ServerSame,
     NodeSame, server, node, TableType, Steps, Streams, Entries, Places, Inside,
     Attached, Counted
<1>15. ASSUME NEW s \in Slots, AddLive(s) PROVE Places'
  BY <1>15, ConstantsAssumption DEF AddLive, Goes, AgentSame, ServerSame,
     NodeSame, server, node, TableType, Steps, Streams, Entries, Places, Inside,
     Attached, Counted
<1>16. ASSUME NEW s \in Slots, ParkSlot(s) PROVE Places'
  BY <1>16, ConstantsAssumption DEF ParkSlot, Goes, AgentSame, ServerSame,
     NodeSame, server, node, TableType, Steps, Streams, Entries, Places, Inside,
     Attached, Counted
<1>17. ASSUME NEW s \in Slots, SlotOver(s) PROVE Places'
  BY <1>17, ConstantsAssumption DEF SlotOver, Goes, AgentSame, ServerSame,
     NodeSame, server, node, TableType, Steps, Streams, Entries, Places, Inside,
     Attached, Counted
<1>18. ASSUME NEW s \in Slots, LeaveSlot(s) PROVE Places'
  BY <1>18, ConstantsAssumption DEF LeaveSlot, Goes, AgentSame, ServerSame,
     NodeSame, server, node, TableType, Steps, Streams, Entries, Places, Inside,
     Attached, Counted
<1>19. ASSUME NEW s \in Slots, DialSlot(s) PROVE Places'
  BY <1>19, ConstantsAssumption DEF DialSlot, Goes, AgentSame, ServerSame,
     NodeSame, server, node, TableType, Steps, Streams, Entries, Places, Inside,
     Attached, Counted
<1>20. ASSUME NEW s \in Slots, SlotEnds(s) PROVE Places'
  BY <1>20, ConstantsAssumption DEF SlotEnds, Goes, AgentSame, ServerSame,
     NodeSame, server, node, TableType, Steps, Streams, Entries, Places, Inside,
     Attached, Counted
<1>21. ASSUME NEW s \in Slots, Take(s) PROVE Places'
  BY <1>21, ConstantsAssumption DEF Take, Goes, AgentSame, ServerSame, NodeSame,
     server, node, TableType, Steps, Streams, Entries, Places, Inside, Attached,
     Counted
<1>22. ASSUME NEW s \in Slots, Ready(s) PROVE Places'
  BY <1>22, ConstantsAssumption DEF Ready, Goes, AgentSame, ServerSame,
     NodeSame, server, node, TableType, Steps, Streams, Entries, Places, Inside,
     Attached, Counted
<1>23. ASSUME InstallRoster PROVE Places'
  BY <1>23, ConstantsAssumption DEF InstallRoster, AgentSame, NodeSame, node,
     TableType, Steps, Streams, Entries, Places, Inside, Attached, Counted
<1>24. ASSUME SetMaintenance PROVE Places'
  BY <1>24, ConstantsAssumption DEF SetMaintenance, SetterGoes, AgentSame,
     NodeSame, node, TableType, Steps, Streams, Entries, Places, Inside,
     Attached, Counted
<1>25. ASSUME Broadcast PROVE Places'
  BY <1>25, ConstantsAssumption DEF Broadcast, SetterGoes, AgentSame, NodeSame,
     node, TableType, Steps, Streams, Entries, Places, Inside, Attached, Counted
<1>26. ASSUME Kill PROVE Places'
  BY <1>26, ConstantsAssumption DEF Kill, SetterGoes, AgentSame, NodeSame, node,
     TableType, Steps, Streams, Entries, Places, Inside, Attached, Counted
<1>27. ASSUME KillDrains PROVE Places'
  BY <1>27, ConstantsAssumption DEF KillDrains, SetterGoes, AgentSame, NodeSame,
     node, TableType, Steps, Streams, Entries, Places, Inside, Attached, Counted
<1>28. ASSUME Close PROVE Places'
  BY <1>28, ConstantsAssumption DEF Close, AgentSame, NodeSame, node, TableType,
     Steps, Streams, Entries, Places, Inside, Attached, Counted
<1>29. CASE UNCHANGED vars
  BY <1>29 DEF vars, server, node, TableType, Steps, Streams, Entries, Places,
     Inside, Attached, Counted
<1>30. QED
  BY <1>1, <1>2, <1>3, <1>4, <1>5, <1>6, <1>7, <1>8, <1>9, <1>10, <1>11, <1>12,
     <1>13, <1>14, <1>15, <1>16, <1>17, <1>18, <1>19, <1>20, <1>21, <1>22,
     <1>23, <1>24, <1>25, <1>26, <1>27, <1>28, <1>29 DEF Next, StreamStep,
     ControlStep, SlotStep, SetterStep

\* node.mu across steps: taken in Register, released in ReadMaintenance.
LEMMA LocksStep ==
  ASSUME TableType, Places, Locks, [Next]_vars
  PROVE  Locks'
<1>1. ASSUME NEW s \in Streams, Check(s) PROVE Locks'
  BY <1>1, ConstantsAssumption DEF Check, Goes, AgentSame, ServerSame, NodeSame,
     server, node, TableType, Steps, Streams, Entries, Places, Inside, Attached,
     Counted, Locks
<1>2. ASSUME NEW s \in Streams, Enter(s) PROVE Locks'
  BY <1>2, ConstantsAssumption DEF Enter, Goes, AgentSame, ServerSame, NodeSame,
     server, node, TableType, Steps, Streams, Entries, Places, Inside, Attached,
     Counted, Locks
<1>3. ASSUME NEW s \in Streams, ForgetLock(s) PROVE Locks'
  BY <1>3, ConstantsAssumption DEF ForgetLock, Goes, AgentSame, ServerSame,
     NodeSame, server, node, TableType, Steps, Streams, Entries, Places, Inside,
     Attached, Counted, Locks
<1>4. ASSUME NEW s \in Streams, Forget(s) PROVE Locks'
  BY <1>4, ConstantsAssumption DEF Forget, Goes, AgentSame, ServerSame,
     NodeSame, server, node, TableType, Steps, Streams, Entries, Places, Inside,
     Attached, Counted, Locks
<1>5. ASSUME NEW c \in Controls, Register(c) PROVE Locks'
  BY <1>5, ConstantsAssumption DEF Register, Goes, AgentSame, ServerSame,
     NodeSame, server, node, TableType, Steps, Streams, Entries, Places, Inside,
     Attached, Counted, Locks
<1>6. ASSUME NEW c \in Controls, ReadMaintenance(c) PROVE Locks'
  BY <1>6, ConstantsAssumption DEF ReadMaintenance, Goes, AgentSame, ServerSame,
     NodeSame, server, node, TableType, Steps, Streams, Entries, Places, Inside,
     Attached, Counted, Locks
<1>7. ASSUME NEW c \in Controls, CountUp(c) PROVE Locks'
  BY <1>7, ConstantsAssumption DEF CountUp, Goes, AgentSame, ServerSame,
     NodeSame, server, node, TableType, Steps, Streams, Entries, Places, Inside,
     Attached, Counted, Locks
<1>8. ASSUME NEW c \in Controls, Welcome(c) PROVE Locks'
  BY <1>8, ConstantsAssumption DEF Welcome, Goes, AgentSame, ServerSame,
     NodeSame, server, node, TableType, Steps, Streams, Entries, Places, Inside,
     Attached, Counted, Locks
<1>9. ASSUME NEW c \in Controls, RecvDraining(c) PROVE Locks'
  BY <1>9, ConstantsAssumption DEF RecvDraining, Goes, AgentSame, ServerSame,
     NodeSame, server, node, TableType, Steps, Streams, Entries, Places, Inside,
     Attached, Counted, Locks
<1>10. ASSUME NEW c \in Controls, LeaveControl(c) PROVE Locks'
  BY <1>10, ConstantsAssumption DEF LeaveControl, Goes, AgentSame, ServerSame,
     NodeSame, server, node, TableType, Steps, Streams, Entries, Places, Inside,
     Attached, Counted, Locks
<1>11. ASSUME NEW c \in Controls, CountDown(c) PROVE Locks'
  BY <1>11, ConstantsAssumption DEF CountDown, Goes, AgentSame, ServerSame,
     NodeSame, server, node, TableType, Steps, Streams, Entries, Places, Inside,
     Attached, Counted, Locks
<1>12. ASSUME NEW c \in Controls, DialControl(c) PROVE Locks'
  BY <1>12, ConstantsAssumption DEF DialControl, Goes, AgentSame, ServerSame,
     NodeSame, server, node, TableType, Steps, Streams, Entries, Places, Inside,
     Attached, Counted, Locks
<1>13. ASSUME NEW c \in Controls, AgentDrains(c) PROVE Locks'
  BY <1>13, ConstantsAssumption DEF AgentDrains, Goes, AgentSame, ServerSame,
     NodeSame, server, node, TableType, Steps, Streams, Entries, Places, Inside,
     Attached, Counted, Locks
<1>14. ASSUME NEW c \in Controls, Disconnect(c) PROVE Locks'
  BY <1>14, ConstantsAssumption DEF Disconnect, Goes, AgentSame, ServerSame,
     NodeSame, server, node, TableType, Steps, Streams, Entries, Places, Inside,
     Attached, Counted, Locks
<1>15. ASSUME NEW s \in Slots, AddLive(s) PROVE Locks'
  BY <1>15, ConstantsAssumption DEF AddLive, Goes, AgentSame, ServerSame,
     NodeSame, server, node, TableType, Steps, Streams, Entries, Places, Inside,
     Attached, Counted, Locks
<1>16. ASSUME NEW s \in Slots, ParkSlot(s) PROVE Locks'
  BY <1>16, ConstantsAssumption DEF ParkSlot, Goes, AgentSame, ServerSame,
     NodeSame, server, node, TableType, Steps, Streams, Entries, Places, Inside,
     Attached, Counted, Locks
<1>17. ASSUME NEW s \in Slots, SlotOver(s) PROVE Locks'
  BY <1>17, ConstantsAssumption DEF SlotOver, Goes, AgentSame, ServerSame,
     NodeSame, server, node, TableType, Steps, Streams, Entries, Places, Inside,
     Attached, Counted, Locks
<1>18. ASSUME NEW s \in Slots, LeaveSlot(s) PROVE Locks'
  BY <1>18, ConstantsAssumption DEF LeaveSlot, Goes, AgentSame, ServerSame,
     NodeSame, server, node, TableType, Steps, Streams, Entries, Places, Inside,
     Attached, Counted, Locks
<1>19. ASSUME NEW s \in Slots, DialSlot(s) PROVE Locks'
  BY <1>19, ConstantsAssumption DEF DialSlot, Goes, AgentSame, ServerSame,
     NodeSame, server, node, TableType, Steps, Streams, Entries, Places, Inside,
     Attached, Counted, Locks
<1>20. ASSUME NEW s \in Slots, SlotEnds(s) PROVE Locks'
  BY <1>20, ConstantsAssumption DEF SlotEnds, Goes, AgentSame, ServerSame,
     NodeSame, server, node, TableType, Steps, Streams, Entries, Places, Inside,
     Attached, Counted, Locks
<1>21. ASSUME NEW s \in Slots, Take(s) PROVE Locks'
  BY <1>21, ConstantsAssumption DEF Take, Goes, AgentSame, ServerSame, NodeSame,
     server, node, TableType, Steps, Streams, Entries, Places, Inside, Attached,
     Counted, Locks
<1>22. ASSUME NEW s \in Slots, Ready(s) PROVE Locks'
  BY <1>22, ConstantsAssumption DEF Ready, Goes, AgentSame, ServerSame,
     NodeSame, server, node, TableType, Steps, Streams, Entries, Places, Inside,
     Attached, Counted, Locks
<1>23. ASSUME InstallRoster PROVE Locks'
  BY <1>23, ConstantsAssumption DEF InstallRoster, AgentSame, NodeSame, node,
     TableType, Steps, Streams, Entries, Places, Inside, Attached, Counted,
     Locks
<1>24. ASSUME SetMaintenance PROVE Locks'
  BY <1>24, ConstantsAssumption DEF SetMaintenance, SetterGoes, AgentSame,
     NodeSame, node, TableType, Steps, Streams, Entries, Places, Inside,
     Attached, Counted, Locks
<1>25. ASSUME Broadcast PROVE Locks'
  BY <1>25, ConstantsAssumption DEF Broadcast, SetterGoes, AgentSame, NodeSame,
     node, TableType, Steps, Streams, Entries, Places, Inside, Attached,
     Counted, Locks
<1>26. ASSUME Kill PROVE Locks'
  BY <1>26, ConstantsAssumption DEF Kill, SetterGoes, AgentSame, NodeSame, node,
     TableType, Steps, Streams, Entries, Places, Inside, Attached, Counted,
     Locks
<1>27. ASSUME KillDrains PROVE Locks'
  BY <1>27, ConstantsAssumption DEF KillDrains, SetterGoes, AgentSame, NodeSame,
     node, TableType, Steps, Streams, Entries, Places, Inside, Attached,
     Counted, Locks
<1>28. ASSUME Close PROVE Locks'
  BY <1>28, ConstantsAssumption DEF Close, AgentSame, NodeSame, node, TableType,
     Steps, Streams, Entries, Places, Inside, Attached, Counted, Locks
<1>29. CASE UNCHANGED vars
  BY <1>29 DEF vars, server, node, TableType, Steps, Streams, Entries, Places,
     Inside, Attached, Counted, Locks
<1>30. QED
  BY <1>1, <1>2, <1>3, <1>4, <1>5, <1>6, <1>7, <1>8, <1>9, <1>10, <1>11, <1>12,
     <1>13, <1>14, <1>15, <1>16, <1>17, <1>18, <1>19, <1>20, <1>21, <1>22,
     <1>23, <1>24, <1>25, <1>26, <1>27, <1>28, <1>29 DEF Next, StreamStep,
     ControlStep, SlotStep, SetterStep

\* node.controls and node.live follow the streams.
LEMMA MembersStep ==
  ASSUME TableType, Places, Members, [Next]_vars
  PROVE  Members'
<1>1. ASSUME NEW s \in Streams, Check(s) PROVE Members'
  BY <1>1, ConstantsAssumption DEF Check, Goes, AgentSame, ServerSame, NodeSame,
     server, node, TableType, Steps, Streams, Entries, Places, Inside, Attached,
     Counted, Members
<1>2. ASSUME NEW s \in Streams, Enter(s) PROVE Members'
  BY <1>2, ConstantsAssumption DEF Enter, Goes, AgentSame, ServerSame, NodeSame,
     server, node, TableType, Steps, Streams, Entries, Places, Inside, Attached,
     Counted, Members
<1>3. ASSUME NEW s \in Streams, ForgetLock(s) PROVE Members'
  BY <1>3, ConstantsAssumption DEF ForgetLock, Goes, AgentSame, ServerSame,
     NodeSame, server, node, TableType, Steps, Streams, Entries, Places, Inside,
     Attached, Counted, Members
<1>4. ASSUME NEW s \in Streams, Forget(s) PROVE Members'
  BY <1>4, ConstantsAssumption DEF Forget, Goes, AgentSame, ServerSame,
     NodeSame, server, node, TableType, Steps, Streams, Entries, Places, Inside,
     Attached, Counted, Members
<1>5. ASSUME NEW c \in Controls, Register(c) PROVE Members'
  BY <1>5, ConstantsAssumption DEF Register, Goes, AgentSame, ServerSame,
     NodeSame, server, node, TableType, Steps, Streams, Entries, Places, Inside,
     Attached, Counted, Members
<1>6. ASSUME NEW c \in Controls, ReadMaintenance(c) PROVE Members'
  BY <1>6, ConstantsAssumption DEF ReadMaintenance, Goes, AgentSame, ServerSame,
     NodeSame, server, node, TableType, Steps, Streams, Entries, Places, Inside,
     Attached, Counted, Members
<1>7. ASSUME NEW c \in Controls, CountUp(c) PROVE Members'
  BY <1>7, ConstantsAssumption DEF CountUp, Goes, AgentSame, ServerSame,
     NodeSame, server, node, TableType, Steps, Streams, Entries, Places, Inside,
     Attached, Counted, Members
<1>8. ASSUME NEW c \in Controls, Welcome(c) PROVE Members'
  BY <1>8, ConstantsAssumption DEF Welcome, Goes, AgentSame, ServerSame,
     NodeSame, server, node, TableType, Steps, Streams, Entries, Places, Inside,
     Attached, Counted, Members
<1>9. ASSUME NEW c \in Controls, RecvDraining(c) PROVE Members'
  BY <1>9, ConstantsAssumption DEF RecvDraining, Goes, AgentSame, ServerSame,
     NodeSame, server, node, TableType, Steps, Streams, Entries, Places, Inside,
     Attached, Counted, Members
<1>10. ASSUME NEW c \in Controls, LeaveControl(c) PROVE Members'
  BY <1>10, ConstantsAssumption DEF LeaveControl, Goes, AgentSame, ServerSame,
     NodeSame, server, node, TableType, Steps, Streams, Entries, Places, Inside,
     Attached, Counted, Members
<1>11. ASSUME NEW c \in Controls, CountDown(c) PROVE Members'
  BY <1>11, ConstantsAssumption DEF CountDown, Goes, AgentSame, ServerSame,
     NodeSame, server, node, TableType, Steps, Streams, Entries, Places, Inside,
     Attached, Counted, Members
<1>12. ASSUME NEW c \in Controls, DialControl(c) PROVE Members'
  BY <1>12, ConstantsAssumption DEF DialControl, Goes, AgentSame, ServerSame,
     NodeSame, server, node, TableType, Steps, Streams, Entries, Places, Inside,
     Attached, Counted, Members
<1>13. ASSUME NEW c \in Controls, AgentDrains(c) PROVE Members'
  BY <1>13, ConstantsAssumption DEF AgentDrains, Goes, AgentSame, ServerSame,
     NodeSame, server, node, TableType, Steps, Streams, Entries, Places, Inside,
     Attached, Counted, Members
<1>14. ASSUME NEW c \in Controls, Disconnect(c) PROVE Members'
  BY <1>14, ConstantsAssumption DEF Disconnect, Goes, AgentSame, ServerSame,
     NodeSame, server, node, TableType, Steps, Streams, Entries, Places, Inside,
     Attached, Counted, Members
<1>15. ASSUME NEW s \in Slots, AddLive(s) PROVE Members'
  BY <1>15, ConstantsAssumption DEF AddLive, Goes, AgentSame, ServerSame,
     NodeSame, server, node, TableType, Steps, Streams, Entries, Places, Inside,
     Attached, Counted, Members
<1>16. ASSUME NEW s \in Slots, ParkSlot(s) PROVE Members'
  BY <1>16, ConstantsAssumption DEF ParkSlot, Goes, AgentSame, ServerSame,
     NodeSame, server, node, TableType, Steps, Streams, Entries, Places, Inside,
     Attached, Counted, Members
<1>17. ASSUME NEW s \in Slots, SlotOver(s) PROVE Members'
  BY <1>17, ConstantsAssumption DEF SlotOver, Goes, AgentSame, ServerSame,
     NodeSame, server, node, TableType, Steps, Streams, Entries, Places, Inside,
     Attached, Counted, Members
<1>18. ASSUME NEW s \in Slots, LeaveSlot(s) PROVE Members'
  BY <1>18, ConstantsAssumption DEF LeaveSlot, Goes, AgentSame, ServerSame,
     NodeSame, server, node, TableType, Steps, Streams, Entries, Places, Inside,
     Attached, Counted, Members
<1>19. ASSUME NEW s \in Slots, DialSlot(s) PROVE Members'
  BY <1>19, ConstantsAssumption DEF DialSlot, Goes, AgentSame, ServerSame,
     NodeSame, server, node, TableType, Steps, Streams, Entries, Places, Inside,
     Attached, Counted, Members
<1>20. ASSUME NEW s \in Slots, SlotEnds(s) PROVE Members'
  BY <1>20, ConstantsAssumption DEF SlotEnds, Goes, AgentSame, ServerSame,
     NodeSame, server, node, TableType, Steps, Streams, Entries, Places, Inside,
     Attached, Counted, Members
<1>21. ASSUME NEW s \in Slots, Take(s) PROVE Members'
  BY <1>21, ConstantsAssumption DEF Take, Goes, AgentSame, ServerSame, NodeSame,
     server, node, TableType, Steps, Streams, Entries, Places, Inside, Attached,
     Counted, Members
<1>22. ASSUME NEW s \in Slots, Ready(s) PROVE Members'
  BY <1>22, ConstantsAssumption DEF Ready, Goes, AgentSame, ServerSame,
     NodeSame, server, node, TableType, Steps, Streams, Entries, Places, Inside,
     Attached, Counted, Members
<1>23. ASSUME InstallRoster PROVE Members'
  BY <1>23, ConstantsAssumption DEF InstallRoster, AgentSame, NodeSame, node,
     TableType, Steps, Streams, Entries, Places, Inside, Attached, Counted,
     Members
<1>24. ASSUME SetMaintenance PROVE Members'
  BY <1>24, ConstantsAssumption DEF SetMaintenance, SetterGoes, AgentSame,
     NodeSame, node, TableType, Steps, Streams, Entries, Places, Inside,
     Attached, Counted, Members
<1>25. ASSUME Broadcast PROVE Members'
  BY <1>25, ConstantsAssumption DEF Broadcast, SetterGoes, AgentSame, NodeSame,
     node, TableType, Steps, Streams, Entries, Places, Inside, Attached,
     Counted, Members
<1>26. ASSUME Kill PROVE Members'
  BY <1>26, ConstantsAssumption DEF Kill, SetterGoes, AgentSame, NodeSame, node,
     TableType, Steps, Streams, Entries, Places, Inside, Attached, Counted,
     Members
<1>27. ASSUME KillDrains PROVE Members'
  BY <1>27, ConstantsAssumption DEF KillDrains, SetterGoes, AgentSame, NodeSame,
     node, TableType, Steps, Streams, Entries, Places, Inside, Attached,
     Counted, Members
<1>28. ASSUME Close PROVE Members'
  BY <1>28, ConstantsAssumption DEF Close, AgentSame, NodeSame, node, TableType,
     Steps, Streams, Entries, Places, Inside, Attached, Counted, Members
<1>29. CASE UNCHANGED vars
  BY <1>29 DEF vars, server, node, TableType, Steps, Streams, Entries, Places,
     Inside, Attached, Counted, Members
<1>30. QED
  BY <1>1, <1>2, <1>3, <1>4, <1>5, <1>6, <1>7, <1>8, <1>9, <1>10, <1>11, <1>12,
     <1>13, <1>14, <1>15, <1>16, <1>17, <1>18, <1>19, <1>20, <1>21, <1>22,
     <1>23, <1>24, <1>25, <1>26, <1>27, <1>28, <1>29 DEF Next, StreamStep,
     ControlStep, SlotStep, SetterStep

\* The entry in the table: Forget removes it unless somebody is attached.
LEMMA HeldStep ==
  ASSUME TableType, Places, Members, Held, [Next]_vars
  PROVE  Held'
<1>1. ASSUME NEW s \in Streams, Check(s) PROVE Held'
  BY <1>1, ConstantsAssumption DEF Check, Goes, AgentSame, ServerSame, NodeSame,
     server, node, TableType, Steps, Streams, Entries, Places, Inside, Attached,
     Counted, Members, Held, IsEmpty
<1>2. ASSUME NEW s \in Streams, Enter(s) PROVE Held'
  BY <1>2, ConstantsAssumption DEF Enter, Goes, AgentSame, ServerSame, NodeSame,
     server, node, TableType, Steps, Streams, Entries, Places, Inside, Attached,
     Counted, Members, Held, IsEmpty
<1>3. ASSUME NEW s \in Streams, ForgetLock(s) PROVE Held'
  BY <1>3, ConstantsAssumption DEF ForgetLock, Goes, AgentSame, ServerSame,
     NodeSame, server, node, TableType, Steps, Streams, Entries, Places, Inside,
     Attached, Counted, Members, Held, IsEmpty
<1>4. ASSUME NEW s \in Streams, Forget(s) PROVE Held'
  BY <1>4, ConstantsAssumption DEF Forget, Goes, AgentSame, ServerSame,
     NodeSame, server, node, TableType, Steps, Streams, Entries, Places, Inside,
     Attached, Counted, Members, Held, IsEmpty
<1>5. ASSUME NEW c \in Controls, Register(c) PROVE Held'
  BY <1>5, ConstantsAssumption DEF Register, Goes, AgentSame, ServerSame,
     NodeSame, server, node, TableType, Steps, Streams, Entries, Places, Inside,
     Attached, Counted, Members, Held, IsEmpty
<1>6. ASSUME NEW c \in Controls, ReadMaintenance(c) PROVE Held'
  BY <1>6, ConstantsAssumption DEF ReadMaintenance, Goes, AgentSame, ServerSame,
     NodeSame, server, node, TableType, Steps, Streams, Entries, Places, Inside,
     Attached, Counted, Members, Held, IsEmpty
<1>7. ASSUME NEW c \in Controls, CountUp(c) PROVE Held'
  BY <1>7, ConstantsAssumption DEF CountUp, Goes, AgentSame, ServerSame,
     NodeSame, server, node, TableType, Steps, Streams, Entries, Places, Inside,
     Attached, Counted, Members, Held, IsEmpty
<1>8. ASSUME NEW c \in Controls, Welcome(c) PROVE Held'
  BY <1>8, ConstantsAssumption DEF Welcome, Goes, AgentSame, ServerSame,
     NodeSame, server, node, TableType, Steps, Streams, Entries, Places, Inside,
     Attached, Counted, Members, Held, IsEmpty
<1>9. ASSUME NEW c \in Controls, RecvDraining(c) PROVE Held'
  BY <1>9, ConstantsAssumption DEF RecvDraining, Goes, AgentSame, ServerSame,
     NodeSame, server, node, TableType, Steps, Streams, Entries, Places, Inside,
     Attached, Counted, Members, Held, IsEmpty
<1>10. ASSUME NEW c \in Controls, LeaveControl(c) PROVE Held'
  BY <1>10, ConstantsAssumption DEF LeaveControl, Goes, AgentSame, ServerSame,
     NodeSame, server, node, TableType, Steps, Streams, Entries, Places, Inside,
     Attached, Counted, Members, Held, IsEmpty
<1>11. ASSUME NEW c \in Controls, CountDown(c) PROVE Held'
  BY <1>11, ConstantsAssumption DEF CountDown, Goes, AgentSame, ServerSame,
     NodeSame, server, node, TableType, Steps, Streams, Entries, Places, Inside,
     Attached, Counted, Members, Held, IsEmpty
<1>12. ASSUME NEW c \in Controls, DialControl(c) PROVE Held'
  BY <1>12, ConstantsAssumption DEF DialControl, Goes, AgentSame, ServerSame,
     NodeSame, server, node, TableType, Steps, Streams, Entries, Places, Inside,
     Attached, Counted, Members, Held, IsEmpty
<1>13. ASSUME NEW c \in Controls, AgentDrains(c) PROVE Held'
  BY <1>13, ConstantsAssumption DEF AgentDrains, Goes, AgentSame, ServerSame,
     NodeSame, server, node, TableType, Steps, Streams, Entries, Places, Inside,
     Attached, Counted, Members, Held, IsEmpty
<1>14. ASSUME NEW c \in Controls, Disconnect(c) PROVE Held'
  BY <1>14, ConstantsAssumption DEF Disconnect, Goes, AgentSame, ServerSame,
     NodeSame, server, node, TableType, Steps, Streams, Entries, Places, Inside,
     Attached, Counted, Members, Held, IsEmpty
<1>15. ASSUME NEW s \in Slots, AddLive(s) PROVE Held'
  BY <1>15, ConstantsAssumption DEF AddLive, Goes, AgentSame, ServerSame,
     NodeSame, server, node, TableType, Steps, Streams, Entries, Places, Inside,
     Attached, Counted, Members, Held, IsEmpty
<1>16. ASSUME NEW s \in Slots, ParkSlot(s) PROVE Held'
  BY <1>16, ConstantsAssumption DEF ParkSlot, Goes, AgentSame, ServerSame,
     NodeSame, server, node, TableType, Steps, Streams, Entries, Places, Inside,
     Attached, Counted, Members, Held, IsEmpty
<1>17. ASSUME NEW s \in Slots, SlotOver(s) PROVE Held'
  BY <1>17, ConstantsAssumption DEF SlotOver, Goes, AgentSame, ServerSame,
     NodeSame, server, node, TableType, Steps, Streams, Entries, Places, Inside,
     Attached, Counted, Members, Held, IsEmpty
<1>18. ASSUME NEW s \in Slots, LeaveSlot(s) PROVE Held'
  BY <1>18, ConstantsAssumption DEF LeaveSlot, Goes, AgentSame, ServerSame,
     NodeSame, server, node, TableType, Steps, Streams, Entries, Places, Inside,
     Attached, Counted, Members, Held, IsEmpty
<1>19. ASSUME NEW s \in Slots, DialSlot(s) PROVE Held'
  BY <1>19, ConstantsAssumption DEF DialSlot, Goes, AgentSame, ServerSame,
     NodeSame, server, node, TableType, Steps, Streams, Entries, Places, Inside,
     Attached, Counted, Members, Held, IsEmpty
<1>20. ASSUME NEW s \in Slots, SlotEnds(s) PROVE Held'
  BY <1>20, ConstantsAssumption DEF SlotEnds, Goes, AgentSame, ServerSame,
     NodeSame, server, node, TableType, Steps, Streams, Entries, Places, Inside,
     Attached, Counted, Members, Held, IsEmpty
<1>21. ASSUME NEW s \in Slots, Take(s) PROVE Held'
  BY <1>21, ConstantsAssumption DEF Take, Goes, AgentSame, ServerSame, NodeSame,
     server, node, TableType, Steps, Streams, Entries, Places, Inside, Attached,
     Counted, Members, Held, IsEmpty
<1>22. ASSUME NEW s \in Slots, Ready(s) PROVE Held'
  BY <1>22, ConstantsAssumption DEF Ready, Goes, AgentSame, ServerSame,
     NodeSame, server, node, TableType, Steps, Streams, Entries, Places, Inside,
     Attached, Counted, Members, Held, IsEmpty
<1>23. ASSUME InstallRoster PROVE Held'
  BY <1>23, ConstantsAssumption DEF InstallRoster, AgentSame, NodeSame, node,
     TableType, Steps, Streams, Entries, Places, Inside, Attached, Counted,
     Members, Held, IsEmpty
<1>24. ASSUME SetMaintenance PROVE Held'
  BY <1>24, ConstantsAssumption DEF SetMaintenance, SetterGoes, AgentSame,
     NodeSame, node, TableType, Steps, Streams, Entries, Places, Inside,
     Attached, Counted, Members, Held, IsEmpty
<1>25. ASSUME Broadcast PROVE Held'
  BY <1>25, ConstantsAssumption DEF Broadcast, SetterGoes, AgentSame, NodeSame,
     node, TableType, Steps, Streams, Entries, Places, Inside, Attached,
     Counted, Members, Held, IsEmpty
<1>26. ASSUME Kill PROVE Held'
  BY <1>26, ConstantsAssumption DEF Kill, SetterGoes, AgentSame, NodeSame, node,
     TableType, Steps, Streams, Entries, Places, Inside, Attached, Counted,
     Members, Held, IsEmpty
<1>27. ASSUME KillDrains PROVE Held'
  BY <1>27, ConstantsAssumption DEF KillDrains, SetterGoes, AgentSame, NodeSame,
     node, TableType, Steps, Streams, Entries, Places, Inside, Attached,
     Counted, Members, Held, IsEmpty
<1>28. ASSUME Close PROVE Held'
  BY <1>28, ConstantsAssumption DEF Close, AgentSame, NodeSame, node, TableType,
     Steps, Streams, Entries, Places, Inside, Attached, Counted, Members, Held,
     IsEmpty
<1>29. CASE UNCHANGED vars
  BY <1>29 DEF vars, server, node, TableType, Steps, Streams, Entries, Places,
     Inside, Attached, Counted, Members, Held, IsEmpty
<1>30. QED
  BY <1>1, <1>2, <1>3, <1>4, <1>5, <1>6, <1>7, <1>8, <1>9, <1>10, <1>11, <1>12,
     <1>13, <1>14, <1>15, <1>16, <1>17, <1>18, <1>19, <1>20, <1>21, <1>22,
     <1>23, <1>24, <1>25, <1>26, <1>27, <1>28, <1>29 DEF Next, StreamStep,
     ControlStep, SlotStep, SetterStep

\* Maintenance: both writers of the flag write the installed roster's value.
LEMMA MaintenanceStep ==
  ASSUME TableType, Places, Members, Locks, MaintenanceKept, [Next]_vars
  PROVE  MaintenanceKept'
<1>1. ASSUME NEW s \in Streams, Check(s) PROVE MaintenanceKept'
  BY <1>1, ConstantsAssumption DEF Check, Goes, AgentSame, ServerSame, NodeSame,
     server, node, TableType, Steps, Streams, Entries, Places, Inside, Attached,
     Counted, Members, Locks, MaintenanceKept
<1>2. ASSUME NEW s \in Streams, Enter(s) PROVE MaintenanceKept'
  BY <1>2, ConstantsAssumption DEF Enter, Goes, AgentSame, ServerSame, NodeSame,
     server, node, TableType, Steps, Streams, Entries, Places, Inside, Attached,
     Counted, Members, Locks, MaintenanceKept
<1>3. ASSUME NEW s \in Streams, ForgetLock(s) PROVE MaintenanceKept'
  BY <1>3, ConstantsAssumption DEF ForgetLock, Goes, AgentSame, ServerSame,
     NodeSame, server, node, TableType, Steps, Streams, Entries, Places, Inside,
     Attached, Counted, Members, Locks, MaintenanceKept
<1>4. ASSUME NEW s \in Streams, Forget(s) PROVE MaintenanceKept'
  BY <1>4, ConstantsAssumption DEF Forget, Goes, AgentSame, ServerSame,
     NodeSame, server, node, TableType, Steps, Streams, Entries, Places, Inside,
     Attached, Counted, Members, Locks, MaintenanceKept
<1>5. ASSUME NEW c \in Controls, Register(c) PROVE MaintenanceKept'
  BY <1>5, ConstantsAssumption DEF Register, Goes, AgentSame, ServerSame,
     NodeSame, server, node, TableType, Steps, Streams, Entries, Places, Inside,
     Attached, Counted, Members, Locks, MaintenanceKept
<1>6. ASSUME NEW c \in Controls, ReadMaintenance(c) PROVE MaintenanceKept'
  BY <1>6, ConstantsAssumption DEF ReadMaintenance, Goes, AgentSame, ServerSame,
     NodeSame, server, node, TableType, Steps, Streams, Entries, Places, Inside,
     Attached, Counted, Members, Locks, MaintenanceKept
<1>7. ASSUME NEW c \in Controls, CountUp(c) PROVE MaintenanceKept'
  BY <1>7, ConstantsAssumption DEF CountUp, Goes, AgentSame, ServerSame,
     NodeSame, server, node, TableType, Steps, Streams, Entries, Places, Inside,
     Attached, Counted, Members, Locks, MaintenanceKept
<1>8. ASSUME NEW c \in Controls, Welcome(c) PROVE MaintenanceKept'
  BY <1>8, ConstantsAssumption DEF Welcome, Goes, AgentSame, ServerSame,
     NodeSame, server, node, TableType, Steps, Streams, Entries, Places, Inside,
     Attached, Counted, Members, Locks, MaintenanceKept
<1>9. ASSUME NEW c \in Controls, RecvDraining(c) PROVE MaintenanceKept'
  BY <1>9, ConstantsAssumption DEF RecvDraining, Goes, AgentSame, ServerSame,
     NodeSame, server, node, TableType, Steps, Streams, Entries, Places, Inside,
     Attached, Counted, Members, Locks, MaintenanceKept
<1>10. ASSUME NEW c \in Controls, LeaveControl(c) PROVE MaintenanceKept'
  BY <1>10, ConstantsAssumption DEF LeaveControl, Goes, AgentSame, ServerSame,
     NodeSame, server, node, TableType, Steps, Streams, Entries, Places, Inside,
     Attached, Counted, Members, Locks, MaintenanceKept
<1>11. ASSUME NEW c \in Controls, CountDown(c) PROVE MaintenanceKept'
  BY <1>11, ConstantsAssumption DEF CountDown, Goes, AgentSame, ServerSame,
     NodeSame, server, node, TableType, Steps, Streams, Entries, Places, Inside,
     Attached, Counted, Members, Locks, MaintenanceKept
<1>12. ASSUME NEW c \in Controls, DialControl(c) PROVE MaintenanceKept'
  BY <1>12, ConstantsAssumption DEF DialControl, Goes, AgentSame, ServerSame,
     NodeSame, server, node, TableType, Steps, Streams, Entries, Places, Inside,
     Attached, Counted, Members, Locks, MaintenanceKept
<1>13. ASSUME NEW c \in Controls, AgentDrains(c) PROVE MaintenanceKept'
  BY <1>13, ConstantsAssumption DEF AgentDrains, Goes, AgentSame, ServerSame,
     NodeSame, server, node, TableType, Steps, Streams, Entries, Places, Inside,
     Attached, Counted, Members, Locks, MaintenanceKept
<1>14. ASSUME NEW c \in Controls, Disconnect(c) PROVE MaintenanceKept'
  BY <1>14, ConstantsAssumption DEF Disconnect, Goes, AgentSame, ServerSame,
     NodeSame, server, node, TableType, Steps, Streams, Entries, Places, Inside,
     Attached, Counted, Members, Locks, MaintenanceKept
<1>15. ASSUME NEW s \in Slots, AddLive(s) PROVE MaintenanceKept'
  BY <1>15, ConstantsAssumption DEF AddLive, Goes, AgentSame, ServerSame,
     NodeSame, server, node, TableType, Steps, Streams, Entries, Places, Inside,
     Attached, Counted, Members, Locks, MaintenanceKept
<1>16. ASSUME NEW s \in Slots, ParkSlot(s) PROVE MaintenanceKept'
  BY <1>16, ConstantsAssumption DEF ParkSlot, Goes, AgentSame, ServerSame,
     NodeSame, server, node, TableType, Steps, Streams, Entries, Places, Inside,
     Attached, Counted, Members, Locks, MaintenanceKept
<1>17. ASSUME NEW s \in Slots, SlotOver(s) PROVE MaintenanceKept'
  BY <1>17, ConstantsAssumption DEF SlotOver, Goes, AgentSame, ServerSame,
     NodeSame, server, node, TableType, Steps, Streams, Entries, Places, Inside,
     Attached, Counted, Members, Locks, MaintenanceKept
<1>18. ASSUME NEW s \in Slots, LeaveSlot(s) PROVE MaintenanceKept'
  BY <1>18, ConstantsAssumption DEF LeaveSlot, Goes, AgentSame, ServerSame,
     NodeSame, server, node, TableType, Steps, Streams, Entries, Places, Inside,
     Attached, Counted, Members, Locks, MaintenanceKept
<1>19. ASSUME NEW s \in Slots, DialSlot(s) PROVE MaintenanceKept'
  BY <1>19, ConstantsAssumption DEF DialSlot, Goes, AgentSame, ServerSame,
     NodeSame, server, node, TableType, Steps, Streams, Entries, Places, Inside,
     Attached, Counted, Members, Locks, MaintenanceKept
<1>20. ASSUME NEW s \in Slots, SlotEnds(s) PROVE MaintenanceKept'
  BY <1>20, ConstantsAssumption DEF SlotEnds, Goes, AgentSame, ServerSame,
     NodeSame, server, node, TableType, Steps, Streams, Entries, Places, Inside,
     Attached, Counted, Members, Locks, MaintenanceKept
<1>21. ASSUME NEW s \in Slots, Take(s) PROVE MaintenanceKept'
  BY <1>21, ConstantsAssumption DEF Take, Goes, AgentSame, ServerSame, NodeSame,
     server, node, TableType, Steps, Streams, Entries, Places, Inside, Attached,
     Counted, Members, Locks, MaintenanceKept
<1>22. ASSUME NEW s \in Slots, Ready(s) PROVE MaintenanceKept'
  BY <1>22, ConstantsAssumption DEF Ready, Goes, AgentSame, ServerSame,
     NodeSame, server, node, TableType, Steps, Streams, Entries, Places, Inside,
     Attached, Counted, Members, Locks, MaintenanceKept
<1>23. ASSUME InstallRoster PROVE MaintenanceKept'
  BY <1>23, ConstantsAssumption DEF InstallRoster, AgentSame, NodeSame, node,
     TableType, Steps, Streams, Entries, Places, Inside, Attached, Counted,
     Members, Locks, MaintenanceKept
<1>24. ASSUME SetMaintenance PROVE MaintenanceKept'
  BY <1>24, ConstantsAssumption DEF SetMaintenance, SetterGoes, AgentSame,
     NodeSame, node, TableType, Steps, Streams, Entries, Places, Inside,
     Attached, Counted, Members, Locks, MaintenanceKept
<1>25. ASSUME Broadcast PROVE MaintenanceKept'
  BY <1>25, ConstantsAssumption DEF Broadcast, SetterGoes, AgentSame, NodeSame,
     node, TableType, Steps, Streams, Entries, Places, Inside, Attached,
     Counted, Members, Locks, MaintenanceKept
<1>26. ASSUME Kill PROVE MaintenanceKept'
  BY <1>26, ConstantsAssumption DEF Kill, SetterGoes, AgentSame, NodeSame, node,
     TableType, Steps, Streams, Entries, Places, Inside, Attached, Counted,
     Members, Locks, MaintenanceKept
<1>27. ASSUME KillDrains PROVE MaintenanceKept'
  BY <1>27, ConstantsAssumption DEF KillDrains, SetterGoes, AgentSame, NodeSame,
     node, TableType, Steps, Streams, Entries, Places, Inside, Attached,
     Counted, Members, Locks, MaintenanceKept
<1>28. ASSUME Close PROVE MaintenanceKept'
  BY <1>28, ConstantsAssumption DEF Close, AgentSame, NodeSame, node, TableType,
     Steps, Streams, Entries, Places, Inside, Attached, Counted, Members, Locks,
     MaintenanceKept
<1>29. CASE UNCHANGED vars
  BY <1>29 DEF vars, server, node, TableType, Steps, Streams, Entries, Places,
     Inside, Attached, Counted, Members, Locks, MaintenanceKept
<1>30. QED
  BY <1>1, <1>2, <1>3, <1>4, <1>5, <1>6, <1>7, <1>8, <1>9, <1>10, <1>11, <1>12,
     <1>13, <1>14, <1>15, <1>16, <1>17, <1>18, <1>19, <1>20, <1>21, <1>22,
     <1>23, <1>24, <1>25, <1>26, <1>27, <1>28, <1>29 DEF Next, StreamStep,
     ControlStep, SlotStep, SetterStep

\* Rosters sent: by the broadcast, or by the stream's own welcome.
LEMMA RosterStep ==
  ASSUME TableType, Places, Members, RosterKept, [Next]_vars
  PROVE  RosterKept'
<1>1. ASSUME NEW s \in Streams, Check(s) PROVE RosterKept'
  BY <1>1, ConstantsAssumption DEF Check, Goes, AgentSame, ServerSame, NodeSame,
     server, node, TableType, Steps, Streams, Entries, Places, Inside, Attached,
     Counted, Members, RosterKept
<1>2. ASSUME NEW s \in Streams, Enter(s) PROVE RosterKept'
  BY <1>2, ConstantsAssumption DEF Enter, Goes, AgentSame, ServerSame, NodeSame,
     server, node, TableType, Steps, Streams, Entries, Places, Inside, Attached,
     Counted, Members, RosterKept
<1>3. ASSUME NEW s \in Streams, ForgetLock(s) PROVE RosterKept'
  BY <1>3, ConstantsAssumption DEF ForgetLock, Goes, AgentSame, ServerSame,
     NodeSame, server, node, TableType, Steps, Streams, Entries, Places, Inside,
     Attached, Counted, Members, RosterKept
<1>4. ASSUME NEW s \in Streams, Forget(s) PROVE RosterKept'
  BY <1>4, ConstantsAssumption DEF Forget, Goes, AgentSame, ServerSame,
     NodeSame, server, node, TableType, Steps, Streams, Entries, Places, Inside,
     Attached, Counted, Members, RosterKept
<1>5. ASSUME NEW c \in Controls, Register(c) PROVE RosterKept'
  BY <1>5, ConstantsAssumption DEF Register, Goes, AgentSame, ServerSame,
     NodeSame, server, node, TableType, Steps, Streams, Entries, Places, Inside,
     Attached, Counted, Members, RosterKept
<1>6. ASSUME NEW c \in Controls, ReadMaintenance(c) PROVE RosterKept'
  BY <1>6, ConstantsAssumption DEF ReadMaintenance, Goes, AgentSame, ServerSame,
     NodeSame, server, node, TableType, Steps, Streams, Entries, Places, Inside,
     Attached, Counted, Members, RosterKept
<1>7. ASSUME NEW c \in Controls, CountUp(c) PROVE RosterKept'
  BY <1>7, ConstantsAssumption DEF CountUp, Goes, AgentSame, ServerSame,
     NodeSame, server, node, TableType, Steps, Streams, Entries, Places, Inside,
     Attached, Counted, Members, RosterKept
<1>8. ASSUME NEW c \in Controls, Welcome(c) PROVE RosterKept'
  BY <1>8, ConstantsAssumption DEF Welcome, Goes, AgentSame, ServerSame,
     NodeSame, server, node, TableType, Steps, Streams, Entries, Places, Inside,
     Attached, Counted, Members, RosterKept
<1>9. ASSUME NEW c \in Controls, RecvDraining(c) PROVE RosterKept'
  BY <1>9, ConstantsAssumption DEF RecvDraining, Goes, AgentSame, ServerSame,
     NodeSame, server, node, TableType, Steps, Streams, Entries, Places, Inside,
     Attached, Counted, Members, RosterKept
<1>10. ASSUME NEW c \in Controls, LeaveControl(c) PROVE RosterKept'
  BY <1>10, ConstantsAssumption DEF LeaveControl, Goes, AgentSame, ServerSame,
     NodeSame, server, node, TableType, Steps, Streams, Entries, Places, Inside,
     Attached, Counted, Members, RosterKept
<1>11. ASSUME NEW c \in Controls, CountDown(c) PROVE RosterKept'
  BY <1>11, ConstantsAssumption DEF CountDown, Goes, AgentSame, ServerSame,
     NodeSame, server, node, TableType, Steps, Streams, Entries, Places, Inside,
     Attached, Counted, Members, RosterKept
<1>12. ASSUME NEW c \in Controls, DialControl(c) PROVE RosterKept'
  BY <1>12, ConstantsAssumption DEF DialControl, Goes, AgentSame, ServerSame,
     NodeSame, server, node, TableType, Steps, Streams, Entries, Places, Inside,
     Attached, Counted, Members, RosterKept
<1>13. ASSUME NEW c \in Controls, AgentDrains(c) PROVE RosterKept'
  BY <1>13, ConstantsAssumption DEF AgentDrains, Goes, AgentSame, ServerSame,
     NodeSame, server, node, TableType, Steps, Streams, Entries, Places, Inside,
     Attached, Counted, Members, RosterKept
<1>14. ASSUME NEW c \in Controls, Disconnect(c) PROVE RosterKept'
  BY <1>14, ConstantsAssumption DEF Disconnect, Goes, AgentSame, ServerSame,
     NodeSame, server, node, TableType, Steps, Streams, Entries, Places, Inside,
     Attached, Counted, Members, RosterKept
<1>15. ASSUME NEW s \in Slots, AddLive(s) PROVE RosterKept'
  BY <1>15, ConstantsAssumption DEF AddLive, Goes, AgentSame, ServerSame,
     NodeSame, server, node, TableType, Steps, Streams, Entries, Places, Inside,
     Attached, Counted, Members, RosterKept
<1>16. ASSUME NEW s \in Slots, ParkSlot(s) PROVE RosterKept'
  BY <1>16, ConstantsAssumption DEF ParkSlot, Goes, AgentSame, ServerSame,
     NodeSame, server, node, TableType, Steps, Streams, Entries, Places, Inside,
     Attached, Counted, Members, RosterKept
<1>17. ASSUME NEW s \in Slots, SlotOver(s) PROVE RosterKept'
  BY <1>17, ConstantsAssumption DEF SlotOver, Goes, AgentSame, ServerSame,
     NodeSame, server, node, TableType, Steps, Streams, Entries, Places, Inside,
     Attached, Counted, Members, RosterKept
<1>18. ASSUME NEW s \in Slots, LeaveSlot(s) PROVE RosterKept'
  BY <1>18, ConstantsAssumption DEF LeaveSlot, Goes, AgentSame, ServerSame,
     NodeSame, server, node, TableType, Steps, Streams, Entries, Places, Inside,
     Attached, Counted, Members, RosterKept
<1>19. ASSUME NEW s \in Slots, DialSlot(s) PROVE RosterKept'
  BY <1>19, ConstantsAssumption DEF DialSlot, Goes, AgentSame, ServerSame,
     NodeSame, server, node, TableType, Steps, Streams, Entries, Places, Inside,
     Attached, Counted, Members, RosterKept
<1>20. ASSUME NEW s \in Slots, SlotEnds(s) PROVE RosterKept'
  BY <1>20, ConstantsAssumption DEF SlotEnds, Goes, AgentSame, ServerSame,
     NodeSame, server, node, TableType, Steps, Streams, Entries, Places, Inside,
     Attached, Counted, Members, RosterKept
<1>21. ASSUME NEW s \in Slots, Take(s) PROVE RosterKept'
  BY <1>21, ConstantsAssumption DEF Take, Goes, AgentSame, ServerSame, NodeSame,
     server, node, TableType, Steps, Streams, Entries, Places, Inside, Attached,
     Counted, Members, RosterKept
<1>22. ASSUME NEW s \in Slots, Ready(s) PROVE RosterKept'
  BY <1>22, ConstantsAssumption DEF Ready, Goes, AgentSame, ServerSame,
     NodeSame, server, node, TableType, Steps, Streams, Entries, Places, Inside,
     Attached, Counted, Members, RosterKept
<1>23. ASSUME InstallRoster PROVE RosterKept'
  BY <1>23, ConstantsAssumption DEF InstallRoster, AgentSame, NodeSame, node,
     TableType, Steps, Streams, Entries, Places, Inside, Attached, Counted,
     Members, RosterKept
<1>24. ASSUME SetMaintenance PROVE RosterKept'
  BY <1>24, ConstantsAssumption DEF SetMaintenance, SetterGoes, AgentSame,
     NodeSame, node, TableType, Steps, Streams, Entries, Places, Inside,
     Attached, Counted, Members, RosterKept
<1>25. ASSUME Broadcast PROVE RosterKept'
  BY <1>25, ConstantsAssumption DEF Broadcast, SetterGoes, AgentSame, NodeSame,
     node, TableType, Steps, Streams, Entries, Places, Inside, Attached,
     Counted, Members, RosterKept
<1>26. ASSUME Kill PROVE RosterKept'
  BY <1>26, ConstantsAssumption DEF Kill, SetterGoes, AgentSame, NodeSame, node,
     TableType, Steps, Streams, Entries, Places, Inside, Attached, Counted,
     Members, RosterKept
<1>27. ASSUME KillDrains PROVE RosterKept'
  BY <1>27, ConstantsAssumption DEF KillDrains, SetterGoes, AgentSame, NodeSame,
     node, TableType, Steps, Streams, Entries, Places, Inside, Attached,
     Counted, Members, RosterKept
<1>28. ASSUME Close PROVE RosterKept'
  BY <1>28, ConstantsAssumption DEF Close, AgentSame, NodeSame, node, TableType,
     Steps, Streams, Entries, Places, Inside, Attached, Counted, Members,
     RosterKept
<1>29. CASE UNCHANGED vars
  BY <1>29 DEF vars, server, node, TableType, Steps, Streams, Entries, Places,
     Inside, Attached, Counted, Members, RosterKept
<1>30. QED
  BY <1>1, <1>2, <1>3, <1>4, <1>5, <1>6, <1>7, <1>8, <1>9, <1>10, <1>11, <1>12,
     <1>13, <1>14, <1>15, <1>16, <1>17, <1>18, <1>19, <1>20, <1>21, <1>22,
     <1>23, <1>24, <1>25, <1>26, <1>27, <1>28, <1>29 DEF Next, StreamStep,
     ControlStep, SlotStep, SetterStep

\* The sets ConnectedExact counts are finite.
LEMMA FiniteParts ==
  /\ IsFiniteSet(OwesUp) /\ IsFiniteSet(OwesDown) /\ IsFiniteSet(Occupied)
  /\ IsFiniteSet(OwesUp') /\ IsFiniteSet(OwesDown') /\ IsFiniteSet(Occupied')
<1>1. IsFiniteSet(Controls) /\ IsFiniteSet(Streams)
  BY ConstantsAssumption, FS_Union DEF Streams
<1>2. /\ OwesUp \subseteq Controls /\ OwesUp' \subseteq Controls
      /\ OwesDown \subseteq Controls /\ OwesDown' \subseteq Controls
      /\ Occupied \subseteq Streams /\ Occupied' \subseteq Streams
  BY DEF OwesUp, OwesDown, Occupied, Entries
<1>3. QED BY <1>1, <1>2, FS_Subset

LEMMA CountsAreNat ==
  /\ Cardinality(OwesUp) \in Nat /\ Cardinality(OwesUp') \in Nat
  /\ Cardinality(OwesDown) \in Nat /\ Cardinality(OwesDown') \in Nat
  /\ Cardinality(Occupied) \in Nat /\ Cardinality(Occupied') \in Nat
BY FiniteParts, FS_CardinalityType

\* The count: only the first to register and the last to leave change it.
LEMMA CountStep ==
  ASSUME TableType, Places, Members, Locks, OneOwes, ConnectedExact, [Next]_vars
  PROVE  OneOwes' /\ ConnectedExact'
<1>1. ASSUME NEW s \in Streams, Check(s) PROVE OneOwes' /\ ConnectedExact'
  <2>1. UNCHANGED <<OwesUp, OwesDown, Occupied, connected>>
    BY <1>1, ConstantsAssumption DEF Check, Goes, AgentSame, ServerSame,
       NodeSame, server, node, TableType, Steps, Streams, Entries, OwesUp,
       OwesDown, Occupied, Places, Attached, Counted, Members, Locks
  <2>2. \A d \in OwesUp : at'[d] = at[d]
    BY <1>1, ConstantsAssumption DEF Check, Goes, AgentSame, ServerSame,
       NodeSame, server, node, TableType, Steps, Streams, Entries, OwesUp
  <2>3. QED
    BY <2>1, <2>2 DEF OneOwes, ConnectedExact
<1>2. ASSUME NEW s \in Streams, Enter(s) PROVE OneOwes' /\ ConnectedExact'
  <2>1. /\ s \in Streams /\ pc[s] = "checked"
        /\ \E next \in {"entered", "done"} : pc' = [pc EXCEPT ![s] = next]
        /\ \A d \in Streams : d # s => at'[d] = at[d]
        /\ UNCHANGED <<connected, controls>>
    BY <1>2 DEF Enter, Goes, AgentSame, ServerSame, NodeSame, server, node,
       TableType, Steps, Streams, Entries
  <2>2. OwesUp' = OwesUp
    BY <2>1 DEF OwesUp, TableType, Steps, Streams, Entries
  <2>3. UNCHANGED <<OwesDown, Occupied>>
    BY <2>1 DEF OwesDown, Occupied, TableType, Steps, Streams, Entries
  <2>4. \A d \in OwesUp : at'[d] = at[d]
    BY <2>1 DEF OwesUp, Streams
  <2>5. QED BY <2>1, <2>2, <2>3, <2>4 DEF OneOwes, ConnectedExact
<1>3. ASSUME NEW s \in Streams, ForgetLock(s) PROVE OneOwes' /\ ConnectedExact'
  <2>1. UNCHANGED <<OwesUp, OwesDown, Occupied, connected>>
    BY <1>3, ConstantsAssumption DEF ForgetLock, Goes, AgentSame, ServerSame,
       NodeSame, server, node, TableType, Steps, Streams, Entries, OwesUp,
       OwesDown, Occupied, Places, Attached, Counted, Members, Locks
  <2>2. \A d \in OwesUp : at'[d] = at[d]
    BY <1>3, ConstantsAssumption DEF ForgetLock, Goes, AgentSame, ServerSame,
       NodeSame, server, node, TableType, Steps, Streams, Entries, OwesUp
  <2>3. QED
    BY <2>1, <2>2 DEF OneOwes, ConnectedExact
<1>4. ASSUME NEW s \in Streams, Forget(s) PROVE OneOwes' /\ ConnectedExact'
  <2>1. UNCHANGED <<OwesUp, OwesDown, Occupied, connected>>
    BY <1>4, ConstantsAssumption DEF Forget, Goes, AgentSame, ServerSame,
       NodeSame, server, node, TableType, Steps, Streams, Entries, OwesUp,
       OwesDown, Occupied, Places, Attached, Counted, Members, Locks
  <2>2. \A d \in OwesUp : at'[d] = at[d]
    BY <1>4, ConstantsAssumption DEF Forget, Goes, AgentSame, ServerSame,
       NodeSame, server, node, TableType, Steps, Streams, Entries, OwesUp
  <2>3. QED
    BY <2>1, <2>2 DEF OneOwes, ConnectedExact
<1>5. ASSUME NEW c \in Controls, Register(c) PROVE OneOwes' /\ ConnectedExact'
  <2> DEFINE e == at[c]
  <2>1. /\ c \in Streams /\ e \in Entries /\ pc[c] = "entered" /\ nMu[e] = Free
        /\ pc' = [pc EXCEPT ![c] = "register"]
        /\ controls' = [controls EXCEPT ![e] = controls[e] \cup {c}]
        /\ UNCHANGED <<at, connected>> /\ c \notin controls[e]
    BY <1>5 DEF Register, Goes, AgentSame, ServerSame, NodeSame, server, node,
       TableType, Steps, Streams, Entries, Places, Inside, Attached, Counted,
       Members
  <2>2. \A d \in Controls : pc[d] = "register" => at[d] # e
    BY <2>1, ConstantsAssumption DEF Locks, Streams
  <2>3. \A d \in OwesUp : at[d] \in Entries /\ d \in controls[at[d]] /\ d # c
    BY <2>1 DEF OwesUp, Places, Inside, Attached, Counted, Members, Streams
  <2>4. OwesDown' = OwesDown
    BY <2>1 DEF OwesDown, TableType, Steps, Streams, Entries
  <2>5. CASE controls[e] = {}
    <3>1. OwesUp' = OwesUp \cup {c} /\ c \notin OwesUp
      BY <2>1, <2>2, <2>3, <2>5 DEF OwesUp, TableType, Steps, Streams, Entries
    <3>2. Occupied' = Occupied \cup {e} /\ e \notin Occupied
      <4>1. controls'[e] = {c} /\ \A x \in Entries : x # e => controls'[x] = controls[x]
        BY <2>1, <2>5 DEF TableType, Steps, Streams, Entries
      <4>2. QED BY <2>1, <2>5, <4>1 DEF Occupied
    <3>3. Cardinality(OwesUp') = Cardinality(OwesUp) + 1
      BY <3>1, FiniteParts, FS_AddElement
    <3>4. Cardinality(Occupied') = Cardinality(Occupied) + 1
      BY <3>2, FiniteParts, FS_AddElement
    <3>5. ConnectedExact'
      BY <2>1, <2>4, <3>3, <3>4, CountsAreNat DEF ConnectedExact, TableType
    <3>6. OneOwes'
      BY <2>1, <2>3, <2>5, <3>1 DEF OneOwes
    <3>7. QED BY <3>5, <3>6
  <2>6. CASE controls[e] # {}
    <3>1. OwesUp' = OwesUp
      BY <2>1, <2>2, <2>3, <2>6 DEF OwesUp, Places, Inside, Attached, Counted,
         TableType, Steps, Streams, Entries
    <3>2. Occupied' = Occupied
      BY <2>1, <2>6 DEF Occupied, TableType, Steps, Streams, Entries
    <3>3. QED BY <2>1, <2>4, <3>1, <3>2 DEF OneOwes, ConnectedExact
  <2>7. QED BY <2>5, <2>6
<1>6. ASSUME NEW c \in Controls, ReadMaintenance(c) PROVE OneOwes' /\ ConnectedExact'
  <2> DEFINE e == at[c]
  <2>1. /\ c \in Streams /\ pc[c] = "register"
        /\ pc' = [pc EXCEPT ![c] = IF controls[e] = {c} THEN "count" ELSE "welcome"]
        /\ UNCHANGED <<at, connected, controls>>
    BY <1>6 DEF ReadMaintenance, Goes, AgentSame, ServerSame, NodeSame, server,
       node, Streams
  <2>2. OwesUp' = OwesUp
    BY <2>1 DEF OwesUp, TableType, Steps, Streams, Entries
  <2>3. UNCHANGED <<OwesDown, Occupied>>
    BY <2>1 DEF OwesDown, Occupied, TableType, Steps, Streams, Entries
  <2>4. QED BY <2>1, <2>2, <2>3 DEF OneOwes, ConnectedExact
<1>7. ASSUME NEW c \in Controls, CountUp(c) PROVE OneOwes' /\ ConnectedExact'
  <2>1. /\ c \in Streams /\ pc[c] = "count" /\ pc' = [pc EXCEPT ![c] = "welcome"]
        /\ connected' = connected + 1 /\ UNCHANGED <<at, controls>>
    BY <1>7 DEF CountUp, Goes, AgentSame, ServerSame, NodeSame, server, node,
       Streams
  <2>2. OwesUp' = OwesUp \ {c} /\ c \in OwesUp
    BY <2>1 DEF OwesUp, TableType, Steps, Streams, Entries
  <2>3. UNCHANGED <<OwesDown, Occupied>>
    BY <2>1 DEF OwesDown, Occupied, TableType, Steps, Streams, Entries
  <2>4. Cardinality(OwesUp') = Cardinality(OwesUp) - 1
    BY <2>2, FiniteParts, FS_RemoveElement
  <2>5. ConnectedExact'
    BY <2>1, <2>3, <2>4, CountsAreNat DEF ConnectedExact, TableType
  <2>6. OneOwes'
    BY <2>1, <2>2 DEF OneOwes
  <2>7. QED BY <2>5, <2>6
<1>8. ASSUME NEW c \in Controls, Welcome(c) PROVE OneOwes' /\ ConnectedExact'
  <2>1. UNCHANGED <<OwesUp, OwesDown, Occupied, connected>>
    BY <1>8, ConstantsAssumption DEF Welcome, Goes, AgentSame, ServerSame,
       NodeSame, server, node, TableType, Steps, Streams, Entries, OwesUp,
       OwesDown, Occupied, Places, Attached, Counted, Members, Locks
  <2>2. \A d \in OwesUp : at'[d] = at[d]
    BY <1>8, ConstantsAssumption DEF Welcome, Goes, AgentSame, ServerSame,
       NodeSame, server, node, TableType, Steps, Streams, Entries, OwesUp
  <2>3. QED
    BY <2>1, <2>2 DEF OneOwes, ConnectedExact
<1>9. ASSUME NEW c \in Controls, RecvDraining(c) PROVE OneOwes' /\ ConnectedExact'
  <2>1. UNCHANGED <<OwesUp, OwesDown, Occupied, connected>>
    BY <1>9, ConstantsAssumption DEF RecvDraining, Goes, AgentSame, ServerSame,
       NodeSame, server, node, TableType, Steps, Streams, Entries, OwesUp,
       OwesDown, Occupied, Places, Attached, Counted, Members, Locks
  <2>2. \A d \in OwesUp : at'[d] = at[d]
    BY <1>9, ConstantsAssumption DEF RecvDraining, Goes, AgentSame, ServerSame,
       NodeSame, server, node, TableType, Steps, Streams, Entries, OwesUp
  <2>3. QED
    BY <2>1, <2>2 DEF OneOwes, ConnectedExact
<1>10. ASSUME NEW c \in Controls, LeaveControl(c) PROVE OneOwes' /\ ConnectedExact'
  <2> DEFINE e == at[c]
  <2>1. /\ c \in Streams /\ e \in Entries /\ pc[c] = "serving" /\ nMu[e] = Free
        /\ pc' = [pc EXCEPT ![c] = IF controls[e] = {c} THEN "uncount" ELSE "forget"]
        /\ controls' = [controls EXCEPT ![e] = controls[e] \ {c}]
        /\ UNCHANGED <<at, connected>> /\ c \in controls[e]
    BY <1>10 DEF LeaveControl, Goes, AgentSame, ServerSame, NodeSame, server,
       node, TableType, Steps, Streams, Entries, Places, Inside, Attached,
       Counted, Members
  <2>2. \A d \in Controls : pc[d] = "register" => at[d] # e
    BY <2>1, ConstantsAssumption DEF Locks, Streams
  <2>3. \A d \in Controls : pc[d] = "register" => at[d] \in Entries
    BY DEF Places, Inside, Attached, Streams
  <2>4. OwesUp' = OwesUp
    BY <2>1, <2>2, <2>3 DEF OwesUp, TableType, Steps, Streams, Entries
  <2>5. OneOwes'
    BY <2>1, <2>4 DEF OneOwes
  <2>6. CASE controls[e] = {c}
    <3>1. OwesDown' = OwesDown \cup {c} /\ c \notin OwesDown
      BY <2>1, <2>6 DEF OwesDown, TableType, Steps, Streams, Entries
    <3>2. Occupied' = Occupied \ {e} /\ e \in Occupied
      <4>1. controls'[e] = {} /\ \A x \in Entries : x # e => controls'[x] = controls[x]
        BY <2>1, <2>6 DEF TableType, Steps, Streams, Entries
      <4>2. QED BY <2>1, <2>6, <4>1 DEF Occupied
    <3>3. Cardinality(OwesDown') = Cardinality(OwesDown) + 1
      BY <3>1, FiniteParts, FS_AddElement
    <3>4. Cardinality(Occupied') = Cardinality(Occupied) - 1
      BY <3>2, FiniteParts, FS_RemoveElement
    <3>5. ConnectedExact'
      BY <2>1, <2>4, <3>3, <3>4, CountsAreNat DEF ConnectedExact, TableType
    <3>6. QED BY <2>5, <3>5
  <2>7. CASE controls[e] # {c}
    <3>1. UNCHANGED OwesDown
      BY <2>1, <2>7 DEF OwesDown, TableType, Steps, Streams, Entries
    <3>2. Occupied' = Occupied
      BY <2>1, <2>7 DEF Occupied, TableType, Steps, Streams, Entries
    <3>3. QED BY <2>1, <2>4, <2>5, <3>1, <3>2 DEF ConnectedExact
  <2>8. QED BY <2>6, <2>7
<1>11. ASSUME NEW c \in Controls, CountDown(c) PROVE OneOwes' /\ ConnectedExact'
  <2>1. /\ c \in Streams /\ pc[c] = "uncount" /\ pc' = [pc EXCEPT ![c] = "forget"]
        /\ connected' = connected - 1 /\ UNCHANGED <<at, controls>>
    BY <1>11 DEF CountDown, Goes, AgentSame, ServerSame, NodeSame, server, node,
       Streams
  <2>2. OwesDown' = OwesDown \ {c} /\ c \in OwesDown
    BY <2>1 DEF OwesDown, TableType, Steps, Streams, Entries
  <2>3. UNCHANGED <<OwesUp, Occupied>>
    BY <2>1 DEF OwesUp, Occupied, TableType, Steps, Streams, Entries
  <2>4. Cardinality(OwesDown') = Cardinality(OwesDown) - 1
    BY <2>2, FiniteParts, FS_RemoveElement
  <2>5. ConnectedExact'
    BY <2>1, <2>3, <2>4, CountsAreNat DEF ConnectedExact, TableType
  <2>6. OneOwes'
    BY <2>1, <2>3 DEF OneOwes
  <2>7. QED BY <2>5, <2>6
<1>12. ASSUME NEW c \in Controls, DialControl(c) PROVE OneOwes' /\ ConnectedExact'
  <2>1. UNCHANGED <<OwesUp, OwesDown, Occupied, connected>>
    BY <1>12, ConstantsAssumption DEF DialControl, Goes, AgentSame, ServerSame,
       NodeSame, server, node, TableType, Steps, Streams, Entries, OwesUp,
       OwesDown, Occupied, Places, Attached, Counted, Members, Locks
  <2>2. \A d \in OwesUp : at'[d] = at[d]
    BY <1>12, ConstantsAssumption DEF DialControl, Goes, AgentSame, ServerSame,
       NodeSame, server, node, TableType, Steps, Streams, Entries, OwesUp
  <2>3. QED
    BY <2>1, <2>2 DEF OneOwes, ConnectedExact
<1>13. ASSUME NEW c \in Controls, AgentDrains(c) PROVE OneOwes' /\ ConnectedExact'
  <2>1. UNCHANGED <<OwesUp, OwesDown, Occupied, connected>>
    BY <1>13, ConstantsAssumption DEF AgentDrains, Goes, AgentSame, ServerSame,
       NodeSame, server, node, TableType, Steps, Streams, Entries, OwesUp,
       OwesDown, Occupied, Places, Attached, Counted, Members, Locks
  <2>2. \A d \in OwesUp : at'[d] = at[d]
    BY <1>13, ConstantsAssumption DEF AgentDrains, Goes, AgentSame, ServerSame,
       NodeSame, server, node, TableType, Steps, Streams, Entries, OwesUp
  <2>3. QED
    BY <2>1, <2>2 DEF OneOwes, ConnectedExact
<1>14. ASSUME NEW c \in Controls, Disconnect(c) PROVE OneOwes' /\ ConnectedExact'
  <2>1. UNCHANGED <<OwesUp, OwesDown, Occupied, connected>>
    BY <1>14, ConstantsAssumption DEF Disconnect, Goes, AgentSame, ServerSame,
       NodeSame, server, node, TableType, Steps, Streams, Entries, OwesUp,
       OwesDown, Occupied, Places, Attached, Counted, Members, Locks
  <2>2. \A d \in OwesUp : at'[d] = at[d]
    BY <1>14, ConstantsAssumption DEF Disconnect, Goes, AgentSame, ServerSame,
       NodeSame, server, node, TableType, Steps, Streams, Entries, OwesUp
  <2>3. QED
    BY <2>1, <2>2 DEF OneOwes, ConnectedExact
<1>15. ASSUME NEW s \in Slots, AddLive(s) PROVE OneOwes' /\ ConnectedExact'
  <2>1. UNCHANGED <<OwesUp, OwesDown, Occupied, connected>>
    BY <1>15, ConstantsAssumption DEF AddLive, Goes, AgentSame, ServerSame,
       NodeSame, server, node, TableType, Steps, Streams, Entries, OwesUp,
       OwesDown, Occupied, Places, Attached, Counted, Members, Locks
  <2>2. \A d \in OwesUp : at'[d] = at[d]
    BY <1>15, ConstantsAssumption DEF AddLive, Goes, AgentSame, ServerSame,
       NodeSame, server, node, TableType, Steps, Streams, Entries, OwesUp
  <2>3. QED
    BY <2>1, <2>2 DEF OneOwes, ConnectedExact
<1>16. ASSUME NEW s \in Slots, ParkSlot(s) PROVE OneOwes' /\ ConnectedExact'
  <2>1. UNCHANGED <<OwesUp, OwesDown, Occupied, connected>>
    BY <1>16, ConstantsAssumption DEF ParkSlot, Goes, AgentSame, ServerSame,
       NodeSame, server, node, TableType, Steps, Streams, Entries, OwesUp,
       OwesDown, Occupied, Places, Attached, Counted, Members, Locks
  <2>2. \A d \in OwesUp : at'[d] = at[d]
    BY <1>16, ConstantsAssumption DEF ParkSlot, Goes, AgentSame, ServerSame,
       NodeSame, server, node, TableType, Steps, Streams, Entries, OwesUp
  <2>3. QED
    BY <2>1, <2>2 DEF OneOwes, ConnectedExact
<1>17. ASSUME NEW s \in Slots, SlotOver(s) PROVE OneOwes' /\ ConnectedExact'
  <2>1. UNCHANGED <<OwesUp, OwesDown, Occupied, connected>>
    BY <1>17, ConstantsAssumption DEF SlotOver, Goes, AgentSame, ServerSame,
       NodeSame, server, node, TableType, Steps, Streams, Entries, OwesUp,
       OwesDown, Occupied, Places, Attached, Counted, Members, Locks
  <2>2. \A d \in OwesUp : at'[d] = at[d]
    BY <1>17, ConstantsAssumption DEF SlotOver, Goes, AgentSame, ServerSame,
       NodeSame, server, node, TableType, Steps, Streams, Entries, OwesUp
  <2>3. QED
    BY <2>1, <2>2 DEF OneOwes, ConnectedExact
<1>18. ASSUME NEW s \in Slots, LeaveSlot(s) PROVE OneOwes' /\ ConnectedExact'
  <2>1. UNCHANGED <<OwesUp, OwesDown, Occupied, connected>>
    BY <1>18, ConstantsAssumption DEF LeaveSlot, Goes, AgentSame, ServerSame,
       NodeSame, server, node, TableType, Steps, Streams, Entries, OwesUp,
       OwesDown, Occupied, Places, Attached, Counted, Members, Locks
  <2>2. \A d \in OwesUp : at'[d] = at[d]
    BY <1>18, ConstantsAssumption DEF LeaveSlot, Goes, AgentSame, ServerSame,
       NodeSame, server, node, TableType, Steps, Streams, Entries, OwesUp
  <2>3. QED
    BY <2>1, <2>2 DEF OneOwes, ConnectedExact
<1>19. ASSUME NEW s \in Slots, DialSlot(s) PROVE OneOwes' /\ ConnectedExact'
  <2>1. UNCHANGED <<OwesUp, OwesDown, Occupied, connected>>
    BY <1>19, ConstantsAssumption DEF DialSlot, Goes, AgentSame, ServerSame,
       NodeSame, server, node, TableType, Steps, Streams, Entries, OwesUp,
       OwesDown, Occupied, Places, Attached, Counted, Members, Locks
  <2>2. \A d \in OwesUp : at'[d] = at[d]
    BY <1>19, ConstantsAssumption DEF DialSlot, Goes, AgentSame, ServerSame,
       NodeSame, server, node, TableType, Steps, Streams, Entries, OwesUp
  <2>3. QED
    BY <2>1, <2>2 DEF OneOwes, ConnectedExact
<1>20. ASSUME NEW s \in Slots, SlotEnds(s) PROVE OneOwes' /\ ConnectedExact'
  <2>1. UNCHANGED <<OwesUp, OwesDown, Occupied, connected>>
    BY <1>20, ConstantsAssumption DEF SlotEnds, Goes, AgentSame, ServerSame,
       NodeSame, server, node, TableType, Steps, Streams, Entries, OwesUp,
       OwesDown, Occupied, Places, Attached, Counted, Members, Locks
  <2>2. \A d \in OwesUp : at'[d] = at[d]
    BY <1>20, ConstantsAssumption DEF SlotEnds, Goes, AgentSame, ServerSame,
       NodeSame, server, node, TableType, Steps, Streams, Entries, OwesUp
  <2>3. QED
    BY <2>1, <2>2 DEF OneOwes, ConnectedExact
<1>21. ASSUME NEW s \in Slots, Take(s) PROVE OneOwes' /\ ConnectedExact'
  <2>1. UNCHANGED <<OwesUp, OwesDown, Occupied, connected>>
    BY <1>21, ConstantsAssumption DEF Take, Goes, AgentSame, ServerSame,
       NodeSame, server, node, TableType, Steps, Streams, Entries, OwesUp,
       OwesDown, Occupied, Places, Attached, Counted, Members, Locks
  <2>2. \A d \in OwesUp : at'[d] = at[d]
    BY <1>21, ConstantsAssumption DEF Take, Goes, AgentSame, ServerSame,
       NodeSame, server, node, TableType, Steps, Streams, Entries, OwesUp
  <2>3. QED
    BY <2>1, <2>2 DEF OneOwes, ConnectedExact
<1>22. ASSUME NEW s \in Slots, Ready(s) PROVE OneOwes' /\ ConnectedExact'
  <2>1. UNCHANGED <<OwesUp, OwesDown, Occupied, connected>>
    BY <1>22, ConstantsAssumption DEF Ready, Goes, AgentSame, ServerSame,
       NodeSame, server, node, TableType, Steps, Streams, Entries, OwesUp,
       OwesDown, Occupied, Places, Attached, Counted, Members, Locks
  <2>2. \A d \in OwesUp : at'[d] = at[d]
    BY <1>22, ConstantsAssumption DEF Ready, Goes, AgentSame, ServerSame,
       NodeSame, server, node, TableType, Steps, Streams, Entries, OwesUp
  <2>3. QED
    BY <2>1, <2>2 DEF OneOwes, ConnectedExact
<1>23. ASSUME InstallRoster PROVE OneOwes' /\ ConnectedExact'
  <2>1. UNCHANGED <<OwesUp, OwesDown, Occupied, connected>>
    BY <1>23, ConstantsAssumption DEF InstallRoster, AgentSame, NodeSame, node,
       TableType, Steps, Streams, Entries, OwesUp, OwesDown, Occupied, Places,
       Attached, Counted, Members, Locks
  <2>2. \A d \in OwesUp : at'[d] = at[d]
    BY <1>23, ConstantsAssumption DEF InstallRoster, AgentSame, NodeSame, node,
       TableType, Steps, Streams, Entries, OwesUp
  <2>3. QED
    BY <2>1, <2>2 DEF OneOwes, ConnectedExact
<1>24. ASSUME SetMaintenance PROVE OneOwes' /\ ConnectedExact'
  <2>1. UNCHANGED <<OwesUp, OwesDown, Occupied, connected>>
    BY <1>24, ConstantsAssumption DEF SetMaintenance, SetterGoes, AgentSame,
       NodeSame, node, TableType, Steps, Streams, Entries, OwesUp, OwesDown,
       Occupied, Places, Attached, Counted, Members, Locks
  <2>2. \A d \in OwesUp : at'[d] = at[d]
    BY <1>24, ConstantsAssumption DEF SetMaintenance, SetterGoes, AgentSame,
       NodeSame, node, TableType, Steps, Streams, Entries, OwesUp
  <2>3. QED
    BY <2>1, <2>2 DEF OneOwes, ConnectedExact
<1>25. ASSUME Broadcast PROVE OneOwes' /\ ConnectedExact'
  <2>1. UNCHANGED <<OwesUp, OwesDown, Occupied, connected>>
    BY <1>25, ConstantsAssumption DEF Broadcast, SetterGoes, AgentSame,
       NodeSame, node, TableType, Steps, Streams, Entries, OwesUp, OwesDown,
       Occupied, Places, Attached, Counted, Members, Locks
  <2>2. \A d \in OwesUp : at'[d] = at[d]
    BY <1>25, ConstantsAssumption DEF Broadcast, SetterGoes, AgentSame,
       NodeSame, node, TableType, Steps, Streams, Entries, OwesUp
  <2>3. QED
    BY <2>1, <2>2 DEF OneOwes, ConnectedExact
<1>26. ASSUME Kill PROVE OneOwes' /\ ConnectedExact'
  <2>1. UNCHANGED <<OwesUp, OwesDown, Occupied, connected>>
    BY <1>26, ConstantsAssumption DEF Kill, SetterGoes, AgentSame, NodeSame,
       node, TableType, Steps, Streams, Entries, OwesUp, OwesDown, Occupied,
       Places, Attached, Counted, Members, Locks
  <2>2. \A d \in OwesUp : at'[d] = at[d]
    BY <1>26, ConstantsAssumption DEF Kill, SetterGoes, AgentSame, NodeSame,
       node, TableType, Steps, Streams, Entries, OwesUp
  <2>3. QED
    BY <2>1, <2>2 DEF OneOwes, ConnectedExact
<1>27. ASSUME KillDrains PROVE OneOwes' /\ ConnectedExact'
  <2>1. UNCHANGED <<OwesUp, OwesDown, Occupied, connected>>
    BY <1>27, ConstantsAssumption DEF KillDrains, SetterGoes, AgentSame,
       NodeSame, node, TableType, Steps, Streams, Entries, OwesUp, OwesDown,
       Occupied, Places, Attached, Counted, Members, Locks
  <2>2. \A d \in OwesUp : at'[d] = at[d]
    BY <1>27, ConstantsAssumption DEF KillDrains, SetterGoes, AgentSame,
       NodeSame, node, TableType, Steps, Streams, Entries, OwesUp
  <2>3. QED
    BY <2>1, <2>2 DEF OneOwes, ConnectedExact
<1>28. ASSUME Close PROVE OneOwes' /\ ConnectedExact'
  <2>1. UNCHANGED <<OwesUp, OwesDown, Occupied, connected>>
    BY <1>28, ConstantsAssumption DEF Close, AgentSame, NodeSame, node,
       TableType, Steps, Streams, Entries, OwesUp, OwesDown, Occupied, Places,
       Attached, Counted, Members, Locks
  <2>2. \A d \in OwesUp : at'[d] = at[d]
    BY <1>28, ConstantsAssumption DEF Close, AgentSame, NodeSame, node,
       TableType, Steps, Streams, Entries, OwesUp
  <2>3. QED
    BY <2>1, <2>2 DEF OneOwes, ConnectedExact
<1>29. CASE UNCHANGED vars
  BY <1>29 DEF vars, server, node, OwesUp, OwesDown, Occupied, OneOwes,
     ConnectedExact
<1>30. QED
  BY <1>1, <1>2, <1>3, <1>4, <1>5, <1>6, <1>7, <1>8, <1>9, <1>10, <1>11, <1>12,
     <1>13, <1>14, <1>15, <1>16, <1>17, <1>18, <1>19, <1>20, <1>21, <1>22,
     <1>23, <1>24, <1>25, <1>26, <1>27, <1>28, <1>29 DEF Next, StreamStep,
     ControlStep, SlotStep, SetterStep

\* Streams that owe a +1 sit on different entries, each of them occupied, so
\* the count covers what is owed and cannot be negative.
LEMMA CountNotNegative ==
  ASSUME TableType, Places, Members, OneOwes, ConnectedExact
  PROVE  connected \in Nat
<1> DEFINE f == [c \in OwesUp |-> at[c]]
<1>1. \A c \in OwesUp : at[c] \in Occupied
  BY DEF OwesUp, Occupied, Places, Inside, Attached, Counted, Members, Streams
<1>2. f \in [OwesUp -> Occupied]
  BY <1>1
<1>3. \A a, b \in DOMAIN f : f[a] = f[b] => a = b
  BY DEF OneOwes
<1>4. f \in Injection(OwesUp, Occupied)
  BY <1>2, <1>3 DEF Injection, IsInjective
<1>5. Cardinality(OwesUp) <= Cardinality(Occupied)
  BY <1>4, FiniteParts, FS_Injection
<1>6. QED
  BY <1>5, CountsAreNat DEF ConnectedExact, TableType

\* The replica starts with an empty table.
LEMMA TableInit == Init => TableInv
<1> SUFFICES ASSUME Init PROVE TableInv
  OBVIOUS
<1>1. TableType
  <2>1. 0 \in 0 .. MaxRosters
    BY ConstantsAssumption
  <2>2. /\ roster \in [version : 0 .. MaxRosters, revoked : BOOLEAN, maintenance : BOOLEAN]
        /\ setter \in [pc : {"idle", "mark", "broadcast", "kill", "drain"},
                       target : Entries \cup {NoEntry}]
    BY <2>1 DEF Init
  <2>3. link \in [Streams -> {"off", "open", "draining", "gone"}] /\ pc \in [Streams -> Steps]
    BY DEF Init, Steps
  <2>4. /\ notice \in [Controls -> BOOLEAN] /\ closed \in BOOLEAN
        /\ draining \in [Entries -> BOOLEAN] /\ maintenance \in [Entries -> BOOLEAN]
        /\ revoked \in [Entries -> BOOLEAN]
    BY DEF Init
  <2>5. /\ at \in [Streams -> Entries \cup {NoEntry}] /\ nodes \in Entries \cup {NoEntry}
        /\ sMu \in Streams \cup {Free} /\ nMu \in [Entries -> Streams \cup {Free}]
        /\ controls \in [Entries -> SUBSET Controls] /\ live \in [Entries -> SUBSET Slots]
    BY DEF Init
  <2>6. connected \in Int /\ told \in [Controls -> 0 .. MaxRosters]
    BY <2>1 DEF Init
  <2>7. QED
    BY <2>2, <2>3, <2>4, <2>5, <2>6 DEF TableType
<1>2. Places /\ Members /\ Locks /\ Held
  BY ConstantsAssumption DEF Init, Places, Members, Locks, Held, Inside,
     Attached, Counted, Streams, Entries
<1>3. OwesUp = {} /\ OwesDown = {} /\ Occupied = {}
  BY ConstantsAssumption DEF Init, OwesUp, OwesDown, Occupied, Streams, Entries
<1>4. OneOwes /\ ConnectedExact
  BY <1>3, FS_EmptySet DEF Init, OneOwes, ConnectedExact
<1>5. MaintenanceKept /\ RosterKept
  BY ConstantsAssumption DEF Init, MaintenanceKept, RosterKept, Streams
<1>6. QED
  BY <1>1, <1>2, <1>4, <1>5 DEF TableInv

\* Every step of a stream, of SetRoster, of Close and of the Agent keeps it.
LEMMA TableNext == TableInv /\ [Next]_vars => TableInv'
<1> SUFFICES ASSUME TableInv, [Next]_vars PROVE TableInv'
  OBVIOUS
<1>1. TableType' /\ Places' /\ Locks' /\ Members'
  BY TypeStep, PlacesStep, LocksStep, MembersStep DEF TableInv
<1>2. Held' /\ OneOwes' /\ ConnectedExact'
  BY HeldStep, CountStep DEF TableInv
<1>3. MaintenanceKept' /\ RosterKept'
  BY MaintenanceStep, RosterStep DEF TableInv
<1>4. QED
  BY <1>1, <1>2, <1>3 DEF TableInv

\* The node table keeps its invariant: entries hold exactly the streams
\* attached to them, node.mu is held only by registrations, and the entry in
\* the table has a stream that will forget it.
THEOREM TableAlways == Spec => []TableInv
<1>1. QED
  BY TableInit, TableNext, PTL DEF Spec

\* Type correctness, with the connected-node count of Server.controlsChanged
\* never below zero.
THEOREM TypeCorrect == Spec => []TypeOK
<1>1. TableInv => TypeOK
  BY CountNotNegative DEF TableInv, TypeOK
<1>2. QED
  BY <1>1, TableAlways, PTL

\* The connected-node count of Server.controlsChanged is exact, up to the
\* calls still owed, for any number of overlapping Control streams.
THEOREM CountIsExact == Spec => []ConnectedExact
<1>1. TableInv => ConnectedExact
  BY DEF TableInv
<1>2. QED
  BY <1>1, TableAlways, PTL

\* Server.forget leaves no entry behind: once every stream is over, or not yet
\* in, the table is empty.
THEOREM NoEntryLeaks == Spec => []NoEntryLeak
<1>1. TableInv => NoEntryLeak
  BY DEF TableInv, Held, NoEntryLeak, Inside, Attached, Counted
<1>2. QED
  BY <1>1, TableAlways, PTL

\* A reconnect that races Server.SetRoster never leaves the entry in the table
\* with the old maintenance flag.
THEOREM MaintenanceIsCurrent == Spec => []MaintenanceCurrent
<1>1. TableInv => MaintenanceCurrent
  BY DEF TableInv, MaintenanceKept, MaintenanceCurrent
<1>2. QED
  BY <1>1, TableAlways, PTL

\* A Control stream that connects while Server.SetRoster runs is not missed:
\* every stream served by the entry in the table was sent the newest roster.
THEOREM RosterReaches == Spec => []RosterReachesAll
<1>1. TableInv => RosterReachesAll
  BY DEF TableInv, RosterKept, RosterReachesAll
<1>2. QED
  BY <1>1, TableAlways, PTL

=============================================================================
