-------------------------- MODULE EnrolmentProofs ---------------------------
(***************************************************************************)
(* The promises of enrolment for any number of machines, node ids, tokens, *)
(* handlers and disturbances, and any assignment of names and tenants.     *)
(***************************************************************************)
EXTENDS Enrolment, TLAPS

\* How far a handler is decides what it has to go by.
Shape ==
    \A h \in Handlers :
        /\ handler[h].pc \notin {"idle", "peek", "refused"} => handler[h].node \in Nodes
        /\ handler[h].pc \notin {"idle", "refused"} => handler[h].key \in Keys
        /\ handler[h].pc \in {"peek", "disabled", "approved", "claim", "pend",
                              "consume", "reserve"} => handler[h].token \in Tokens
        /\ handler[h].pc = "renewing" => handler[h].token = NoToken
        /\ handler[h].pc = "set" => handler[h].bound \/ handler[h].token = NoToken

\* The handlers that have consumed a token and not written the ledger yet.
Past(h, t) == handler[h].token = t /\ handler[h].pc \in {"set", "reserve"}

\* A token pays once: while it is good nobody is past Consume with it, and
\* afterwards either one handler is or one certificate was granted.
Spent ==
    \A t \in Tokens :
        /\ token[t].status # "dead" => granted[t] = 0 /\ \A h \in Handlers : ~Past(h, t)
        /\ granted[t] # 0 => granted[t] = 1 /\ \A h \in Handlers : ~Past(h, t)
        /\ \A g \in Handlers : \A h \in Handlers : Past(g, t) /\ Past(h, t) => g = h

\* A handler answers the Agent that waits for it, and one Agent waits for one.
Waits ==
    \A h \in Handlers :
        handler[h].by # NoAgent =>
            /\ agent[handler[h].by].pc = "calling"
            /\ \A g \in Handlers : handler[g].by = handler[h].by => g = h

\* The journal stands until both files are as it says.
Files ==
    \A a \in Agents :
        /\ agent[a].pc \in {"enrolled", "renewed", "key", "rekey", "cert", "recert",
                            "unlink", "reunlink"} => agent[a].next # NoCert
        /\ agent[a].pc \in {"key", "rekey", "cert", "recert", "unlink", "reunlink"}
                => agent[a].journal = agent[a].next
        /\ agent[a].pc \in {"cert", "recert", "unlink", "reunlink"}
                => agent[a].key = agent[a].next[2]
        /\ agent[a].pc \in {"unlink", "reunlink"} => agent[a].cert = agent[a].next
        /\ agent[a].journal = NoCert => Empty(a) \/ Loadable(a)

\* Whom the operator let in: the node ids of certificates may only be these.
Known(n) == n \in vouched.minted \/ (n \in vouched.approved /\ n \notin Owned)

\* Every place a node id passes through on its way into a certificate.
Vouched ==
    /\ \A t \in Tokens : token[t].bound # NoNode => token[t].bound \in vouched.minted
    /\ \A n \in Nodes : ledger[n].approved => n \in vouched.minted \cup vouched.approved
    /\ \A h \in Handlers :
        /\ handler[h].pc \notin {"idle", "peek", "refused"} =>
              IF handler[h].bound THEN handler[h].node \in vouched.minted
              ELSE handler[h].token # NoToken => handler[h].node \notin Owned
        /\ handler[h].pc \in {"renewing", "consume", "set", "reserve", "granted"} =>
              Known(handler[h].node)
    /\ \A a \in Agents :
        /\ agent[a].cert # NoCert => Known(agent[a].cert[1])
        /\ agent[a].next # NoCert => Known(agent[a].next[1])
        /\ agent[a].journal # NoCert => Known(agent[a].journal[1])

\* The inductive invariant.
EnrolInv == TypeOK /\ Shape /\ Spent /\ Waits /\ Files /\ Vouched

-----------------------------------------------------------------------------
(* Certificates and keys.                                                  *)

\* A certificate on file has a node and a key; none has neither.
LEMMA CertParts ==
    /\ NoCert[1] = NoNode /\ NoCert[2] = NoKey
    /\ \A n \in Nodes, k \in Keys :
        <<n, k>> \in Certs /\ <<n, k>> # NoCert /\ <<n, k>>[1] = n /\ <<n, k>>[2] = k
    /\ \A c \in Certs \cup {NoCert} :
        c # NoCert => c[1] \in Nodes /\ c[2] \in Keys
    /\ \A c \in Certs \cup {NoCert} :
        c[1] \in Nodes \cup {NoNode} /\ c[2] \in Keys \cup {NoKey}
BY EnrolmentAssumption DEF Certs, NoCert

\* While a key is free, generateNodeKey finds one.
LEMMA FreshKeyIsKey ==
    Keys \ InUse # {} => FreshKey \in Keys
BY DEF FreshKey

-----------------------------------------------------------------------------
(* The initial states.                                                     *)

LEMMA InitHolds == Init => EnrolInv
<1> SUFFICES ASSUME Init PROVE EnrolInv OBVIOUS
<1> USE EnrolmentAssumption, CertParts
<1>1. TypeOK
  BY
  DEF Init, TypeOK, TokenRecord, NodeRecord, HandlerState, AgentState, Unminted,
      NoRecord, Idle, Blank
<1>2. Shape BY DEF Init, Shape, Idle
<1>3. Spent BY DEF Init, Spent, Past, Unminted, Idle
<1>4. Waits BY DEF Init, Waits, Idle
<1>5. Files BY DEF Init, Files, Blank, Empty, Loadable, Stored
<1>6. Vouched BY DEF Init, Vouched, Unminted, NoRecord, Idle, Blank, Known
<1> QED BY <1>1, <1>2, <1>3, <1>4, <1>5, <1>6 DEF EnrolInv

-----------------------------------------------------------------------------
(* The steps.  Each action keeps every part of the invariant it touches.   *)

\* The first look at the token.
LEMMA PeekKeeps ==
    ASSUME EnrolInv, NEW h \in Handlers, Peek(h)
    PROVE  EnrolInv'
<1>0. TypeOK /\ Shape /\ Spent /\ Waits /\ Files /\ Vouched BY DEF EnrolInv
<1>1. /\ handler[h].pc = "peek" /\ handler[h].token \in Tokens /\ handler[h].key \in Keys
      /\ handler[h] \in HandlerState /\ token[handler[h].token] \in TokenRecord
      /\ UNCHANGED <<token, ledger, agent, granted, vouched, disturbances>>
  BY <1>0 DEF Peek, TypeOK, Shape
<1>2. PICK r \in HandlerState :
        /\ handler' = [handler EXCEPT ![h] = r]
        /\ r.by = handler[h].by /\ r.token = handler[h].token /\ r.key = handler[h].key
        /\ r.pc \in {"disabled", "refused"}
        /\ r.pc = "disabled" =>
             r.node \in Nodes /\ IF r.bound THEN r.node \in vouched.minted ELSE r.node \notin Owned
  <2> DEFINE g  == token[handler[h].token]
             n  == IF g.bound # NoNode THEN g.bound ELSE handler[h].node
             ok == /\ Consumable(handler[h].token)
                   /\ g.bound # NoNode => handler[h].node \in {NoNode, g.bound}
                   /\ n # NoNode
                   /\ g.bound = NoNode => g.claimed \in {NoNode, n} /\ n \notin Owned
             good == [handler[h] EXCEPT !.pc = "disabled", !.node = n,
                                        !.bound = g.bound # NoNode]
             bad  == [handler[h] EXCEPT !.pc = "refused"]
  <2>1. handler' = [handler EXCEPT ![h] = IF ok THEN good ELSE bad]
    BY DEF Peek
  <2>2. n \in Nodes \cup {NoNode} BY <1>1 DEF HandlerState, TokenRecord
  <2>3. g.bound # NoNode => g.bound \in vouched.minted BY <1>0, <1>1 DEF Vouched
  <2>4. CASE ok
    <3>1. good \in HandlerState BY <1>1, <2>2 DEF HandlerState
    <3>2. /\ good.by = handler[h].by /\ good.token = handler[h].token
          /\ good.key = handler[h].key /\ good.pc = "disabled"
          /\ good.node = n /\ good.bound = (g.bound # NoNode)
      BY <1>1 DEF HandlerState
    <3>3. n \in Nodes BY <2>2, <2>4
    <3>4. IF g.bound # NoNode THEN n \in vouched.minted ELSE n \notin Owned
      BY <2>3, <2>4
    <3> HIDE DEF good, g, n
    <3> QED BY <2>1, <2>4, <3>1, <3>2, <3>3, <3>4
  <2>5. CASE ~ok
    <3>1. /\ bad \in HandlerState /\ bad.by = handler[h].by /\ bad.pc = "refused"
          /\ bad.token = handler[h].token /\ bad.key = handler[h].key
      BY <1>1 DEF HandlerState
    <3> HIDE DEF bad, good, ok
    <3> QED BY <2>1, <2>5, <3>1
  <2> QED BY <2>4, <2>5
<1>3. TypeOK' BY <1>0, <1>1, <1>2 DEF TypeOK
<1>4. Shape' BY <1>0, <1>1, <1>2 DEF Shape, TypeOK
<1>5. Spent' BY <1>0, <1>1, <1>2 DEF Spent, Past, TypeOK
<1>6. Waits' BY <1>0, <1>1, <1>2 DEF Waits, TypeOK
<1>7. Files' BY <1>0, <1>1 DEF Files, Empty, Loadable, Stored
<1>8. Vouched' BY <1>0, <1>1, <1>2 DEF Vouched, Known, TypeOK
<1> QED BY <1>3, <1>4, <1>5, <1>6, <1>7, <1>8 DEF EnrolInv

\* A look at the ledger.
LEMMA CheckDisabledKeeps ==
    ASSUME EnrolInv, NEW h \in Handlers, CheckDisabled(h)
    PROVE  EnrolInv'
<1>0. TypeOK /\ Shape /\ Spent /\ Waits /\ Files /\ Vouched BY DEF EnrolInv
<1>1. TypeOK'
  <2>1. handler' \in [Handlers -> HandlerState]
    BY <1>0, EnrolmentAssumption
    DEF TypeOK, HandlerState, CheckDisabled, Finish
  <2> QED BY <1>0, <2>1 DEF TypeOK, CheckDisabled, Finish
<1>2. Shape'
  BY <1>0, EnrolmentAssumption
  DEF HandlerState, TypeOK, Shape, CheckDisabled, Finish
<1>3. Spent'
  BY <1>0, EnrolmentAssumption
  DEF TokenRecord, HandlerState, TypeOK, Shape, Spent, Past, CheckDisabled, Finish
<1>4. Waits'
  BY <1>0, EnrolmentAssumption
  DEF HandlerState, AgentState, TypeOK, Waits, CheckDisabled, Finish
<1>5. Vouched'
  BY <1>0, EnrolmentAssumption, CertParts
  DEF TokenRecord, NodeRecord, HandlerState, AgentState, TypeOK, Shape, Vouched,
      Known, CheckDisabled, Finish
<1>6. Files'
  BY <1>0 DEF Files, Empty, Loadable, Stored, CheckDisabled, Finish
<1> QED BY <1>1, <1>2, <1>3, <1>4, <1>5, <1>6 DEF EnrolInv

\* The approval gate.
LEMMA CheckApprovedKeeps ==
    ASSUME EnrolInv, NEW h \in Handlers, CheckApproved(h)
    PROVE  EnrolInv'
<1>0. TypeOK /\ Shape /\ Spent /\ Waits /\ Files /\ Vouched BY DEF EnrolInv
<1>1. TypeOK'
  <2>1. handler' \in [Handlers -> HandlerState]
    BY <1>0, EnrolmentAssumption
    DEF TypeOK, HandlerState, CheckApproved, Finish
  <2> QED BY <1>0, <2>1 DEF TypeOK, CheckApproved, Finish
<1>2. Shape'
  BY <1>0, EnrolmentAssumption
  DEF HandlerState, TypeOK, Shape, CheckApproved, Finish
<1>3. Spent'
  BY <1>0, EnrolmentAssumption
  DEF TokenRecord, HandlerState, TypeOK, Shape, Spent, Past, CheckApproved, Finish
<1>4. Waits'
  BY <1>0, EnrolmentAssumption
  DEF HandlerState, AgentState, TypeOK, Waits, CheckApproved, Finish
<1>5. Vouched'
  BY <1>0, EnrolmentAssumption, CertParts
  DEF TokenRecord, NodeRecord, HandlerState, AgentState, TypeOK, Shape, Vouched,
      Known, CheckApproved, Finish
<1>6. Files'
  BY <1>0 DEF Files, Empty, Loadable, Stored, CheckApproved, Finish
<1> QED BY <1>1, <1>2, <1>3, <1>4, <1>5, <1>6 DEF EnrolInv

\* A pending node keeps the token.
LEMMA ClaimKeeps ==
    ASSUME EnrolInv, NEW h \in Handlers, Claim(h)
    PROVE  EnrolInv'
<1>0. TypeOK /\ Shape /\ Spent /\ Waits /\ Files /\ Vouched BY DEF EnrolInv
<1>1. TypeOK'
  <2>1. token' \in [Tokens -> TokenRecord]
    BY <1>0, EnrolmentAssumption
    DEF TypeOK, TokenRecord, HandlerState, Shape, Claim, Finish, Consumable
  <2>2. handler' \in [Handlers -> HandlerState]
    BY <1>0, EnrolmentAssumption
    DEF TypeOK, HandlerState, Shape, Claim, Finish, Consumable
  <2> QED BY <1>0, <2>1, <2>2 DEF TypeOK, Claim, Finish, Consumable
<1>2. Shape'
  BY <1>0, EnrolmentAssumption
  DEF HandlerState, TypeOK, Shape, Claim, Finish, Consumable
<1>3. Spent'
  BY <1>0, EnrolmentAssumption
  DEF TokenRecord, HandlerState, TypeOK, Shape, Spent, Past, Claim, Finish, Consumable
<1>4. Waits'
  BY <1>0, EnrolmentAssumption
  DEF HandlerState, AgentState, TypeOK, Waits, Claim, Finish, Consumable
<1>5. Vouched'
  BY <1>0, EnrolmentAssumption, CertParts
  DEF TokenRecord, NodeRecord, HandlerState, AgentState, TypeOK, Shape, Vouched,
      Known, Claim, Finish, Consumable
<1>6. Files'
  BY <1>0 DEF Files, Empty, Loadable, Stored, Claim, Finish, Consumable
<1> QED BY <1>1, <1>2, <1>3, <1>4, <1>5, <1>6 DEF EnrolInv

\* The pending mark.
LEMMA RecordPendingKeeps ==
    ASSUME EnrolInv, NEW h \in Handlers, RecordPending(h)
    PROVE  EnrolInv'
<1>0. TypeOK /\ Shape /\ Spent /\ Waits /\ Files /\ Vouched BY DEF EnrolInv
<1>1. TypeOK'
  <2>1. ledger' \in [Nodes -> NodeRecord]
    <3>1. /\ handler[h].node \in Nodes
          /\ ledger[handler[h].node] \in NodeRecord
      BY <1>0 DEF RecordPending, TypeOK, Shape
    <3>2. (ledger[handler[h].node].pending \/ ~ledger[handler[h].node].approved) \in BOOLEAN
      OBVIOUS
    <3> QED BY <1>0, <3>1, <3>2 DEF RecordPending, TypeOK, NodeRecord
  <2>2. handler' \in [Handlers -> HandlerState]
    BY <1>0, EnrolmentAssumption, SMTT(30)
    DEF TypeOK, HandlerState, Shape, RecordPending, Finish
  <2>3. \A m \in Nodes : ~(ledger'[m].approved /\ ledger'[m].pending)
    BY <1>0, EnrolmentAssumption
    DEF TypeOK, NodeRecord, Shape, RecordPending, Finish
  <2> QED BY <1>0, <2>1, <2>2, <2>3 DEF TypeOK, RecordPending, Finish
<1>2. Shape'
  BY <1>0, EnrolmentAssumption
  DEF HandlerState, TypeOK, Shape, RecordPending, Finish
<1>3. Spent'
  BY <1>0, EnrolmentAssumption
  DEF TokenRecord, HandlerState, TypeOK, Shape, Spent, Past, RecordPending, Finish
<1>4. Waits'
  BY <1>0, EnrolmentAssumption
  DEF HandlerState, AgentState, TypeOK, Waits, RecordPending, Finish
<1>5. Vouched'
  BY <1>0, EnrolmentAssumption, CertParts
  DEF TokenRecord, NodeRecord, HandlerState, AgentState, TypeOK, Shape, Vouched,
      Known, RecordPending, Finish
<1>6. Files'
  BY <1>0 DEF Files, Empty, Loadable, Stored, RecordPending, Finish
<1> QED BY <1>1, <1>2, <1>3, <1>4, <1>5, <1>6 DEF EnrolInv

\* The token is spent.
LEMMA ConsumeKeeps ==
    ASSUME EnrolInv, NEW h \in Handlers, Consume(h)
    PROVE  EnrolInv'
<1>0. TypeOK /\ Shape /\ Spent /\ Waits /\ Files /\ Vouched BY DEF EnrolInv
<1>1. TypeOK'
  <2>1. token' \in [Tokens -> TokenRecord]
    BY <1>0, EnrolmentAssumption, ZenonT(40)
    DEF TypeOK, TokenRecord, Consume, Finish, Consumable
  <2>2. handler' \in [Handlers -> HandlerState]
    BY <1>0, EnrolmentAssumption
    DEF TypeOK, HandlerState, Consume, Finish, Consumable
  <2> QED BY <1>0, <2>1, <2>2 DEF TypeOK, Consume, Finish, Consumable
<1>2. Shape'
  BY <1>0, EnrolmentAssumption
  DEF HandlerState, TypeOK, Shape, Consume, Finish, Consumable
<1>3. Spent'
  BY <1>0, EnrolmentAssumption
  DEF TokenRecord, HandlerState, TypeOK, Shape, Spent, Past, Consume, Finish, Consumable
<1>4. Waits'
  BY <1>0, EnrolmentAssumption
  DEF HandlerState, AgentState, TypeOK, Waits, Consume, Finish, Consumable
<1>5. Vouched'
  BY <1>0, EnrolmentAssumption, CertParts
  DEF TokenRecord, NodeRecord, HandlerState, AgentState, TypeOK, Shape, Vouched,
      Known, Consume, Finish, Consumable
<1>6. Files'
  BY <1>0 DEF Files, Empty, Loadable, Stored, Consume, Finish, Consumable
<1> QED BY <1>1, <1>2, <1>3, <1>4, <1>5, <1>6 DEF EnrolInv

\* The identity is recorded and the certificate goes back.
LEMMA WriteLedgerKeeps ==
    ASSUME EnrolInv, NEW h \in Handlers, WriteLedger(h)
    PROVE  EnrolInv'
<1>0. TypeOK /\ Shape /\ Spent /\ Waits /\ Files /\ Vouched BY DEF EnrolInv
<1>1. TypeOK'
  <2>1. ledger' \in [Nodes -> NodeRecord]
    <3>1. handler[h].node \in Nodes /\ handler[h].key \in Keys
      BY <1>0 DEF WriteLedger, Shape
    <3>2. \A r \in NodeRecord, k \in Keys : Set(r, k) \in NodeRecord
      BY DEF Set, NodeRecord
    <3> QED BY <1>0, <3>1, <3>2 DEF WriteLedger, TypeOK
  <2>2. handler' \in [Handlers -> HandlerState]
    BY <1>0, EnrolmentAssumption
    DEF TypeOK, HandlerState, Shape, WriteLedger, Finish, DisabledNow, Conflict, Set
  <2>3. \A m \in Nodes : ~(ledger'[m].approved /\ ledger'[m].pending)
    BY <1>0, EnrolmentAssumption
    DEF TypeOK, NodeRecord, HandlerState, Shape, WriteLedger, Finish, DisabledNow,
        Conflict, Set
  <2>4. granted' \in [Tokens -> Nat]
    BY <1>0, EnrolmentAssumption
    DEF TypeOK, HandlerState, Shape, WriteLedger, Finish, DisabledNow, Conflict, Set
  <2> QED
    BY <1>0, <2>1, <2>2, <2>3, <2>4
    DEF TypeOK, WriteLedger, Finish, DisabledNow, Conflict, Set
<1>2. Shape'
  BY <1>0, EnrolmentAssumption
  DEF HandlerState, TypeOK, Shape, WriteLedger, Finish, DisabledNow, Conflict, Set
<1>3. Spent'
  BY <1>0, EnrolmentAssumption
  DEF TokenRecord, HandlerState, TypeOK, Shape, Spent, Past, WriteLedger, Finish,
      DisabledNow, Conflict, Set
<1>4. Waits'
  BY <1>0, EnrolmentAssumption
  DEF HandlerState, AgentState, TypeOK, Waits, WriteLedger, Finish, DisabledNow,
      Conflict, Set
<1>5. Vouched'
  BY <1>0, EnrolmentAssumption, CertParts
  DEF TokenRecord, NodeRecord, HandlerState, AgentState, TypeOK, Shape, Vouched,
      Known, WriteLedger, Finish, DisabledNow, Conflict, Set
<1>6. Files'
  BY <1>0
  DEF Files, Empty, Loadable, Stored, WriteLedger, Finish, DisabledNow, Conflict, Set
<1> QED BY <1>1, <1>2, <1>3, <1>4, <1>5, <1>6 DEF EnrolInv

\* The Agent gets its answer.
LEMMA AnswerKeeps ==
    ASSUME EnrolInv, NEW h \in Handlers, Answer(h)
    PROVE  EnrolInv'
<1>0. TypeOK /\ Shape /\ Spent /\ Waits /\ Files /\ Vouched BY DEF EnrolInv
<1>1. TypeOK'
  <2>1. handler' \in [Handlers -> HandlerState]
    BY <1>0, EnrolmentAssumption
    DEF TypeOK, HandlerState, Shape, Answer, Idle
  <2>2. agent' \in [Agents -> AgentState]
    <3>1. agent \in [Agents -> AgentState] /\ handler[h].by \in Agents \cup {NoAgent}
      BY <1>0 DEF TypeOK, HandlerState
    <3>2. CASE handler[h].by = NoAgent
      BY <3>1, <3>2 DEF Answer
    <3>3. CASE handler[h].by # NoAgent /\ handler[h].pc = "refused"
      <4>1. agent' = [agent EXCEPT ![handler[h].by].pc = "off"] BY <3>3 DEF Answer
      <4> QED BY <3>1, <3>3, <4>1 DEF AgentState
    <3>4. CASE handler[h].by # NoAgent /\ handler[h].pc = "granted"
      <4>1. <<handler[h].node, handler[h].key>> \in Certs
        BY <1>0, <3>4, CertParts DEF Shape
      <4>2. PICK p \in {"renewed", "enrolled"} :
              agent' = [agent EXCEPT ![handler[h].by].pc = p,
                                     ![handler[h].by].next = <<handler[h].node, handler[h].key>>]
        BY <3>4 DEF Answer
      <4> QED BY <3>1, <3>4, <4>1, <4>2 DEF AgentState
    <3> QED BY <3>2, <3>3, <3>4 DEF Answer
  <2> QED BY <1>0, <2>1, <2>2 DEF TypeOK, Answer, Idle
<1>2. Shape'
  BY <1>0, EnrolmentAssumption
  DEF HandlerState, TypeOK, Shape, Answer, Idle
<1>3. Spent'
  BY <1>0, EnrolmentAssumption
  DEF TokenRecord, HandlerState, TypeOK, Shape, Spent, Past, Answer, Idle
<1>4. Waits'
  BY <1>0, EnrolmentAssumption
  DEF HandlerState, AgentState, TypeOK, Waits, Answer, Idle
<1>5. Files'
  <2>1. CASE handler[h].by = NoAgent
    BY <1>0, <2>1 DEF Answer, Files, Empty, Loadable, Stored
  <2>2. CASE handler[h].by # NoAgent
    <3> DEFINE b == handler[h].by
    <3>1. b \in Agents /\ agent[b].pc = "calling" /\ agent[b] \in AgentState
      BY <1>0, <2>2 DEF Waits, TypeOK, HandlerState
    <3>2. CASE handler[h].pc = "refused"
      BY <1>0, <2>2, <3>1, <3>2
      DEF Answer, TypeOK, AgentState, Files, Empty, Loadable, Stored
    <3>3. CASE handler[h].pc = "granted"
      <4>1. <<handler[h].node, handler[h].key>> # NoCert
        BY <1>0, <3>3, CertParts DEF Shape
      <4> QED
        BY <1>0, <2>2, <3>1, <3>3, <4>1, ZenonT(40)
        DEF Answer, TypeOK, AgentState, Files, Empty, Loadable, Stored
    <3> QED BY <3>2, <3>3 DEF Answer
  <2> QED BY <2>1, <2>2
<1>6. Vouched'
  <2>1. UNCHANGED <<token, ledger, vouched>> BY DEF Answer
  <2>2. \A n : Known(n)' <=> Known(n) BY <2>1 DEF Known
  <2>3. \A g \in Handlers : handler'[g] = handler[g] \/ (handler'[g] = Idle /\ g = h)
    BY <1>0 DEF Answer, TypeOK
  <2>4. \A b \in Agents :
          /\ agent'[b].cert = agent[b].cert /\ agent'[b].journal = agent[b].journal
          /\ \/ agent'[b].next = agent[b].next
             \/ /\ agent'[b].next = <<handler[h].node, handler[h].key>>
                /\ handler[h].pc = "granted"
    BY <1>0 DEF Answer, TypeOK, AgentState
  <2>5. handler[h].pc = "granted" => /\ <<handler[h].node, handler[h].key>>[1] = handler[h].node
                                     /\ Known(handler[h].node)
    BY <1>0 DEF Vouched
  <2>6. \A b \in Agents :
          /\ agent'[b].cert # NoCert => Known(agent'[b].cert[1])
          /\ agent'[b].next # NoCert => Known(agent'[b].next[1])
          /\ agent'[b].journal # NoCert => Known(agent'[b].journal[1])
    BY <1>0, <2>4, <2>5 DEF Vouched
  <2>7. \A g \in Handlers :
          /\ handler'[g].pc \notin {"idle", "peek", "refused"} =>
                IF handler'[g].bound THEN handler'[g].node \in vouched.minted
                ELSE handler'[g].token # NoToken => handler'[g].node \notin Owned
          /\ handler'[g].pc \in {"renewing", "consume", "set", "reserve", "granted"} =>
                Known(handler'[g].node)
    BY <1>0, <2>3 DEF Vouched, Idle
  <2> QED BY <1>0, <2>1, <2>2, <2>6, <2>7 DEF Vouched
<1> QED BY <1>1, <1>2, <1>3, <1>4, <1>5, <1>6 DEF EnrolInv

\* A store's file cannot be written.
LEMMA StoreFailsKeeps ==
    ASSUME EnrolInv, NEW h \in Handlers, StoreFails(h)
    PROVE  EnrolInv'
<1>0. TypeOK /\ Shape /\ Spent /\ Waits /\ Files /\ Vouched BY DEF EnrolInv
<1>1. TypeOK'
  <2>1. handler' \in [Handlers -> HandlerState]
    BY <1>0, EnrolmentAssumption
    DEF TypeOK, HandlerState, StoreFails, Finish, Disturb
  <2>2. disturbances' \in 0..MaxDisturbances
    BY <1>0, EnrolmentAssumption
    DEF TypeOK, StoreFails, Disturb
  <2> QED BY <1>0, <2>1, <2>2 DEF TypeOK, StoreFails, Finish, Disturb
<1>2. Shape'
  BY <1>0, EnrolmentAssumption
  DEF HandlerState, TypeOK, Shape, StoreFails, Finish, Disturb
<1>3. Spent'
  BY <1>0, EnrolmentAssumption
  DEF TokenRecord, HandlerState, TypeOK, Shape, Spent, Past, StoreFails, Finish, Disturb
<1>4. Waits'
  BY <1>0, EnrolmentAssumption
  DEF HandlerState, AgentState, TypeOK, Waits, StoreFails, Finish, Disturb
<1>5. Vouched'
  BY <1>0, EnrolmentAssumption, CertParts
  DEF TokenRecord, NodeRecord, HandlerState, AgentState, TypeOK, Shape, Vouched,
      Known, StoreFails, Finish, Disturb
<1>6. Files'
  BY <1>0 DEF Files, Empty, Loadable, Stored, StoreFails, Finish, Disturb
<1> QED BY <1>1, <1>2, <1>3, <1>4, <1>5, <1>6 DEF EnrolInv

\* The Registry stops.
LEMMA RegistryCrashKeeps ==
    ASSUME EnrolInv, RegistryCrash
    PROVE  EnrolInv'
<1>0. TypeOK /\ Shape /\ Spent /\ Waits /\ Files /\ Vouched BY DEF EnrolInv
<1>1. TypeOK'
  <2>1. handler' \in [Handlers -> HandlerState]
    BY <1>0, EnrolmentAssumption
    DEF TypeOK, HandlerState, RegistryCrash, Idle, Disturb
  <2>2. disturbances' \in 0..MaxDisturbances
    <3>1. disturbances < MaxDisturbances /\ disturbances' = disturbances + 1
      BY DEF RegistryCrash, Disturb
    <3> QED BY <1>0, <3>1, EnrolmentAssumption DEF TypeOK
  <2> QED BY <1>0, <2>1, <2>2 DEF TypeOK, RegistryCrash, Idle, Disturb
<1>2. Shape'
  BY <1>0, EnrolmentAssumption
  DEF HandlerState, TypeOK, Shape, RegistryCrash, Idle, Disturb
<1>3. Spent'
  BY <1>0, EnrolmentAssumption
  DEF TokenRecord, HandlerState, TypeOK, Shape, Spent, Past, RegistryCrash, Idle, Disturb
<1>4. Waits'
  BY <1>0, EnrolmentAssumption
  DEF HandlerState, AgentState, TypeOK, Waits, RegistryCrash, Idle, Disturb
<1>5. Vouched'
  BY <1>0, EnrolmentAssumption, CertParts
  DEF TokenRecord, NodeRecord, HandlerState, AgentState, TypeOK, Shape, Vouched,
      Known, RegistryCrash, Idle, Disturb
<1>6. Files'
  BY <1>0 DEF Files, Empty, Loadable, Stored, RegistryCrash, Idle, Disturb
<1> QED BY <1>1, <1>2, <1>3, <1>4, <1>5, <1>6 DEF EnrolInv

\* The operator mints a token.
LEMMA MintTokenKeeps ==
    ASSUME EnrolInv, NEW m \in Nodes \cup {NoNode}, MintToken(m)
    PROVE  EnrolInv'
<1>0. TypeOK /\ Shape /\ Spent /\ Waits /\ Files /\ Vouched BY DEF EnrolInv
<1>1. TypeOK'
  <2>1. token' \in [Tokens -> TokenRecord]
    BY <1>0, EnrolmentAssumption
    DEF TypeOK, TokenRecord, MintToken, Unminted
  <2> QED BY <1>0, <2>1 DEF TypeOK, MintToken, Unminted
<1>2. Spent'
  BY <1>0, EnrolmentAssumption
  DEF TokenRecord, HandlerState, TypeOK, Shape, Spent, Past, MintToken, Unminted
<1>3. Vouched'
  BY <1>0, EnrolmentAssumption
  DEF TokenRecord, NodeRecord, HandlerState, AgentState, TypeOK, Shape, Vouched,
      Known, MintToken, Unminted
<1>4. Shape' /\ Waits' /\ Files'
  BY <1>0 DEF Shape, Waits, Files, Empty, Loadable, Stored, MintToken, Unminted
<1> QED BY <1>1, <1>2, <1>3, <1>4 DEF EnrolInv

\* The operator hands a token over.
LEMMA HandOverKeeps ==
    ASSUME EnrolInv, NEW a \in Agents, NEW t \in Tokens, HandOver(a, t)
    PROVE  EnrolInv'
<1>0. TypeOK /\ Shape /\ Spent /\ Waits /\ Files /\ Vouched BY DEF EnrolInv
<1>1. TypeOK'
  <2>1. agent' \in [Agents -> AgentState]
    BY <1>0, EnrolmentAssumption
    DEF TypeOK, AgentState, HandOver
  <2> QED BY <1>0, <2>1 DEF TypeOK, HandOver
<1>2. Waits'
  BY <1>0, EnrolmentAssumption
  DEF HandlerState, AgentState, TypeOK, Waits, HandOver
<1>3. Files'
  BY <1>0, EnrolmentAssumption
  DEF AgentState, TypeOK, Files, Empty, Loadable, Stored, HandOver
<1>4. Vouched'
  BY <1>0, EnrolmentAssumption
  DEF TokenRecord, NodeRecord, HandlerState, AgentState, TypeOK, Shape, Vouched,
      Known, HandOver
<1>5. Shape' /\ Spent'
  BY <1>0 DEF Shape, Spent, Past, HandOver
<1> QED BY <1>1, <1>2, <1>3, <1>4, <1>5 DEF EnrolInv

\* A token is revoked or runs out.
LEMMA RevokeTokenKeeps ==
    ASSUME EnrolInv, NEW t \in Tokens, RevokeToken(t)
    PROVE  EnrolInv'
<1>0. TypeOK /\ Shape /\ Spent /\ Waits /\ Files /\ Vouched BY DEF EnrolInv
<1>1. TypeOK'
  <2>1. token' \in [Tokens -> TokenRecord]
    BY <1>0, EnrolmentAssumption
    DEF TypeOK, TokenRecord, RevokeToken, Disturb
  <2>2. disturbances' \in 0..MaxDisturbances
    BY <1>0, EnrolmentAssumption
    DEF TypeOK, RevokeToken, Disturb
  <2> QED BY <1>0, <2>1, <2>2 DEF TypeOK, RevokeToken, Disturb
<1>2. Spent'
  BY <1>0, EnrolmentAssumption
  DEF TokenRecord, HandlerState, TypeOK, Shape, Spent, Past, RevokeToken, Disturb
<1>3. Vouched'
  BY <1>0, EnrolmentAssumption
  DEF TokenRecord, NodeRecord, HandlerState, AgentState, TypeOK, Shape, Vouched,
      Known, RevokeToken, Disturb
<1>4. Shape' /\ Waits' /\ Files'
  BY <1>0 DEF Shape, Waits, Files, Empty, Loadable, Stored, RevokeToken, Disturb
<1> QED BY <1>1, <1>2, <1>3, <1>4 DEF EnrolInv

\* The operator approves a node id.
LEMMA ApproveNodeKeeps ==
    ASSUME EnrolInv, NEW n \in Nodes, ApproveNode(n)
    PROVE  EnrolInv'
<1>0. TypeOK /\ Shape /\ Spent /\ Waits /\ Files /\ Vouched BY DEF EnrolInv
<1>1. TypeOK'
  <2>1. ledger' \in [Nodes -> NodeRecord]
    BY <1>0, EnrolmentAssumption
    DEF TypeOK, NodeRecord, ApproveNode
  <2>2. \A m \in Nodes : ~(ledger'[m].approved /\ ledger'[m].pending)
    BY <1>0, EnrolmentAssumption
    DEF TypeOK, NodeRecord, ApproveNode
  <2> QED BY <1>0, <2>1, <2>2 DEF TypeOK, ApproveNode
<1>2. Vouched'
  BY <1>0, EnrolmentAssumption
  DEF TokenRecord, NodeRecord, HandlerState, AgentState, TypeOK, Shape, Vouched,
      Known, ApproveNode
<1>3. Shape' /\ Spent' /\ Waits' /\ Files'
  BY <1>0 DEF Shape, Spent, Waits, Files, Past, Empty, Loadable, Stored, ApproveNode
<1> QED BY <1>1, <1>2, <1>3 DEF EnrolInv

\* The operator disables a node id.
LEMMA DisableNodeKeeps ==
    ASSUME EnrolInv, NEW n \in Nodes, DisableNode(n)
    PROVE  EnrolInv'
<1>0. TypeOK /\ Shape /\ Spent /\ Waits /\ Files /\ Vouched BY DEF EnrolInv
<1>1. TypeOK'
  <2>1. ledger' \in [Nodes -> NodeRecord]
    BY <1>0, EnrolmentAssumption
    DEF TypeOK, NodeRecord, DisableNode, Disturb
  <2>2. \A m \in Nodes : ~(ledger'[m].approved /\ ledger'[m].pending)
    BY <1>0, EnrolmentAssumption
    DEF TypeOK, NodeRecord, DisableNode, Disturb
  <2>3. disturbances' \in 0..MaxDisturbances
    BY <1>0, EnrolmentAssumption
    DEF TypeOK, DisableNode, Disturb
  <2> QED BY <1>0, <2>1, <2>2, <2>3 DEF TypeOK, DisableNode, Disturb
<1>2. Vouched'
  BY <1>0, EnrolmentAssumption
  DEF TokenRecord, NodeRecord, HandlerState, AgentState, TypeOK, Shape, Vouched,
      Known, DisableNode, Disturb
<1>3. Shape' /\ Spent' /\ Waits' /\ Files'
  BY <1>0
  DEF Shape, Spent, Waits, Files, Past, Empty, Loadable, Stored, DisableNode, Disturb
<1> QED BY <1>1, <1>2, <1>3 DEF EnrolInv

\* The operator enables a node id.
LEMMA EnableNodeKeeps ==
    ASSUME EnrolInv, NEW n \in Nodes, EnableNode(n)
    PROVE  EnrolInv'
<1>0. TypeOK /\ Shape /\ Spent /\ Waits /\ Files /\ Vouched BY DEF EnrolInv
<1>1. TypeOK'
  <2>1. ledger' \in [Nodes -> NodeRecord]
    BY <1>0, EnrolmentAssumption
    DEF TypeOK, NodeRecord, EnableNode
  <2>2. \A m \in Nodes : ~(ledger'[m].approved /\ ledger'[m].pending)
    BY <1>0, EnrolmentAssumption
    DEF TypeOK, NodeRecord, EnableNode
  <2> QED BY <1>0, <2>1, <2>2 DEF TypeOK, EnableNode
<1>2. Vouched'
  BY <1>0, EnrolmentAssumption
  DEF TokenRecord, NodeRecord, HandlerState, AgentState, TypeOK, Shape, Vouched,
      Known, EnableNode
<1>3. Shape' /\ Spent' /\ Waits' /\ Files'
  BY <1>0 DEF Shape, Spent, Waits, Files, Past, Empty, Loadable, Stored, EnableNode
<1> QED BY <1>1, <1>2, <1>3 DEF EnrolInv

\* The operator deletes a node id.
LEMMA DeleteNodeKeeps ==
    ASSUME EnrolInv, NEW n \in Nodes, DeleteNode(n)
    PROVE  EnrolInv'
<1>0. TypeOK /\ Shape /\ Spent /\ Waits /\ Files /\ Vouched BY DEF EnrolInv
<1>1. TypeOK'
  <2>1. ledger' \in [Nodes -> NodeRecord]
    BY <1>0, EnrolmentAssumption
    DEF TypeOK, NodeRecord, DeleteNode, Disturb
  <2>2. \A m \in Nodes : ~(ledger'[m].approved /\ ledger'[m].pending)
    BY <1>0, EnrolmentAssumption
    DEF TypeOK, NodeRecord, DeleteNode, Disturb
  <2>3. disturbances' \in 0..MaxDisturbances
    BY <1>0, EnrolmentAssumption
    DEF TypeOK, DeleteNode, Disturb
  <2> QED BY <1>0, <2>1, <2>2, <2>3 DEF TypeOK, DeleteNode, Disturb
<1>2. Vouched'
  BY <1>0, EnrolmentAssumption
  DEF TokenRecord, NodeRecord, HandlerState, AgentState, TypeOK, Shape, Vouched,
      Known, DeleteNode, Disturb
<1>3. Shape' /\ Spent' /\ Waits' /\ Files'
  BY <1>0
  DEF Shape, Spent, Waits, Files, Past, Empty, Loadable, Stored, DeleteNode, Disturb
<1> QED BY <1>1, <1>2, <1>3 DEF EnrolInv

\* An Agent without an identity calls Register.
LEMMA BootstrapKeeps ==
    ASSUME EnrolInv, NEW a \in Agents, Bootstrap(a)
    PROVE  EnrolInv'
<1>0. TypeOK /\ Shape /\ Spent /\ Waits /\ Files /\ Vouched BY DEF EnrolInv
<1>1. /\ agent[a].pc = "off" /\ agent[a] \in AgentState
      /\ UNCHANGED <<token, ledger, granted, vouched>>
      /\ agent' = [agent EXCEPT ![a].pc = "calling"]
      /\ disturbances' \in 0..MaxDisturbances
  BY <1>0, EnrolmentAssumption DEF Bootstrap, Call, TypeOK, Disturb
<1>2. PICK f \in Handlers, r \in HandlerState :
        /\ handler[f].pc = "idle"
        /\ handler' = [handler EXCEPT ![f] = r]
        /\ r.by = a /\ r.key \in Keys
        /\ r.pc = "peek" /\ r.token \in Tokens
  <2> DEFINE free == {h \in Handlers : handler[h].pc = "idle"}
             f    == CHOOSE h \in free : TRUE
             r    == [Idle EXCEPT !.pc = "peek", !.by = a, !.token = agent[a].token,
                                  !.node = NodeOf[a], !.key = FreshKey]
  <2>1. Keys \ InUse # {} /\ free # {} /\ handler' = [handler EXCEPT ![f] = r]
    BY DEF Bootstrap, Call
  <2>2. FreshKey \in Keys BY <2>1, FreshKeyIsKey
  <2>3. f \in Handlers /\ handler[f].pc = "idle" BY <2>1
  <2>4. agent[a].token \in Tokens /\ NodeOf[a] \in Nodes \cup {NoNode}
    BY <1>1, EnrolmentAssumption DEF Bootstrap, AgentState
  <2>5. r \in HandlerState BY <2>2, <2>4 DEF HandlerState, Idle
  <2>6. r.by = a /\ r.key = FreshKey /\ r.pc = "peek" /\ r.token = agent[a].token
    BY DEF Idle
  <2> HIDE DEF f, r
  <2> QED BY <2>1, <2>2, <2>3, <2>4, <2>5, <2>6
<1>3. TypeOK'
  <2>1. agent' \in [Agents -> AgentState] BY <1>0, <1>1 DEF TypeOK, AgentState
  <2> QED BY <1>0, <1>1, <1>2, <2>1 DEF TypeOK
<1>4. Shape' BY <1>0, <1>1, <1>2 DEF Shape, TypeOK
<1>5. Spent' BY <1>0, <1>1, <1>2 DEF Spent, Past, TypeOK
<1>6. Waits'
  <2>1. \A h \in Handlers : handler[h].by # a
    BY <1>0, <1>1, EnrolmentAssumption DEF Waits, TypeOK
  <2>2. \A b \in Agents : b # a => agent'[b].pc = agent[b].pc
    BY <1>0, <1>1 DEF TypeOK
  <2>3. agent'[a].pc = "calling" BY <1>0, <1>1 DEF TypeOK, AgentState
  <2>4. \A h \in Handlers : handler[h].by \in Agents \cup {NoAgent}
    BY <1>0 DEF TypeOK, HandlerState
  <2> QED BY <1>0, <1>2, <2>1, <2>2, <2>3, <2>4 DEF Waits, TypeOK
<1>7. Files' BY <1>0, <1>1 DEF Files, Empty, Loadable, Stored, TypeOK, AgentState
<1>8. Vouched' BY <1>0, <1>1, <1>2 DEF Vouched, Known, TypeOK, AgentState
<1> QED BY <1>3, <1>4, <1>5, <1>6, <1>7, <1>8 DEF EnrolInv

\* An Agent renews its identity.
LEMMA RenewKeeps ==
    ASSUME EnrolInv, NEW a \in Agents, Renew(a)
    PROVE  EnrolInv'
<1>0. TypeOK /\ Shape /\ Spent /\ Waits /\ Files /\ Vouched BY DEF EnrolInv
<1>1. /\ agent[a].pc = "off" /\ agent[a] \in AgentState
      /\ UNCHANGED <<token, ledger, granted, vouched>>
      /\ agent' = [agent EXCEPT ![a].pc = "calling"]
      /\ disturbances' \in 0..MaxDisturbances
  BY <1>0, EnrolmentAssumption DEF Renew, Call, TypeOK, Disturb
<1>2. PICK f \in Handlers, r \in HandlerState :
        /\ handler[f].pc = "idle"
        /\ handler' = [handler EXCEPT ![f] = r]
        /\ r.by = a /\ r.key \in Keys
        /\ r.pc = "renewing" /\ r.token = NoToken /\ ~r.bound
        /\ r.node \in Nodes /\ Known(r.node)
  <2> DEFINE free == {h \in Handlers : handler[h].pc = "idle"}
             f    == CHOOSE h \in free : TRUE
             r    == [Idle EXCEPT !.pc = "renewing", !.by = a,
                                  !.node = agent[a].cert[1], !.key = FreshKey]
  <2>1. Keys \ InUse # {} /\ free # {} /\ handler' = [handler EXCEPT ![f] = r]
    BY DEF Renew, Call
  <2>2. FreshKey \in Keys BY <2>1, FreshKeyIsKey
  <2>3. f \in Handlers /\ handler[f].pc = "idle" BY <2>1
  <2>4. agent[a].cert[1] \in Nodes /\ Known(agent[a].cert[1])
    BY <1>0, <1>1, CertParts DEF Renew, Loadable, Stored, AgentState, Vouched
  <2>5. r \in HandlerState BY <2>2, <2>4 DEF HandlerState, Idle
  <2>6. /\ r.by = a /\ r.key = FreshKey /\ r.pc = "renewing"
        /\ r.token = NoToken /\ r.node = agent[a].cert[1] /\ ~r.bound
    BY DEF Idle
  <2> HIDE DEF f, r
  <2> QED BY <2>1, <2>2, <2>3, <2>4, <2>5, <2>6
<1>3. TypeOK'
  <2>1. agent' \in [Agents -> AgentState] BY <1>0, <1>1 DEF TypeOK, AgentState
  <2> QED BY <1>0, <1>1, <1>2, <2>1 DEF TypeOK
<1>4. Shape' BY <1>0, <1>1, <1>2 DEF Shape, TypeOK
<1>5. Spent' BY <1>0, <1>1, <1>2 DEF Spent, Past, TypeOK
<1>6. Waits'
  <2>1. \A h \in Handlers : handler[h].by # a
    BY <1>0, <1>1, EnrolmentAssumption DEF Waits, TypeOK
  <2>2. \A b \in Agents : b # a => agent'[b].pc = agent[b].pc
    BY <1>0, <1>1 DEF TypeOK
  <2>3. agent'[a].pc = "calling" BY <1>0, <1>1 DEF TypeOK, AgentState
  <2>4. \A h \in Handlers : handler[h].by \in Agents \cup {NoAgent}
    BY <1>0 DEF TypeOK, HandlerState
  <2> QED BY <1>0, <1>2, <2>1, <2>2, <2>3, <2>4 DEF Waits, TypeOK
<1>7. Files' BY <1>0, <1>1 DEF Files, Empty, Loadable, Stored, TypeOK, AgentState
<1>8. Vouched' BY <1>0, <1>1, <1>2 DEF Vouched, Known, TypeOK, AgentState
<1> QED BY <1>3, <1>4, <1>5, <1>6, <1>7, <1>8 DEF EnrolInv

\* An Agent gives up on a call.
LEMMA GiveUpKeeps ==
    ASSUME EnrolInv, NEW a \in Agents, GiveUp(a)
    PROVE  EnrolInv'
<1>0. TypeOK /\ Shape /\ Spent /\ Waits /\ Files /\ Vouched BY DEF EnrolInv
<1>1. TypeOK'
  <2>1. handler' \in [Handlers -> HandlerState]
    BY <1>0, EnrolmentAssumption, SMTT(30)
    DEF TypeOK, HandlerState, GiveUp, Abandon, Disturb
  <2>2. agent' \in [Agents -> AgentState]
    <3>1. agent \in [Agents -> AgentState] BY <1>0 DEF TypeOK
    <3>2. agent' = [agent EXCEPT ![a].pc = "off"] BY DEF GiveUp
    <3> QED BY <3>1, <3>2 DEF AgentState
  <2>3. disturbances' \in 0..MaxDisturbances
    BY <1>0, EnrolmentAssumption
    DEF TypeOK, GiveUp, Disturb
  <2> QED BY <1>0, <2>1, <2>2, <2>3 DEF TypeOK, GiveUp, Abandon, Disturb
<1>2. Shape'
  BY <1>0, EnrolmentAssumption
  DEF HandlerState, TypeOK, Shape, GiveUp, Abandon, Disturb
<1>3. Spent'
  BY <1>0, EnrolmentAssumption
  DEF TokenRecord, HandlerState, TypeOK, Shape, Spent, Past, GiveUp, Abandon, Disturb
<1>4. Waits'
  BY <1>0, EnrolmentAssumption
  DEF HandlerState, AgentState, TypeOK, Waits, GiveUp, Abandon, Disturb
<1>5. Files'
  BY <1>0, EnrolmentAssumption, CertParts
  DEF AgentState, TypeOK, Files, Empty, Loadable, Stored, GiveUp, Abandon, Disturb
<1>6. Vouched'
  BY <1>0, EnrolmentAssumption, CertParts
  DEF TokenRecord, NodeRecord, HandlerState, AgentState, TypeOK, Shape, Vouched,
      Known, GiveUp, Abandon, Disturb
<1> QED BY <1>1, <1>2, <1>3, <1>4, <1>5, <1>6 DEF EnrolInv

\* The journal is written.
LEMMA JournalKeeps ==
    ASSUME EnrolInv, NEW a \in Agents, Journal(a)
    PROVE  EnrolInv'
<1>0. TypeOK /\ Shape /\ Spent /\ Waits /\ Files /\ Vouched BY DEF EnrolInv
<1>1. TypeOK'
  <2>1. agent' \in [Agents -> AgentState]
    BY <1>0, EnrolmentAssumption, CertParts
    DEF Registry, TypeOK, AgentState, Files, Journal
  <2> QED BY <1>0, <2>1 DEF TypeOK, Journal, Registry
<1>2. Waits'
  BY <1>0, EnrolmentAssumption
  DEF Registry, HandlerState, AgentState, TypeOK, Waits, Journal
<1>3. Files'
  BY <1>0, EnrolmentAssumption, CertParts
  DEF Registry, AgentState, TypeOK, Files, Empty, Loadable, Stored, Journal
<1>4. Vouched'
  BY <1>0, EnrolmentAssumption, CertParts
  DEF Registry, TokenRecord, NodeRecord, HandlerState, AgentState, TypeOK, Shape,
      Vouched, Known, Journal
<1>5. Shape' /\ Spent'
  BY <1>0 DEF Shape, Spent, Past, Journal, Registry
<1> QED BY <1>1, <1>2, <1>3, <1>4, <1>5 DEF Registry, EnrolInv

\* A journal is found at start.
LEMMA RecoverKeeps ==
    ASSUME EnrolInv, NEW a \in Agents, Recover(a)
    PROVE  EnrolInv'
<1>0. TypeOK /\ Shape /\ Spent /\ Waits /\ Files /\ Vouched BY DEF EnrolInv
<1>1. TypeOK'
  <2>1. agent' \in [Agents -> AgentState]
    BY <1>0, EnrolmentAssumption, CertParts
    DEF Registry, TypeOK, AgentState, Files, Recover
  <2> QED BY <1>0, <2>1 DEF TypeOK, Recover, Registry
<1>2. Waits'
  BY <1>0, EnrolmentAssumption
  DEF Registry, HandlerState, AgentState, TypeOK, Waits, Recover
<1>3. Files'
  BY <1>0, EnrolmentAssumption, CertParts
  DEF Registry, AgentState, TypeOK, Files, Empty, Loadable, Stored, Recover
<1>4. Vouched'
  BY <1>0, EnrolmentAssumption, CertParts
  DEF Registry, TokenRecord, NodeRecord, HandlerState, AgentState, TypeOK, Shape,
      Vouched, Known, Recover
<1>5. Shape' /\ Spent'
  BY <1>0 DEF Shape, Spent, Past, Recover, Registry
<1> QED BY <1>1, <1>2, <1>3, <1>4, <1>5 DEF Registry, EnrolInv

\* The key file is replaced.
LEMMA WriteKeyKeeps ==
    ASSUME EnrolInv, NEW a \in Agents, WriteKey(a)
    PROVE  EnrolInv'
<1>0. TypeOK /\ Shape /\ Spent /\ Waits /\ Files /\ Vouched BY DEF EnrolInv
<1>1. TypeOK'
  <2>1. agent' \in [Agents -> AgentState]
    BY <1>0, EnrolmentAssumption, CertParts
    DEF Registry, TypeOK, AgentState, Files, WriteKey
  <2> QED BY <1>0, <2>1 DEF TypeOK, WriteKey, Registry
<1>2. Waits'
  BY <1>0, EnrolmentAssumption
  DEF Registry, HandlerState, AgentState, TypeOK, Waits, WriteKey
<1>3. Files'
  BY <1>0, EnrolmentAssumption, CertParts
  DEF Registry, AgentState, TypeOK, Files, Empty, Loadable, Stored, WriteKey
<1>4. Vouched'
  BY <1>0, EnrolmentAssumption, CertParts
  DEF Registry, TokenRecord, NodeRecord, HandlerState, AgentState, TypeOK, Shape,
      Vouched, Known, WriteKey
<1>5. Shape' /\ Spent'
  BY <1>0 DEF Shape, Spent, Past, WriteKey, Registry
<1> QED BY <1>1, <1>2, <1>3, <1>4, <1>5 DEF Registry, EnrolInv

\* The certificate file is replaced.
LEMMA WriteCertKeeps ==
    ASSUME EnrolInv, NEW a \in Agents, WriteCert(a)
    PROVE  EnrolInv'
<1>0. TypeOK /\ Shape /\ Spent /\ Waits /\ Files /\ Vouched BY DEF EnrolInv
<1>1. TypeOK'
  <2>1. agent' \in [Agents -> AgentState]
    BY <1>0, EnrolmentAssumption, CertParts
    DEF Registry, TypeOK, AgentState, Files, WriteCert
  <2> QED BY <1>0, <2>1 DEF TypeOK, WriteCert, Registry
<1>2. Waits'
  BY <1>0, EnrolmentAssumption
  DEF Registry, HandlerState, AgentState, TypeOK, Waits, WriteCert
<1>3. Files'
  BY <1>0, EnrolmentAssumption, CertParts
  DEF Registry, AgentState, TypeOK, Files, Empty, Loadable, Stored, WriteCert
<1>4. Vouched'
  BY <1>0, EnrolmentAssumption, CertParts
  DEF Registry, TokenRecord, NodeRecord, HandlerState, AgentState, TypeOK, Shape,
      Vouched, Known, WriteCert
<1>5. Shape' /\ Spent'
  BY <1>0 DEF Shape, Spent, Past, WriteCert, Registry
<1> QED BY <1>1, <1>2, <1>3, <1>4, <1>5 DEF Registry, EnrolInv

\* The journal is removed.
LEMMA UnlinkKeeps ==
    ASSUME EnrolInv, NEW a \in Agents, Unlink(a)
    PROVE  EnrolInv'
<1>0. TypeOK /\ Shape /\ Spent /\ Waits /\ Files /\ Vouched BY DEF EnrolInv
<1>1. TypeOK'
  <2>1. agent' \in [Agents -> AgentState]
    BY <1>0, EnrolmentAssumption, CertParts
    DEF Registry, TypeOK, AgentState, Files, Unlink
  <2> QED BY <1>0, <2>1 DEF TypeOK, Unlink, Registry
<1>2. Waits'
  BY <1>0, EnrolmentAssumption
  DEF Registry, HandlerState, AgentState, TypeOK, Waits, Unlink
<1>3. Files'
  BY <1>0, EnrolmentAssumption, CertParts
  DEF Registry, AgentState, TypeOK, Files, Empty, Loadable, Stored, Unlink
<1>4. Vouched'
  BY <1>0, EnrolmentAssumption, CertParts
  DEF Registry, TokenRecord, NodeRecord, HandlerState, AgentState, TypeOK, Shape,
      Vouched, Known, Unlink
<1>5. Shape' /\ Spent'
  BY <1>0 DEF Shape, Spent, Past, Unlink, Registry
<1> QED BY <1>1, <1>2, <1>3, <1>4, <1>5 DEF Registry, EnrolInv

\* The token file is removed.
LEMMA RemoveTokenKeeps ==
    ASSUME EnrolInv, NEW a \in Agents, RemoveToken(a)
    PROVE  EnrolInv'
<1>0. TypeOK /\ Shape /\ Spent /\ Waits /\ Files /\ Vouched BY DEF EnrolInv
<1>1. TypeOK'
  <2>1. agent' \in [Agents -> AgentState]
    BY <1>0, EnrolmentAssumption, CertParts
    DEF Registry, TypeOK, AgentState, Files, RemoveToken
  <2> QED BY <1>0, <2>1 DEF TypeOK, RemoveToken, Registry
<1>2. Waits'
  BY <1>0, EnrolmentAssumption
  DEF Registry, HandlerState, AgentState, TypeOK, Waits, RemoveToken
<1>3. Files'
  BY <1>0, EnrolmentAssumption, CertParts
  DEF Registry, AgentState, TypeOK, Files, Empty, Loadable, Stored, RemoveToken
<1>4. Vouched'
  BY <1>0, EnrolmentAssumption, CertParts
  DEF Registry, TokenRecord, NodeRecord, HandlerState, AgentState, TypeOK, Shape,
      Vouched, Known, RemoveToken
<1>5. Shape' /\ Spent'
  BY <1>0 DEF Shape, Spent, Past, RemoveToken, Registry
<1> QED BY <1>1, <1>2, <1>3, <1>4, <1>5 DEF Registry, EnrolInv

\* An Agent stops.
LEMMA AgentCrashKeeps ==
    ASSUME EnrolInv, NEW a \in Agents, AgentCrash(a)
    PROVE  EnrolInv'
<1>0. TypeOK /\ Shape /\ Spent /\ Waits /\ Files /\ Vouched BY DEF EnrolInv
<1>1. TypeOK'
  <2>1. handler' \in [Handlers -> HandlerState]
    BY <1>0, EnrolmentAssumption
    DEF TypeOK, HandlerState, AgentCrash, Abandon, Disturb
  <2>2. agent' \in [Agents -> AgentState]
    <3>1. agent \in [Agents -> AgentState] BY <1>0 DEF TypeOK
    <3> DEFINE r == [agent[a] EXCEPT !.pc = "off", !.next = NoCert]
    <3>2. agent' = [agent EXCEPT ![a] = r] BY <3>1 DEF AgentCrash, AgentState
    <3>3. r \in AgentState BY <3>1 DEF AgentState
    <3> QED BY <3>1, <3>2, <3>3
  <2>3. disturbances' \in 0..MaxDisturbances
    BY <1>0, EnrolmentAssumption
    DEF TypeOK, AgentCrash, Disturb
  <2> QED BY <1>0, <2>1, <2>2, <2>3 DEF TypeOK, AgentCrash, Abandon, Disturb
<1>2. Shape'
  BY <1>0, EnrolmentAssumption
  DEF HandlerState, TypeOK, Shape, AgentCrash, Abandon, Disturb
<1>3. Spent'
  BY <1>0, EnrolmentAssumption
  DEF TokenRecord, HandlerState, TypeOK, Shape, Spent, Past, AgentCrash, Abandon, Disturb
<1>4. Waits'
  BY <1>0, EnrolmentAssumption
  DEF HandlerState, AgentState, TypeOK, Waits, AgentCrash, Abandon, Disturb
<1>5. Files'
  BY <1>0, EnrolmentAssumption, CertParts
  DEF AgentState, TypeOK, Files, Empty, Loadable, Stored, AgentCrash, Abandon, Disturb
<1>6. Vouched'
  BY <1>0, EnrolmentAssumption, CertParts
  DEF TokenRecord, NodeRecord, HandlerState, AgentState, TypeOK, Shape, Vouched,
      Known, AgentCrash, Abandon, Disturb
<1> QED BY <1>1, <1>2, <1>3, <1>4, <1>5, <1>6 DEF EnrolInv

\* A certificate runs out.
LEMMA ExpireKeeps ==
    ASSUME EnrolInv, NEW a \in Agents, Expire(a)
    PROVE  EnrolInv'
<1>0. TypeOK /\ Shape /\ Spent /\ Waits /\ Files /\ Vouched BY DEF EnrolInv
<1>1. TypeOK'
  <2>1. agent' \in [Agents -> AgentState]
    <3>1. agent \in [Agents -> AgentState] BY <1>0 DEF TypeOK
    <3>2. agent' = [agent EXCEPT ![a].expired = TRUE] BY DEF Expire
    <3> QED BY <3>1, <3>2, ZenonT(40) DEF AgentState
  <2>2. disturbances' \in 0..MaxDisturbances
    BY <1>0, EnrolmentAssumption
    DEF TypeOK, Expire, Disturb
  <2> QED BY <1>0, <2>1, <2>2 DEF TypeOK, Expire, Disturb
<1>2. Waits'
  BY <1>0, EnrolmentAssumption
  DEF HandlerState, AgentState, TypeOK, Waits, Expire, Disturb
<1>3. Files'
  BY <1>0, EnrolmentAssumption, CertParts
  DEF AgentState, TypeOK, Files, Empty, Loadable, Stored, Expire, Disturb
<1>4. Vouched'
  BY <1>0, EnrolmentAssumption, CertParts
  DEF TokenRecord, NodeRecord, HandlerState, AgentState, TypeOK, Shape, Vouched,
      Known, Expire, Disturb
<1>5. Shape' /\ Spent'
  BY <1>0 DEF Shape, Spent, Past, Expire, Disturb
<1> QED BY <1>1, <1>2, <1>3, <1>4, <1>5 DEF EnrolInv

-----------------------------------------------------------------------------
(* The theorems.                                                           *)

LEMMA StutterKeeps ==
    ASSUME EnrolInv, UNCHANGED vars PROVE EnrolInv'
BY DEF EnrolInv, vars, TypeOK, Shape, Spent, Past, Waits, Files, Empty, Loadable, Stored,
       Vouched, Known

\* Every step of the specification keeps the invariant.
LEMMA StepKeeps == EnrolInv /\ [Next]_vars => EnrolInv'
<1> SUFFICES ASSUME EnrolInv, [Next]_vars PROVE EnrolInv' OBVIOUS
<1>1. ASSUME NEW h \in Handlers, Serve(h) PROVE EnrolInv'
  BY <1>1, PeekKeeps, CheckDisabledKeeps, CheckApprovedKeeps, ClaimKeeps,
     RecordPendingKeeps, ConsumeKeeps, WriteLedgerKeeps, AnswerKeeps
  DEF Serve
<1>2. ASSUME NEW a \in Agents, Persist(a) PROVE EnrolInv'
  BY <1>2, JournalKeeps, RecoverKeeps, WriteKeyKeeps, WriteCertKeeps, UnlinkKeeps,
     RemoveTokenKeeps
  DEF Persist
<1>3. ASSUME NEW a \in Agents,
             Bootstrap(a) \/ Renew(a) \/ GiveUp(a) \/ AgentCrash(a) \/ Expire(a)
      PROVE  EnrolInv'
  BY <1>3, BootstrapKeeps, RenewKeeps, GiveUpKeeps, AgentCrashKeeps, ExpireKeeps
<1>4. CASE Admin
  BY <1>4, RevokeTokenKeeps, MintTokenKeeps, ApproveNodeKeeps, DisableNodeKeeps,
     EnableNodeKeeps, DeleteNodeKeeps, HandOverKeeps
  DEF Admin
<1> QED
  BY <1>1, <1>2, <1>3, <1>4, StoreFailsKeeps, RegistryCrashKeeps, StutterKeeps DEF Next

\* The invariant holds in every reachable state.
THEOREM EnrolAlways == Spec => []EnrolInv
BY InitHolds, StepKeeps, PTL DEF Spec

\* Stores, handlers and files keep their types (tokenstore, identitystore,
\* Register and the Agent's identity files).
THEOREM TypeCorrect == Spec => []TypeOK
<1>1. EnrolInv => TypeOK BY DEF EnrolInv
<1> QED BY <1>1, EnrolAlways, PTL

\* A token is worth one certificate, however many handlers hold it
\* (Register's Peek and Consume).
THEOREM OneCertPerTokenHolds == Spec => []OneCertPerToken
<1>1. EnrolInv => OneCertPerToken
  BY DEF EnrolInv, TypeOK, Spent, OneCertPerToken
<1> QED BY <1>1, EnrolAlways, PTL

\* No certificate names a node the operator did not let in (Register's
\* approval and ownership gates, RenewCertificate's certificate).
THEOREM LetInHolds == Spec => []LetIn
<1>1. EnrolInv => LetIn
  <2> SUFFICES ASSUME EnrolInv, NEW n \in InHand, n # NoNode PROVE Known(n)
    BY DEF LetIn, Known
  <2>1. TypeOK /\ Vouched BY DEF EnrolInv
  <2>2. CASE \E a \in Agents : n = agent[a].cert[1]
    BY <2>1, <2>2, CertParts DEF Vouched
  <2>3. CASE \E a \in Agents : n = agent[a].journal[1]
    BY <2>1, <2>3, CertParts DEF Vouched
  <2>4. CASE \E h \in Handlers : handler[h].pc = "granted" /\ n = handler[h].node
    BY <2>1, <2>4 DEF Vouched
  <2> QED BY <2>2, <2>3, <2>4 DEF InHand
<1> QED BY <1>1, EnrolAlways, PTL

\* Whatever write an Agent stopped at, its next start finds a journal, a
\* matching pair or nothing (persist, recoverPendingIdentity).
THEOREM UsablePairHolds == Spec => []UsablePair
<1>1. EnrolInv => UsablePair BY DEF EnrolInv, Files, UsablePair
<1> QED BY <1>1, EnrolAlways, PTL

\* Only WriteLedger moves a key on record, and only a write of the ledger
\* touches a record at all.
LEMMA KeyMoves ==
    ASSUME TypeOK, Next, NEW n \in Nodes, ledger'[n].key # ledger[n].key
    PROVE  \E h \in Handlers : WriteLedger(h) /\ handler[h].node = n /\ ~ledger[n].disabled
                                /\ handler'[h].pc = "granted"
<1> USE DEF TypeOK, NodeRecord
<1>1. ASSUME NEW h \in Handlers, WriteLedger(h) PROVE
        handler[h].node = n /\ ~ledger[n].disabled /\ handler'[h].pc = "granted"
  BY <1>1 DEF WriteLedger, Finish, DisabledNow, Set, HandlerState
<1>2. \A h \in Handlers : ~RecordPending(h) BY DEF RecordPending
<1>3. \A m \in Nodes : ~ApproveNode(m) /\ ~DisableNode(m) /\ ~EnableNode(m) /\ ~DeleteNode(m)
  <2> TAKE m \in Nodes
  <2>1. ASSUME ApproveNode(m) PROVE FALSE
    <3> DEFINE r == [ledger[m] EXCEPT !.approved = TRUE, !.pending = FALSE]
    <3>1. ledger' = [ledger EXCEPT ![m] = r] BY <2>1 DEF ApproveNode
    <3>2. r.key = ledger[m].key OBVIOUS
    <3> HIDE DEF r
    <3> QED BY <3>1, <3>2
  <2>2. ~DisableNode(m) BY DEF DisableNode
  <2>3. ASSUME EnableNode(m) PROVE FALSE
    <3> DEFINE r == [ledger[m] EXCEPT !.disabled = FALSE, !.deleted = FALSE]
    <3>1. ledger' = [ledger EXCEPT ![m] = r] BY <2>3 DEF EnableNode
    <3>2. r.key = ledger[m].key OBVIOUS
    <3> HIDE DEF r
    <3> QED BY <3>1, <3>2
  <2>4. ASSUME DeleteNode(m) PROVE FALSE
    <3> DEFINE r == [ledger[m] EXCEPT !.disabled = TRUE, !.deleted = TRUE, !.pending = FALSE]
    <3>1. ledger' = [ledger EXCEPT ![m] = r] BY <2>4 DEF DeleteNode
    <3>2. r.key = ledger[m].key OBVIOUS
    <3> HIDE DEF r
    <3> QED BY <3>1, <3>2
  <2> QED BY <2>1, <2>2, <2>3, <2>4
<1>4. ledger' # ledger OBVIOUS
<1>5. \A h \in Handlers : ~StoreFails(h) /\ (Serve(h) => WriteLedger(h))
  BY <1>2, <1>4
  DEF Serve, StoreFails, Peek, CheckDisabled, CheckApproved, Claim, Consume, Answer
<1>6. \A a \in Agents : ~Persist(a)
  BY <1>4
  DEF Persist, Registry, Journal, Recover, WriteKey, WriteCert, Unlink, RemoveToken
<1>7. \A a \in Agents : ~(Bootstrap(a) \/ Renew(a) \/ GiveUp(a) \/ AgentCrash(a) \/ Expire(a))
  BY <1>4 DEF Bootstrap, Renew, Call, GiveUp, AgentCrash, Expire
<1>8. ~RegistryCrash BY <1>4 DEF RegistryCrash
<1>9. ~Admin
  BY <1>3, <1>4 DEF Admin, RevokeToken, MintToken, HandOver
<1> QED BY <1>1, <1>5, <1>6, <1>7, <1>8, <1>9 DEF Next

\* Only EnableNode ends a disable.
LEMMA DisableStays ==
    ASSUME TypeOK, Next, NEW n \in Nodes, ledger[n].disabled, ~ledger'[n].disabled
    PROVE  EnableNode(n)
<1> USE DEF TypeOK, NodeRecord
<1>1. \A h \in Handlers : ~WriteLedger(h) /\ ~RecordPending(h)
  BY DEF WriteLedger, RecordPending, Finish, DisabledNow, Set
<1>2. \A m \in Nodes : /\ ~ApproveNode(m) /\ ~DisableNode(m) /\ ~DeleteNode(m)
                       /\ EnableNode(m) => m = n
  <2>1. ASSUME NEW m \in Nodes, ApproveNode(m) PROVE FALSE
    <3> DEFINE r == [ledger[m] EXCEPT !.approved = TRUE, !.pending = FALSE]
    <3>1. ledger' = [ledger EXCEPT ![m] = r] BY <2>1 DEF ApproveNode
    <3>2. r.disabled = ledger[m].disabled OBVIOUS
    <3> HIDE DEF r
    <3> QED BY <3>1, <3>2
  <2>2. \A m \in Nodes : ~DisableNode(m) BY DEF DisableNode
  <2>3. \A m \in Nodes : ~DeleteNode(m) BY DEF DeleteNode
  <2>4. \A m \in Nodes : EnableNode(m) => m = n BY DEF EnableNode
  <2> QED BY <2>1, <2>2, <2>3, <2>4
<1>3. ledger' # ledger OBVIOUS
<1>4. \A h \in Handlers : ~StoreFails(h) /\ ~Serve(h)
  BY <1>1, <1>3
  DEF Serve, StoreFails, Peek, CheckDisabled, CheckApproved, Claim, Consume, Answer
<1>5. \A a \in Agents : ~Persist(a)
  BY <1>3
  DEF Persist, Registry, Journal, Recover, WriteKey, WriteCert, Unlink, RemoveToken
<1>6. \A a \in Agents : ~(Bootstrap(a) \/ Renew(a) \/ GiveUp(a) \/ AgentCrash(a) \/ Expire(a))
  BY <1>3 DEF Bootstrap, Renew, Call, GiveUp, AgentCrash, Expire
<1>7. ~RegistryCrash BY <1>3 DEF RegistryCrash
<1>8. Admin => EnableNode(n)
  BY <1>2, <1>3 DEF Admin, RevokeToken, MintToken, HandOver
<1> QED BY <1>4, <1>5, <1>6, <1>7, <1>8 DEF Next

\* A disable holds against every handler past its IsDisabled check (Set and
\* Reserve check again under the ledger's lock).
THEOREM DisableHoldsAlways == Spec => DisableHolds
<1>1. EnrolInv /\ [Next]_vars =>
        [\A n \in Nodes : ledger[n].disabled =>
            \/ ledger'[n].disabled /\ ledger'[n].key = ledger[n].key
            \/ EnableNode(n)]_vars
  BY KeyMoves, DisableStays DEF EnrolInv
<1> QED BY <1>1, EnrolAlways, PTL DEF Spec, DisableHolds

\* A key on record gives way only to a renewal or to a token minted for its
\* node id (Reserve's conflict).
THEOREM KeyKeptAlways == Spec => KeyKept
<1> DEFINE Kept ==
        \A n \in Nodes :
            ledger[n].key # NoKey /\ ledger'[n].key # ledger[n].key =>
                \E h \in Handlers :
                    /\ handler[h].node = n /\ handler'[h].pc = "granted"
                    /\ handler[h].bound \/ handler[h].token = NoToken
<1>1. ASSUME EnrolInv, Next PROVE Kept
  <2> SUFFICES ASSUME NEW n \in Nodes, ledger[n].key # NoKey,
                      ledger'[n].key # ledger[n].key
               PROVE  \E h \in Handlers :
                        /\ handler[h].node = n /\ handler'[h].pc = "granted"
                        /\ handler[h].bound \/ handler[h].token = NoToken
    OBVIOUS
  <2>1. TypeOK /\ Shape BY <1>1 DEF EnrolInv
  <2>2. PICK h \in Handlers : WriteLedger(h) /\ handler[h].node = n /\ handler'[h].pc = "granted"
    BY <1>1, <2>1, KeyMoves
  <2>3. handler[h].pc # "reserve"
    BY <2>1, <2>2 DEF WriteLedger, Conflict, Set, TypeOK, NodeRecord
  <2>4. handler[h].pc = "set" BY <2>2, <2>3 DEF WriteLedger
  <2> QED BY <2>1, <2>2, <2>4 DEF Shape
<1>2. EnrolInv /\ [Next]_vars => [Kept]_vars BY <1>1
<1> QED BY <1>2, EnrolAlways, PTL DEF Spec, KeyKept

=============================================================================
