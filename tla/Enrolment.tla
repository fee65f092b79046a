----------------------------- MODULE Enrolment ------------------------------
(***************************************************************************)
(* How a node gets and keeps its certificate: the Registry's bootstrap     *)
(* tokens (tokenstore), its identity ledger (identitystore), the handlers  *)
(* Register and RenewCertificate between them, the operator's TokenAdmin   *)
(* calls, and the Agent's identity manager with the files it keeps.        *)
(*                                                                         *)
(* Every store operation takes its own lock and writes its own file before *)
(* it returns, so a handler is a sequence of atomic steps, one per store   *)
(* call, and a Registry crash falls between two of them.  A certificate is *)
(* the node it names and the key it was issued for.  The ledger's record   *)
(* of a node it never heard of is the blank record: every reader treats    *)
(* the two alike.  The maintenance flag is modelled in Roster.             *)
(***************************************************************************)
EXTENDS Naturals, FiniteSets

CONSTANTS
    Agents,         \* machines, each running one Agent
    Nodes,          \* node ids
    NodeOf,         \* the configured node_id of each Agent, or NoNode
    Owned,          \* of the node ids, those nodeaccess.OwnerOf gives a tenant
    Tokens,         \* bootstrap tokens the operator may mint
    Keys,           \* bound: key pairs in use at one time
    Handlers,       \* bound: Register and Renew handlers running at one time
    NoNode, NoKey, NoToken, NoAgent,
    MaxDisturbances \* bound: crashes, lost calls, failed writes, expiries and
                    \* the operator's revocations and disables, together

ASSUME EnrolmentAssumption ==
    /\ NodeOf \in [Agents -> Nodes \cup {NoNode}]
    /\ Owned \subseteq Nodes
    /\ NoNode \notin Nodes /\ NoKey \notin Keys /\ NoToken \notin Tokens
    /\ NoAgent \notin Agents
    /\ MaxDisturbances \in Nat

Certs  == Nodes \X Keys
NoCert == <<NoNode, NoKey>>

VARIABLES
    token,          \* tokenstore.records
    ledger,         \* identitystore.records
    handler,        \* the running Register and RenewCertificate handlers
    agent,          \* per Agent: what it is doing, and the files it keeps
    granted,        \* history: per token, the certificates handed back for it
    vouched,        \* history: nodes approved, and nodes minted a token for
    disturbances

vars == <<token, ledger, handler, agent, granted, vouched, disturbances>>

Registry == <<token, ledger, handler, granted>>

NoRecord == [key |-> NoKey, approved |-> FALSE, pending |-> FALSE,
             disabled |-> FALSE, deleted |-> FALSE]
Unminted == [status |-> "none", bound |-> NoNode, claimed |-> NoNode]
Idle     == [pc |-> "idle", by |-> NoAgent, token |-> NoToken, node |-> NoNode,
             key |-> NoKey, bound |-> FALSE]
Blank    == [pc |-> "off", key |-> NoKey, cert |-> NoCert, journal |-> NoCert,
             next |-> NoCert, token |-> NoToken, expired |-> FALSE]

Init ==
    /\ token   = [t \in Tokens |-> Unminted]
    /\ ledger  = [n \in Nodes |-> NoRecord]
    /\ handler = [h \in Handlers |-> Idle]
    /\ agent   = [a \in Agents |-> Blank]
    /\ granted = [t \in Tokens |-> 0]
    /\ vouched = [approved |-> {}, minted |-> {}]
    /\ disturbances = 0

Disturb ==
    /\ disturbances < MaxDisturbances
    /\ disturbances' = disturbances + 1

\* generateNodeKey: a key nothing refers to.
InUse ==
    {ledger[n].key : n \in Nodes} \cup {handler[h].key : h \in Handlers}
        \cup UNION {{agent[a].key, agent[a].cert[2], agent[a].journal[2],
                     agent[a].next[2]} : a \in Agents}

FreshKey == CHOOSE k \in Keys : k \notin InUse

-----------------------------------------------------------------------------
(* The two stores.                                                         *)

\* consumableLocked
Consumable(t) == token[t].status = "live"

\* identitystore.Set, on a record that is not disabled.
Set(rec, k) == [rec EXCEPT !.key = k, !.approved = TRUE, !.pending = FALSE]

\* Mutant: any key may take a node id over.
MutConflict(rec, k) == FALSE

\* identitystore.Reserve's conflict: the id is bound to another key.
Conflict(rec, k) == rec.key # NoKey /\ rec.key # k

\* Mutant: the disable is checked once, before the lock.
MutDisabledNow(n) == FALSE

\* The check Set and Reserve repeat under the ledger's lock.
DisabledNow(n) == ledger[n].disabled

-----------------------------------------------------------------------------
(* Register, one store call at a time.                                     *)

\* The handler returns: an answer for the Agent that waits, none otherwise.
Finish(h, pc) == handler' = [handler EXCEPT ![h].pc = pc]

\* Peek, and the checks of the name the request proposes.
Peek(h) ==
    LET t  == handler[h].token
        g  == token[t]
        n  == IF g.bound # NoNode THEN g.bound ELSE handler[h].node
        ok == /\ Consumable(t)
              /\ g.bound # NoNode => handler[h].node \in {NoNode, g.bound}
              /\ n # NoNode
              /\ g.bound = NoNode => g.claimed \in {NoNode, n} /\ n \notin Owned
    IN  /\ handler[h].pc = "peek"
        /\ handler' = [handler EXCEPT
                ![h] = IF ok THEN [@ EXCEPT !.pc = "disabled", !.node = n,
                                            !.bound = g.bound # NoNode]
                             ELSE [@ EXCEPT !.pc = "refused"]]
        /\ UNCHANGED <<token, ledger, agent, granted, vouched, disturbances>>

\* IsDisabled, in Register and in RenewCertificate.
CheckDisabled(h) ==
    /\ handler[h].pc \in {"disabled", "renewing"}
    /\ Finish(h, IF ledger[handler[h].node].disabled THEN "refused"
                 ELSE IF handler[h].pc = "renewing" THEN "set"
                 ELSE "approved")
    /\ UNCHANGED <<token, ledger, agent, granted, vouched, disturbances>>

\* Mutant: nobody asks for the approval.
MutCheckApproved(h) ==
    /\ handler[h].pc = "approved"
    /\ Finish(h, "consume")
    /\ UNCHANGED <<token, ledger, agent, granted, vouched, disturbances>>

\* IsApproved.  A bound token was the approval.
CheckApproved(h) ==
    /\ handler[h].pc = "approved"
    /\ Finish(h, IF handler[h].bound \/ ledger[handler[h].node].approved
                 THEN "consume" ELSE "claim")
    /\ UNCHANGED <<token, ledger, agent, granted, vouched, disturbances>>

\* Claim: the token survives the refusal, for this node id only.
Claim(h) ==
    LET t  == handler[h].token
        ok == Consumable(t) /\ token[t].claimed \in {NoNode, handler[h].node}
    IN  /\ handler[h].pc = "claim"
        /\ token' = IF ok THEN [token EXCEPT ![t].claimed = handler[h].node] ELSE token
        /\ Finish(h, IF ok THEN "pend" ELSE "refused")
        /\ UNCHANGED <<ledger, agent, granted, vouched, disturbances>>

\* Mutant: the pending mark overwrites an approval.
MutRecordPending(h) ==
    LET n == handler[h].node
    IN  /\ handler[h].pc = "pend"
        /\ ledger' = [ledger EXCEPT ![n] = [@ EXCEPT !.pending = TRUE, !.approved = FALSE]]
        /\ Finish(h, "refused")
        /\ UNCHANGED <<token, agent, granted, vouched, disturbances>>

\* RecordPending, and the refusal.  An approval that came first stands.
RecordPending(h) ==
    LET n == handler[h].node
    IN  /\ handler[h].pc = "pend"
        /\ ledger' = [ledger EXCEPT ![n].pending = @ \/ ~ledger[n].approved]
        /\ Finish(h, "refused")
        /\ UNCHANGED <<token, agent, granted, vouched, disturbances>>

\* Mutant: a spent token is spent again.
MutConsume(h) ==
    /\ handler[h].pc = "consume"
    /\ token' = [token EXCEPT ![handler[h].token].status = "dead"]
    /\ Finish(h, IF handler[h].bound THEN "set" ELSE "reserve")
    /\ UNCHANGED <<ledger, agent, granted, vouched, disturbances>>

\* Sign and Consume.  Of two handlers with one token, the second loses.
Consume(h) ==
    LET t == handler[h].token
    IN  /\ handler[h].pc = "consume"
        /\ token' = IF Consumable(t) THEN [token EXCEPT ![t].status = "dead"] ELSE token
        /\ Finish(h, IF ~Consumable(t) THEN "refused"
                     ELSE IF handler[h].bound THEN "set" ELSE "reserve")
        /\ UNCHANGED <<ledger, agent, granted, vouched, disturbances>>

\* The ledger write, Set or Reserve, and the certificate that goes back.
WriteLedger(h) ==
    LET n  == handler[h].node
        k  == handler[h].key
        t  == handler[h].token
        ok == /\ ~DisabledNow(n)
              /\ handler[h].pc = "reserve" => ~Conflict(ledger[n], k)
    IN  /\ handler[h].pc \in {"set", "reserve"}
        /\ ledger' = IF ok THEN [ledger EXCEPT ![n] = Set(@, k)] ELSE ledger
        /\ granted' = IF ok /\ t # NoToken THEN [granted EXCEPT ![t] = @ + 1] ELSE granted
        /\ Finish(h, IF ok THEN "granted" ELSE "refused")
        /\ UNCHANGED <<token, agent, vouched, disturbances>>

\* A store cannot write its file: it restores what it had, and the handler
\* answers Internal.
StoreFails(h) ==
    /\ handler[h].pc \in {"claim", "pend", "consume", "set", "reserve"}
    /\ Disturb
    /\ Finish(h, "refused")
    /\ UNCHANGED <<token, ledger, agent, granted, vouched>>

\* The Registry stops; both files stay, every handler is gone.
RegistryCrash ==
    /\ Disturb
    /\ \E h \in Handlers : handler[h].pc # "idle"
    /\ handler' = [h \in Handlers |->
                    IF handler[h].by = NoAgent THEN Idle
                    ELSE [Idle EXCEPT !.pc = "refused", !.by = handler[h].by]]
    /\ UNCHANGED <<token, ledger, agent, granted, vouched>>

-----------------------------------------------------------------------------
(* The operator: TokenAdmin.                                               *)

MintToken(n) ==
    LET new == {t \in Tokens : token[t].status = "none"} IN
    /\ new # {}
    /\ token' = [token EXCEPT ![CHOOSE t \in new : TRUE] = [Unminted EXCEPT !.status = "live", !.bound = n]]
    /\ vouched' = [vouched EXCEPT !.minted = @ \cup ({n} \ {NoNode})]
    /\ UNCHANGED <<ledger, handler, agent, granted, disturbances>>

\* The operator puts the token in the Agent's bootstrap_token_file.
HandOver(a, t) ==
    /\ token[t].status = "live"
    /\ agent[a].token = NoToken
    /\ agent' = [agent EXCEPT ![a].token = t]
    /\ UNCHANGED <<token, ledger, handler, granted, vouched, disturbances>>

\* RevokeToken, or the token's time running out.
RevokeToken(t) ==
    /\ Consumable(t)
    /\ Disturb
    /\ token' = [token EXCEPT ![t].status = "dead"]
    /\ UNCHANGED <<ledger, handler, agent, granted, vouched>>

ApproveNode(n) ==
    /\ ~ledger[n].approved
    /\ ledger' = [ledger EXCEPT ![n] = [@ EXCEPT !.approved = TRUE, !.pending = FALSE]]
    /\ vouched' = [vouched EXCEPT !.approved = @ \cup {n}]
    /\ UNCHANGED <<token, handler, agent, granted, disturbances>>

DisableNode(n) ==
    /\ ~ledger[n].disabled
    /\ Disturb
    /\ ledger' = [ledger EXCEPT ![n].disabled = TRUE]
    /\ UNCHANGED <<token, handler, agent, granted, vouched>>

EnableNode(n) ==
    /\ ledger[n].disabled
    /\ ledger' = [ledger EXCEPT ![n] = [@ EXCEPT !.disabled = FALSE, !.deleted = FALSE]]
    /\ UNCHANGED <<token, handler, agent, granted, vouched, disturbances>>

DeleteNode(n) ==
    /\ ~ledger[n].deleted
    /\ Disturb
    /\ ledger' = [ledger EXCEPT ![n] =
                    [@ EXCEPT !.disabled = TRUE, !.deleted = TRUE, !.pending = FALSE]]
    /\ UNCHANGED <<token, handler, agent, granted, vouched>>

-----------------------------------------------------------------------------
(* The Agent: Ensure, and the files it replaces one at a time.             *)

Stored(a)   == agent[a].key # NoKey /\ agent[a].cert # NoCert
Empty(a)    == agent[a].key = NoKey /\ agent[a].cert = NoCert
\* newIdentity: the key file and the certificate form a pair.
Loadable(a) == Stored(a) /\ agent[a].cert[2] = agent[a].key

\* Register or RenewCertificate: a handler of its own takes the Agent's call.
Call(a, req) ==
    LET free == {h \in Handlers : handler[h].pc = "idle"}
    IN  /\ Keys \ InUse # {} /\ free # {}
        /\ handler' = [handler EXCEPT ![CHOOSE h \in free : TRUE] = req]
        /\ agent' = [agent EXCEPT ![a].pc = "calling"]
        /\ UNCHANGED <<token, ledger, granted, vouched>>

\* Ensure with nothing stored, or with an expired certificate and a token
\* file: bootstrap, with a fresh key.
Bootstrap(a) ==
    /\ agent[a].pc = "off"
    /\ agent[a].journal = NoCert
    /\ agent[a].token # NoToken
    /\ Empty(a) \/ (Loadable(a) /\ agent[a].expired)
    /\ Call(a, [Idle EXCEPT !.pc = "peek", !.by = a, !.token = agent[a].token,
                            !.node = NodeOf[a], !.key = FreshKey])
    /\ UNCHANGED disturbances

\* Renew, with a fresh key; the connection is made with the current identity,
\* which the Registry's TLS requires to be valid.
Renew(a) ==
    /\ agent[a].pc = "off"
    /\ agent[a].journal = NoCert
    /\ Loadable(a) /\ ~agent[a].expired
    /\ Disturb
    /\ Call(a, [Idle EXCEPT !.pc = "renewing", !.by = a,
                            !.node = agent[a].cert[1], !.key = FreshKey])

\* The answer.  A refusal ends the attempt, fatal or not: the supervisor
\* starts the Agent again.  A certificate is journalled first (persist).
Answer(h) ==
    LET a == handler[h].by
    IN  /\ handler[h].pc \in {"granted", "refused"}
        /\ handler' = [handler EXCEPT ![h] = Idle]
        /\ agent' = IF a = NoAgent THEN agent
                    ELSE IF handler[h].pc = "refused" THEN [agent EXCEPT ![a].pc = "off"]
                    ELSE [agent EXCEPT ![a].pc = IF handler[h].token = NoToken
                                                 THEN "renewed" ELSE "enrolled",
                                       ![a].next = <<handler[h].node, handler[h].key>>]
        /\ UNCHANGED <<token, ledger, granted, vouched, disturbances>>

\* The call times out or its connection breaks; the handler goes on.
Abandon(a) == [h \in Handlers |->
    IF handler[h].by = a THEN [handler[h] EXCEPT !.by = NoAgent] ELSE handler[h]]

GiveUp(a) ==
    /\ agent[a].pc = "calling"
    /\ Disturb
    /\ handler' = Abandon(a)
    /\ agent' = [agent EXCEPT ![a].pc = "off"]
    /\ UNCHANGED <<token, ledger, granted, vouched>>

\* Mutant: the files are replaced without a journal.
MutJournal(a) ==
    /\ agent[a].pc \in {"enrolled", "renewed"}
    /\ agent' = [agent EXCEPT ![a].pc = IF @ = "enrolled" THEN "key" ELSE "rekey"]
    /\ UNCHANGED <<Registry, vouched, disturbances>>

\* persist: the journal, then the files one at a time (completeIdentity),
\* then the journal's removal, and after a bootstrap the token file's.
Journal(a) ==
    /\ agent[a].pc \in {"enrolled", "renewed"}
    /\ agent' = [agent EXCEPT ![a].journal = agent[a].next,
                              ![a].pc = IF @ = "enrolled" THEN "key" ELSE "rekey"]
    /\ UNCHANGED <<Registry, vouched, disturbances>>

\* recoverPendingIdentity, at the start of load.
Recover(a) ==
    /\ agent[a].pc = "off"
    /\ agent[a].journal # NoCert
    /\ agent' = [agent EXCEPT ![a].next = agent[a].journal, ![a].pc = "rekey"]
    /\ UNCHANGED <<Registry, vouched, disturbances>>

WriteKey(a) ==
    /\ agent[a].pc \in {"key", "rekey"}
    /\ agent' = [agent EXCEPT ![a].key = agent[a].next[2],
                              ![a].pc = IF @ = "key" THEN "cert" ELSE "recert"]
    /\ UNCHANGED <<Registry, vouched, disturbances>>

\* The CA bundle is written next, with the journal still there: for Recover a
\* stop before or after that write is the same, so it has no step of its own.
WriteCert(a) ==
    /\ agent[a].pc \in {"cert", "recert"}
    /\ agent' = [agent EXCEPT ![a].cert = agent[a].next, ![a].expired = FALSE,
                              ![a].pc = IF @ = "cert" THEN "unlink" ELSE "reunlink"]
    /\ UNCHANGED <<Registry, vouched, disturbances>>

Unlink(a) ==
    /\ agent[a].pc \in {"unlink", "reunlink"}
    /\ agent' = [agent EXCEPT ![a].journal = NoCert, ![a].next = NoCert,
                              ![a].pc = IF @ = "unlink" THEN "token" ELSE "off"]
    /\ UNCHANGED <<Registry, vouched, disturbances>>

RemoveToken(a) ==
    /\ agent[a].pc = "token"
    /\ agent' = [agent EXCEPT ![a].token = NoToken, ![a].pc = "off"]
    /\ UNCHANGED <<Registry, vouched, disturbances>>

AgentCrash(a) ==
    /\ agent[a].pc # "off"
    /\ Disturb
    /\ handler' = Abandon(a)
    /\ agent' = [agent EXCEPT ![a].pc = "off", ![a].next = NoCert]
    /\ UNCHANGED <<token, ledger, granted, vouched>>

\* The stored certificate runs out.
Expire(a) ==
    /\ agent[a].pc = "off"
    /\ Stored(a) /\ ~agent[a].expired
    /\ Disturb
    /\ agent' = [agent EXCEPT ![a].expired = TRUE]
    /\ UNCHANGED <<token, ledger, handler, granted, vouched>>

-----------------------------------------------------------------------------

Serve(h) ==
    \/ Peek(h) \/ CheckDisabled(h) \/ CheckApproved(h) \/ Claim(h)
    \/ RecordPending(h) \/ Consume(h) \/ WriteLedger(h) \/ Answer(h)

Persist(a) ==
    \/ Journal(a) \/ Recover(a) \/ WriteKey(a) \/ WriteCert(a)
    \/ Unlink(a) \/ RemoveToken(a)

Admin ==
    \/ \E t \in Tokens : RevokeToken(t)
    \/ \E n \in Nodes \cup {NoNode} : MintToken(n)
    \/ \E n \in Nodes : ApproveNode(n) \/ DisableNode(n) \/ EnableNode(n) \/ DeleteNode(n)
    \/ \E a \in Agents, t \in Tokens : HandOver(a, t)

Next ==
    \/ \E h \in Handlers : Serve(h) \/ StoreFails(h)
    \/ \E a \in Agents : Persist(a) \/ Bootstrap(a) \/ Renew(a) \/ GiveUp(a)
                            \/ AgentCrash(a) \/ Expire(a)
    \/ RegistryCrash
    \/ Admin

Spec == Init /\ [][Next]_vars

\* Handlers run, and a supervisor (systemd, the container runtime) starts an
\* Agent that exited again.  Nothing makes the operator act.
FairSpec ==
    /\ Spec
    /\ \A h \in Handlers : WF_vars(Serve(h))
    /\ \A a \in Agents : WF_vars(Persist(a)) /\ WF_vars(Bootstrap(a))

-----------------------------------------------------------------------------
(* What is checked.                                                        *)

TokenRecord  == [status : {"none", "live", "dead"},
                 bound : Nodes \cup {NoNode}, claimed : Nodes \cup {NoNode}]
NodeRecord   == [key : Keys \cup {NoKey}, approved : BOOLEAN, pending : BOOLEAN,
                 disabled : BOOLEAN, deleted : BOOLEAN]
HandlerState == [pc : {"idle", "peek", "disabled", "approved", "claim", "pend", "consume",
                       "renewing", "set", "reserve", "granted", "refused"},
                 by : Agents \cup {NoAgent}, token : Tokens \cup {NoToken},
                 node : Nodes \cup {NoNode}, key : Keys \cup {NoKey}, bound : BOOLEAN]
AgentState   == [pc : {"off", "calling", "enrolled", "renewed", "key", "rekey", "cert",
                       "recert", "unlink", "reunlink", "token"},
                 key : Keys \cup {NoKey}, cert : Certs \cup {NoCert},
                 journal : Certs \cup {NoCert}, next : Certs \cup {NoCert},
                 token : Tokens \cup {NoToken}, expired : BOOLEAN]

\* Every store, handler and file holds what its type allows, and the ledger
\* never keeps a node both approved and pending.
TypeOK ==
    /\ token \in [Tokens -> TokenRecord]
    /\ ledger \in [Nodes -> NodeRecord]
    /\ handler \in [Handlers -> HandlerState]
    /\ agent \in [Agents -> AgentState]
    /\ granted \in [Tokens -> Nat]
    /\ disturbances \in 0..MaxDisturbances
    /\ \A n \in Nodes : ~(ledger[n].approved /\ ledger[n].pending)

\* One token is worth one certificate, however many handlers hold it at once:
\* an Agent's retry beside a call it gave up on, or two machines with one
\* token (Register: Peek first, Consume last).
OneCertPerToken == \A t \in Tokens : granted[t] <= 1

\* No certificate names a node the operator did not let in: by approving it
\* or by minting a token for it, and only by the latter for a tenant's own
\* node (Register's approval and ownership gates).
InHand ==
    {agent[a].cert[1] : a \in Agents} \cup {agent[a].journal[1] : a \in Agents}
        \cup {handler[h].node : h \in {g \in Handlers : handler[g].pc = "granted"}}

LetIn ==
    \A n \in InHand \ {NoNode} :
        n \in vouched.minted \/ (n \in vouched.approved /\ n \notin Owned)

\* Whatever file write an Agent stopped at, the next start finds a journal to
\* complete, or a key and a certificate that belong together, or neither
\* (persist, completeIdentity, recoverPendingIdentity).
UsablePair ==
    \A a \in Agents :
        agent[a].pc = "off" /\ agent[a].journal = NoCert => Empty(a) \/ Loadable(a)

\* A disable holds against every handler already past its IsDisabled check:
\* while the node stays disabled its key on record does not move, and only
\* EnableNode ends the disable (Set and Reserve check again under the lock).
DisableHolds ==
    [][\A n \in Nodes : ledger[n].disabled =>
            \/ ledger'[n].disabled /\ ledger'[n].key = ledger[n].key
            \/ EnableNode(n)]_vars

\* A node id that has a key keeps it against anyone with an unbound token:
\* the key changes only through a renewal or a token minted for the id
\* (Reserve's conflict).
KeyKept ==
    [][\A n \in Nodes :
        ledger[n].key # NoKey /\ ledger'[n].key # ledger[n].key =>
            \E h \in Handlers :
                /\ handler[h].node = n /\ handler'[h].pc = "granted"
                /\ handler[h].bound \/ handler[h].token = NoToken]_vars

\* The Agent has a good token of its own, the operator has let its node id
\* in, nobody holds that id, and nothing else will go wrong.
Entitled(a) ==
    LET t == agent[a].token
        n == IF token[t].bound # NoNode THEN token[t].bound ELSE NodeOf[a]
    IN  /\ t # NoToken /\ Empty(a) /\ agent[a].journal = NoCert
        /\ Consumable(t) /\ \A h \in Handlers : handler[h].token = t => handler[h].by = a
        /\ n # NoNode /\ NodeOf[a] \in {NoNode, n}
        /\ token[t].bound = NoNode =>
                n \in vouched.approved \ Owned /\ token[t].claimed \in {NoNode, n}
        /\ ledger[n].key = NoKey /\ ~ledger[n].disabled
        /\ disturbances = MaxDisturbances

\* An approved Agent gets in with the very token it was refused with before:
\* it ends up with an identity on disk, unless a second machine is given the
\* same token (Register claims a token for a pending node, and spends it only
\* with a certificate in hand).
Enrols ==
    \A a \in Agents :
        (Entitled(a) /\ \A b \in Agents \ {a} : NodeOf[b] \notin {NodeOf[a], NoNode})
            ~> \/ Stored(a)
               \/ agent[a].token # NoToken
                  /\ \E b \in Agents \ {a} : agent[b].token = agent[a].token

=============================================================================
