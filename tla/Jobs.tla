-------------------------------- MODULE Jobs --------------------------------
(***************************************************************************)
(* Workflow jobs: the in-memory job table of every Gateway replica         *)
(* (httpapi/jobstore.go), the three ways it learns how a run is going (a   *)
(* caller's poll, a caller's event stream, the background syncer), the     *)
(* persister that copies it to the control plane's jobs table, and the     *)
(* recovery sweep that brings a forgotten job back from there.             *)
(*                                                                         *)
(* A status is the pair (State, ErrorSummary) of the code: "failed" is a   *)
(* failure with its text, "failedBare" one without.  Backoff and claim     *)
(* times only decide when a due job is looked at; the model lets that be   *)
(* any time.  A run (`run`) belongs to ComfyUI and is external.            *)
(***************************************************************************)
EXTENDS Naturals, Sequences, FiniteSets

CONSTANTS
    Replicas,       \* Gateway replicas the node is connected to
    Jobs,           \* public job ids, each minted for one run
    Others,         \* bound: of those, the ones that only take up room: they
                    \* are submitted, and neither observed nor persisted
    Outcomes,       \* how a run may end, besides being cancelled
    MaxJobs,        \* jobStore.max
    MaxDisturbances \* bound: polls, event streams and cancellations callers
                    \* ask for, questions and calls that fail, and replica
                    \* restarts, together

ASSUME JobsAssumption ==
    /\ Others \subseteq Jobs
    /\ Outcomes \subseteq {"succeeded", "failed"}
    /\ MaxJobs \in Nat \ {0}
    /\ MaxDisturbances \in Nat

VARIABLES
    run,            \* the backend's own state of each run (external)
    submitting,     \* per replica: runs the backend took, not yet in the table
    byID,           \* jobStore.byID
    order,          \* jobStore.order, oldest first
    asks,           \* status questions and event streams outstanding
    calls,          \* the persister's call to the control plane, per job
    listing,        \* rows a recovery sweep has fetched and not yet inserted
    row,            \* the control plane's jobs table
    disturbances    \* how many there have been

vars == <<run, submitting, byID, order, asks, calls, listing, row, disturbances>>

Terminals == {"succeeded", "failed", "failedBare", "cancelled"}
Statuses  == {"pending", "running"} \cup Terminals
Askers    == {"caller", "sync"}

\* job.terminal, jobTerminal and model.Job.Terminal.
terminal(s) == s \in Terminals

\* What is left of a status where only the State is carried: the initial
\* create and a terminal event have no ErrorSummary.
Bare(s) == IF s = "failed" THEN "failedBare" ELSE s

Absent == [status |-> "absent", seq |-> 0, persisted |-> FALSE, pseq |-> 0]
NoRow  == [status |-> "absent", seq |-> 0, stamped |-> FALSE]
NoCall == [op |-> "idle", status |-> "absent", seq |-> 0, landed |-> FALSE]

Held(r, j) == byID[r][j].status # "absent"

\* job.needsPersist
needsPersist(rec) == ~rec.persisted \/ rec.pseq < rec.seq

Init ==
    /\ run        = [j \in Jobs |-> "none"]
    /\ submitting = [r \in Replicas |-> {}]
    /\ byID       = [r \in Replicas |-> [j \in Jobs |-> Absent]]
    /\ order      = [r \in Replicas |-> << >>]
    /\ asks       = [r \in Replicas |-> [j \in Jobs |-> [a \in Askers |-> "idle"]]]
    /\ calls      = [r \in Replicas |-> [j \in Jobs |-> NoCall]]
    /\ listing    = [r \in Replicas |-> {}]
    /\ row        = [j \in Jobs |-> NoRow]
    /\ disturbances = 0

Disturb ==
    /\ disturbances < MaxDisturbances
    /\ disturbances' = disturbances + 1

-----------------------------------------------------------------------------
(* The backend (external).                                                 *)

RunStarts(j) ==
    /\ run[j] = "pending"
    /\ run' = [run EXCEPT ![j] = "running"]
    /\ UNCHANGED <<submitting, byID, order, asks, calls, listing, row, disturbances>>

RunEnds(j) ==
    /\ run[j] \in {"pending", "running"}
    /\ \E o \in Outcomes : run' = [run EXCEPT ![j] = o]
    /\ UNCHANGED <<submitting, byID, order, asks, calls, listing, row, disturbances>>

-----------------------------------------------------------------------------
(* The table.                                                              *)

\* insertLocked with evictLocked: the new job goes last, and past the bound
\* the oldest goes, whatever its state.
insertLocked(r, j, rec) ==
    LET grown == Append(order[r], j)
        full  == Len(grown) > MaxJobs
        kept  == [byID[r] EXCEPT ![j] = rec]
    IN  /\ order' = [order EXCEPT ![r] = IF full THEN Tail(grown) ELSE grown]
        /\ byID'  = [byID EXCEPT ![r] =
                        IF full THEN [kept EXCEPT ![Head(grown)] = Absent] ELSE kept]

\* jobStore.update: the last answer to arrive wins, and every change of the
\* status advances ObservedSeq.  A job evicted meanwhile stays evicted.
update(rec, s) ==
    IF rec.status = "absent" THEN rec
    ELSE [rec EXCEPT !.status = s, !.seq = IF rec.status = s THEN @ ELSE @ + 1]

\* submitRun up to the backend's acceptance: the run exists, the job does not.
SubmitWorkflow(r, j) ==
    /\ run[j] = "none"
    /\ run' = [run EXCEPT ![j] = "pending"]
    /\ submitting' = [submitting EXCEPT ![r] = @ \cup {j}]
    /\ UNCHANGED <<byID, order, asks, calls, listing, row, disturbances>>

\* submitRun after it: add, as Pending whatever the run has done since.
add(r, j) ==
    /\ j \in submitting[r]
    /\ submitting' = [submitting EXCEPT ![r] = @ \ {j}]
    /\ insertLocked(r, j, [Absent EXCEPT !.status = "pending"])
    /\ UNCHANGED <<run, asks, calls, listing, row, disturbances>>

\* A replica that stops loses everything it kept in memory.
Restart(r) ==
    /\ Disturb
    /\ submitting' = [submitting EXCEPT ![r] = {}]
    /\ byID'       = [byID EXCEPT ![r] = [j \in Jobs |-> Absent]]
    /\ order'      = [order EXCEPT ![r] = << >>]
    /\ asks'       = [asks EXCEPT ![r] = [j \in Jobs |-> [a \in Askers |-> "idle"]]]
    /\ calls'      = [calls EXCEPT ![r] = [j \in Jobs |-> NoCall]]
    /\ listing'    = [listing EXCEPT ![r] = {}]
    /\ UNCHANGED <<run, row>>

-----------------------------------------------------------------------------
(* Observing a run: jobStatus and jobEvents (asker "caller", one caller at  *)
(* a time per job and replica) and syncOne ("sync"; dueForSync hands a job *)
(* out to one attempt at a time).                                          *)

\* A question of the node about a job the table says is not over; a finished
\* one is answered from the table.
Ask(r, j, a, how) ==
    /\ asks[r][j][a] = "idle"
    /\ Held(r, j)
    /\ ~terminal(byID[r][j].status)
    /\ asks' = [asks EXCEPT ![r][j][a] = how]
    /\ UNCHANGED <<run, submitting, byID, order, calls, listing, row>>

syncOne(r, j) == Ask(r, j, "sync", "asked") /\ UNCHANGED disturbances

jobStatus(r, j) == Ask(r, j, "caller", "asked") /\ Disturb

jobEvents(r, j) == Ask(r, j, "caller", "following") /\ Disturb

\* The node reports the run as it is then.  An event stream is read until it
\* says the run ended, and says so without an error text.
NodeAnswers(r, j, a) ==
    /\ \/ /\ asks[r][j][a] = "asked"
          /\ asks' = [asks EXCEPT ![r][j][a] = run[j]]
       \/ /\ asks[r][j][a] = "following"
          /\ terminal(run[j])
          /\ asks' = [asks EXCEPT ![r][j][a] = Bare(run[j])]
    /\ UNCHANGED <<run, submitting, byID, order, calls, listing, row, disturbances>>

\* The answer is applied to whatever the table says by then.
Apply(r, j, a) ==
    /\ asks[r][j][a] \in Statuses
    /\ byID' = [byID EXCEPT ![r][j] = update(@, asks[r][j][a])]
    /\ asks' = [asks EXCEPT ![r][j][a] = "idle"]
    /\ UNCHANGED <<run, submitting, order, calls, listing, row, disturbances>>

\* Mutant: an unreachable node counts as a failed run.
MutAskFails(r, j, a) ==
    /\ asks[r][j][a] # "idle"
    /\ Disturb
    /\ asks' = [asks EXCEPT ![r][j][a] = "idle"]
    /\ byID' = [byID EXCEPT ![r][j] = update(@, "failedBare")]
    /\ UNCHANGED <<run, submitting, order, calls, listing, row>>

\* The node could not be asked, the caller left, the stream broke: syncFailed
\* leaves the observed status alone.
AskFails(r, j, a) ==
    /\ asks[r][j][a] # "idle"
    /\ Disturb
    /\ asks' = [asks EXCEPT ![r][j][a] = "idle"]
    /\ UNCHANGED <<run, submitting, byID, order, calls, listing, row>>

\* cancelJob: the node is told to stop; the table only learns of it later.
CancelWorkflow(r, j) ==
    /\ Held(r, j)
    /\ ~terminal(byID[r][j].status)
    /\ run[j] \in {"pending", "running"}
    /\ Disturb
    /\ run' = [run EXCEPT ![j] = "cancelled"]
    /\ UNCHANGED <<submitting, byID, order, asks, calls, listing, row>>

-----------------------------------------------------------------------------
(* Persisting: persistOne, one at a time per job, and the control plane.   *)

\* The call persistOne makes for a record: the create carries the current
\* State under sequence 0, the update the whole status under its own.
CallFor(rec) ==
    IF ~rec.persisted
    THEN [op |-> "create", status |-> Bare(rec.status), seq |-> 0, landed |-> FALSE]
    ELSE [op |-> "update", status |-> rec.status, seq |-> rec.seq, landed |-> FALSE]

PersistStarts(r, j) ==
    /\ calls[r][j].op = "idle"
    /\ Held(r, j)
    /\ needsPersist(byID[r][j])
    /\ calls' = [calls EXCEPT ![r][j] = CallFor(byID[r][j])]
    /\ UNCHANGED <<run, submitting, byID, order, asks, listing, row, disturbances>>

\* logic.CreateJob: a row that exists is left as it is.
CreateJob(old, c) ==
    IF old.status # "absent" THEN old
    ELSE [status |-> c.status, seq |-> c.seq, stamped |-> FALSE]

\* store.UpdateJobState: only a newer sequence, and never past a final state.
UpdateJobState(old, c) ==
    IF old.status = "absent" \/ terminal(old.status) \/ c.seq <= old.seq THEN old
    ELSE [status |-> c.status, seq |-> c.seq, stamped |-> terminal(c.status)]

CallLands(r, j) ==
    /\ calls[r][j].op # "idle"
    /\ ~calls[r][j].landed
    /\ row' = [row EXCEPT ![j] = IF calls[r][j].op = "create"
                                 THEN CreateJob(@, calls[r][j])
                                 ELSE UpdateJobState(@, calls[r][j])]
    /\ calls' = [calls EXCEPT ![r][j].landed = TRUE]
    /\ UNCHANGED <<run, submitting, byID, order, asks, listing, disturbances>>

\* Mutant: persistedCreate forgets the flag.
MutConfirmed(rec, c) ==
    IF rec.status = "absent" THEN rec
    ELSE IF c.op = "create" THEN [rec EXCEPT !.pseq = 0]
    ELSE [rec EXCEPT !.pseq = c.seq]

\* persistedCreate and persistedState, on the record there is by then.
Confirmed(rec, c) ==
    IF rec.status = "absent" THEN rec
    ELSE IF c.op = "create" THEN [rec EXCEPT !.persisted = TRUE, !.pseq = 0]
    ELSE [rec EXCEPT !.pseq = c.seq]

\* The answer arrives.  After a create the same persistOne reads the job
\* again and goes on with an update if one is owed.
CallReturns(r, j) ==
    LET rec == Confirmed(byID[r][j], calls[r][j])
    IN  /\ calls[r][j].landed
        /\ byID' = [byID EXCEPT ![r][j] = rec]
        /\ calls' = [calls EXCEPT ![r][j] =
                        IF @.op = "create" /\ rec.status # "absent" /\ needsPersist(rec)
                        THEN CallFor(rec) ELSE NoCall]
        /\ UNCHANGED <<run, submitting, order, asks, listing, row, disturbances>>

\* Mutant: a failed create counts as confirmed.
MutCallFails(r, j) ==
    /\ calls[r][j].op # "idle"
    /\ Disturb
    /\ calls' = [calls EXCEPT ![r][j] = NoCall]
    /\ byID' = [byID EXCEPT ![r][j] = Confirmed(@, calls[r][j])]
    /\ UNCHANGED <<run, submitting, order, asks, listing, row>>

\* The call fails or times out, landed or not: persistFailed keeps what is
\* owed.  A call given up before it landed is cancelled with its request.
CallFails(r, j) ==
    /\ calls[r][j].op # "idle"
    /\ Disturb
    /\ calls' = [calls EXCEPT ![r][j] = NoCall]
    /\ UNCHANGED <<run, submitting, byID, order, asks, listing, row>>

-----------------------------------------------------------------------------
(* Recovery: recoverRoute asks for the route's active rows, then inserts   *)
(* each one the table does not know.                                       *)

ListActiveJobsForRoute ==
    {[job |-> j, status |-> row[j].status, seq |-> row[j].seq] :
        j \in {i \in Jobs : row[i].status # "absent" /\ ~terminal(row[i].status)}}

RecoverLists(r) ==
    /\ listing[r] = {}
    /\ ListActiveJobsForRoute # {}
    /\ listing' = [listing EXCEPT ![r] = ListActiveJobsForRoute]
    /\ UNCHANGED <<run, submitting, byID, order, asks, calls, row, disturbances>>

\* Mutant: a recovered job counts its observations from zero.
MutRecovered(f) == [status |-> f.status, seq |-> 0, persisted |-> TRUE, pseq |-> 0]

\* The record recoverRoute makes of a row: counted on from the row's number.
Recovered(f) == [status |-> f.status, seq |-> f.seq, persisted |-> TRUE, pseq |-> f.seq]

\* Mutant: the existence check is gone.
MutRecoverIfMissing(r, f) ==
    /\ f \in listing[r]
    /\ listing' = [listing EXCEPT ![r] = @ \ {f}]
    /\ insertLocked(r, f.job, Recovered(f))
    /\ UNCHANGED <<run, submitting, asks, calls, row, disturbances>>

\* recoverIfMissing
recoverIfMissing(r, f) ==
    /\ f \in listing[r]
    /\ listing' = [listing EXCEPT ![r] = @ \ {f}]
    /\ IF Held(r, f.job)
       THEN UNCHANGED <<byID, order>>
       ELSE insertLocked(r, f.job, Recovered(f))
    /\ UNCHANGED <<run, submitting, asks, calls, row, disturbances>>

-----------------------------------------------------------------------------

Next ==
    \/ \E j \in Jobs \ Others : RunStarts(j) \/ RunEnds(j)
    \/ \E r \in Replicas : Restart(r) \/ RecoverLists(r)
    \/ \E r \in Replicas : \E f \in listing[r] : recoverIfMissing(r, f)
    \/ \E r \in Replicas, j \in Jobs : SubmitWorkflow(r, j) \/ add(r, j)
    \/ \E r \in Replicas, j \in Jobs \ Others :
          \/ CancelWorkflow(r, j)
          \/ jobStatus(r, j) \/ jobEvents(r, j) \/ syncOne(r, j)
          \/ PersistStarts(r, j) \/ CallLands(r, j)
          \/ CallReturns(r, j) \/ CallFails(r, j)
          \/ \E a \in Askers : NodeAnswers(r, j, a) \/ Apply(r, j, a) \/ AskFails(r, j, a)

Spec == Init /\ [][Next]_vars

\* The syncer, the persister, the recovery sweep and the node go on: a started
\* loop runs its next tick (run in jobsync.go, jobpersist.go and jobrecover.go),
\* and an outage ends.
FairSpec ==
    /\ Spec
    /\ \A r \in Replicas, j \in Jobs \ Others :
          /\ WF_vars(syncOne(r, j))
          /\ WF_vars(NodeAnswers(r, j, "sync"))
          /\ WF_vars(Apply(r, j, "sync"))
          /\ WF_vars(PersistStarts(r, j))
          /\ WF_vars(CallLands(r, j))
          /\ WF_vars(CallReturns(r, j))
    /\ \A r \in Replicas :
          /\ WF_vars(RecoverLists(r))
          /\ WF_vars(\E f \in listing[r] : recoverIfMissing(r, f))

-----------------------------------------------------------------------------
(* Properties.                                                             *)

Recs == [status : Statuses \cup {"absent"}, seq : Nat, persisted : BOOLEAN, pseq : Nat]

\* The type invariant.
TypeOK ==
    /\ run \in [Jobs -> Statuses \cup {"none"}]
    /\ submitting \in [Replicas -> SUBSET Jobs]
    /\ byID \in [Replicas -> [Jobs -> Recs]]
    /\ order \in [Replicas -> Seq(Jobs)]
    /\ asks \in [Replicas -> [Jobs -> [Askers -> Statuses \cup {"idle", "asked", "following"}]]]
    /\ calls \in [Replicas -> [Jobs -> [op : {"idle", "create", "update"},
                                       status : Statuses \cup {"absent"},
                                       seq : Nat, landed : BOOLEAN]]]
    /\ listing \in [Replicas -> SUBSET [job : Jobs, status : Statuses, seq : Nat]]
    /\ row \in [Jobs -> [status : Statuses \cup {"absent"}, seq : Nat, stamped : BOOLEAN]]
    /\ disturbances \in 0..MaxDisturbances

\* insertLocked, recoverIfMissing ("inserting it again would give s.order two
\* entries for one id, corrupting eviction order"): the eviction order lists
\* exactly the jobs of the table, each once, and never more than the bound.
OrderExact ==
    \A r \in Replicas :
        /\ Len(order[r]) <= MaxJobs
        /\ \A j \in Jobs : Held(r, j) <=> \E i \in 1..Len(order[r]) : order[r][i] = j
        /\ \A i, k \in 1..Len(order[r]) : order[r][i] = order[r][k] => i = k

Rank(s) == CASE s \in {"none", "absent", "idle", "asked", "following"} -> 0
             [] s = "pending" -> 1
             [] s = "running" -> 2
             [] OTHER -> 3

\* s is something run t has been: no further on, and the same end.
SeenOf(s, t) == Rank(s) <= Rank(t) /\ (terminal(s) => Bare(s) = Bare(t))

\* jobsync.go and jobrecover.go ("against fabricating a result nobody
\* reported"): through failed questions, late answers, restarts and recovery,
\* no replica and no row ever says more of a run than the node has.
NothingInvented ==
    \A j \in Jobs :
        /\ SeenOf(row[j].status, run[j])
        /\ \A r \in Replicas :
              /\ SeenOf(byID[r][j].status, run[j])
              /\ SeenOf(calls[r][j].status, run[j])
              /\ \A a \in Askers : SeenOf(asks[r][j][a], run[j])

\* persisted and persistedSeq ("recording exactly what was confirmed"): what a
\* replica takes for confirmed the control plane has: a row, which has reached
\* that sequence or can change no more.
ConfirmedIsThere ==
    \A r \in Replicas, j \in Jobs :
        byID[r][j].persisted =>
            /\ row[j].status # "absent"
            /\ row[j].seq >= byID[r][j].pseq \/ terminal(row[j].status)

\* jobSyncer and jobPersister: the end of a run is noticed by every replica
\* that remembers the job and sent to the control plane until it is confirmed,
\* whether or not a caller ever asks and however questions and calls fail.
EndIsReported ==
    \A r \in Replicas, j \in Jobs \ Others :
        (Held(r, j) /\ terminal(run[j])) ~>
            (~Held(r, j) \/ (terminal(byID[r][j].status) /\ ~needsPersist(byID[r][j])))

\* The jobs a replica has in its table or is about to put there.
Wanted(r) == {j \in Jobs : \/ Held(r, j) \/ j \in submitting[r]
                           \/ \E f \in listing[r] : f.job = j}

\* recoverRoute ("so a freshly recovered job does not have to re-earn ...
\* sequence numbers the control plane already has on file"): the end of a run
\* that a replica knows, and goes on knowing, is in the end what the control
\* plane's row says, whatever calls fail and whichever replicas restart and
\* recover the job.  The condition is that the tables have room: a job evicted
\* while a call about it, or a sweep, is out comes back with an old number, and
\* then its end may be dropped as stale and still be booked as confirmed.
EndIsRecorded ==
    [](\A r \in Replicas : Cardinality(Wanted(r)) <= MaxJobs) =>
        \A r \in Replicas, j \in Jobs \ Others :
            terminal(byID[r][j].status) ~>
                (terminal(row[j].status) \/ ~terminal(byID[r][j].status))

\* model.Job.TerminalAt ("set once, the first time State becomes terminal ...
\* Nil means still in flight").
EndIsStamped ==
    \A j \in Jobs : terminal(row[j].status) => row[j].stamped

=============================================================================
