----------------------------- MODULE JobsProofs -----------------------------
(***************************************************************************)
(* Workflow jobs, for any number of replicas, jobs and disturbances and    *)
(* any size of the table.                                                  *)
(***************************************************************************)
EXTENDS Jobs, TLAPS

CallRecs == [op : {"idle", "create", "update"}, status : Statuses \cup {"absent"},
             seq : Nat, landed : BOOLEAN]
RowRecs  == [status : Statuses \cup {"absent"}, seq : Nat, stamped : BOOLEAN]
Fetched  == [job : Jobs, status : Statuses, seq : Nat]

\* A job no table, no call, no sweep and no row knows of.
Unknown(j) ==
    /\ row[j].status = "absent"
    /\ \A r \in Replicas :
        /\ byID[r][j].status = "absent"
        /\ calls[r][j].op = "idle"
        /\ \A f \in listing[r] : f.job # j

Waiting(j) == \E r \in Replicas : j \in submitting[r]

\* Before its run is accepted, and until the replica that submitted it has
\* added it, nobody knows of a job.
Unseen ==
    \A j \in Jobs :
        /\ run[j] = "none" \/ Waiting(j) => Unknown(j)
        /\ run[j] = "none" =>
              ~Waiting(j) /\ \A r \in Replicas : \A a \in Askers : asks[r][j][a] = "idle"
        /\ \A r, q \in Replicas : j \in submitting[r] /\ j \in submitting[q] => r = q

\* What a sweep has fetched is something the run has been, too.
FetchedSeen ==
    \A r \in Replicas : \A f \in listing[r] : SeenOf(f.status, run[f.job])

\* A row that exists and has reached sequence n, or can change no more.
Reached(j, n) ==
    row[j].status # "absent" /\ (row[j].seq >= n \/ terminal(row[j].status))

\* Only a call about a job has a status to send; one that landed, and one that
\* updates, has a row; what was fetched has one.
Backed ==
    /\ \A r \in Replicas, j \in Jobs :
        LET c == calls[r][j]
        IN  /\ c.op # "idle" => c.status # "absent"
            /\ c.landed => c.op # "idle"
            /\ c.op = "update" => row[j].status # "absent"
            /\ c.op = "create" => c.seq = 0
            /\ c.landed => Reached(j, c.seq)
    /\ \A r \in Replicas : \A f \in listing[r] : Reached(f.job, f.seq)

\* The inductive invariant.
JobsInv ==
    TypeOK /\ Unseen /\ OrderExact /\ NothingInvented /\ FetchedSeen
        /\ ConfirmedIsThere /\ Backed

-----------------------------------------------------------------------------
(* Statuses.                                                               *)

LEMMA RankValues ==
    /\ \A s \in {"none", "absent", "idle", "asked", "following"} : Rank(s) = 0
    /\ Rank("pending") = 1 /\ Rank("running") = 2
    /\ \A s \in Terminals : Rank(s) = 3
    /\ \A s \in Statuses \cup {"none", "absent", "idle", "asked", "following"} : Rank(s) \in 0..3
BY DEF Rank, Terminals, Statuses

\* What says nothing of a run is true of every run.
LEMMA SilentSeen ==
    ASSUME NEW s \in {"absent", "idle", "asked", "following"},
           NEW t \in Statuses \cup {"none"}
    PROVE  SeenOf(s, t)
BY RankValues DEF SeenOf, terminal, Terminals

\* The status of a run, with its error text or without, is one it has had.
LEMMA RunSeen ==
    ASSUME NEW t \in Statuses
    PROVE  SeenOf(t, t) /\ SeenOf(Bare(t), t)
BY RankValues DEF SeenOf, Bare, Terminals, Statuses

LEMMA PendingSeen ==
    ASSUME NEW t \in Statuses PROVE SeenOf("pending", t)
BY RankValues DEF SeenOf, terminal, Terminals, Statuses

LEMMA BareSeen ==
    ASSUME NEW s \in Statuses, NEW t \in Statuses \cup {"none"}, SeenOf(s, t)
    PROVE  Bare(s) \in Statuses /\ SeenOf(Bare(s), t)
<1>1. CASE s = "failed" BY <1>1, RankValues DEF SeenOf, Bare, terminal, Terminals, Statuses
<1>2. CASE s # "failed" BY <1>2 DEF Bare
<1> QED BY <1>1, <1>2

\* A run only goes on: from not there to pending, from pending to running, and
\* from either to an end.
Onward(t, u) ==
    \/ t = u
    \/ t = "none" /\ u = "pending"
    \/ t = "pending" /\ u = "running"
    \/ t \in {"pending", "running"} /\ u \in Terminals

\* What was true of the run before is true of it after.
LEMMA OnwardSeen ==
    ASSUME NEW s \in Statuses \cup {"absent", "idle", "asked", "following"},
           NEW t \in Statuses \cup {"none"}, NEW u \in Statuses \cup {"none"},
           Onward(t, u), SeenOf(s, t)
    PROVE  SeenOf(s, u)
<1>1. CASE t = u BY <1>1
<1>2. CASE t = "none" /\ u = "pending"
  BY <1>2, RankValues DEF SeenOf, terminal, Terminals, Statuses
<1>3. CASE t = "pending" /\ u = "running"
  BY <1>3, RankValues DEF SeenOf, terminal, Terminals, Statuses
<1>4. CASE t \in {"pending", "running"} /\ u \in Terminals
  BY <1>4, RankValues DEF SeenOf, terminal, Terminals, Statuses
<1> QED BY <1>1, <1>2, <1>3, <1>4 DEF Onward

-----------------------------------------------------------------------------
(* The parts of the invariant, by what a step changes.                     *)

\* A step that submits nothing, and makes no job known that is waiting.
LEMMA UnseenStays ==
    ASSUME Unseen,
           \A j \in Jobs : run'[j] = "none" => run[j] = "none",
           \A r \in Replicas : submitting'[r] \subseteq submitting[r],
           \A j \in Jobs : (run'[j] = "none" \/ Waiting(j)') /\ Unknown(j) => Unknown(j)',
           \A r \in Replicas, j \in Jobs, a \in Askers :
              run[j] = "none" /\ asks[r][j][a] = "idle" => asks'[r][j][a] = "idle"
    PROVE  Unseen'
<1> SUFFICES ASSUME NEW j \in Jobs
             PROVE  /\ run'[j] = "none" \/ Waiting(j)' => Unknown(j)'
                    /\ run'[j] = "none" =>
                          /\ ~Waiting(j)'
                          /\ \A r \in Replicas : \A a \in Askers : asks'[r][j][a] = "idle"
                    /\ \A r, q \in Replicas : j \in submitting'[r] /\ j \in submitting'[q] => r = q
  BY DEF Unseen
<1>1. Waiting(j)' => Waiting(j) BY DEF Waiting
<1>2. run'[j] = "none" \/ Waiting(j)' => Unknown(j)' BY <1>1 DEF Unseen
<1>3. run'[j] = "none" => ~Waiting(j)' /\ \A r \in Replicas : \A a \in Askers : asks'[r][j][a] = "idle"
  BY <1>1 DEF Unseen
<1>4. \A r, q \in Replicas : j \in submitting'[r] /\ j \in submitting'[q] => r = q BY DEF Unseen
<1> QED BY <1>2, <1>3, <1>4

\* The order of a table whose jobs stay the same.
LEMMA OrderStays ==
    ASSUME OrderExact, order' = order,
           \A r \in Replicas, j \in Jobs :
              (byID'[r][j].status = "absent") <=> (byID[r][j].status = "absent")
    PROVE  OrderExact'
BY DEF OrderExact, Held

\* What has been seen stays so when everything new has been seen.
LEMMA SeenStays ==
    ASSUME TypeOK, NothingInvented, FetchedSeen,
           run' \in [Jobs -> Statuses \cup {"none"}],
           \A j \in Jobs : Onward(run[j], run'[j]),
           \A j \in Jobs : row'[j].status = row[j].status \/ SeenOf(row'[j].status, run'[j]),
           \A r \in Replicas, j \in Jobs :
              /\ byID'[r][j].status = byID[r][j].status \/ SeenOf(byID'[r][j].status, run'[j])
              /\ calls'[r][j].status = calls[r][j].status \/ SeenOf(calls'[r][j].status, run'[j])
              /\ \A a \in Askers : asks'[r][j][a] = asks[r][j][a] \/ SeenOf(asks'[r][j][a], run'[j]),
           \A r \in Replicas : \A f \in listing'[r] : f \in listing[r] \/ SeenOf(f.status, run'[f.job])
    PROVE  NothingInvented' /\ FetchedSeen'
<1>0. /\ \A j \in Jobs : run[j] \in Statuses \cup {"none"} /\ run'[j] \in Statuses \cup {"none"}
      /\ \A j \in Jobs : row[j].status \in Statuses \cup {"absent"}
      /\ \A r \in Replicas, j \in Jobs : /\ byID[r][j].status \in Statuses \cup {"absent"}
                                         /\ calls[r][j].status \in Statuses \cup {"absent"}
      /\ \A r \in Replicas, j \in Jobs : \A a \in Askers :
            asks[r][j][a] \in Statuses \cup {"idle", "asked", "following"}
      /\ \A r \in Replicas : \A f \in listing[r] : f.job \in Jobs /\ f.status \in Statuses
  BY DEF TypeOK, Recs
<1>1. ASSUME NEW j \in Jobs PROVE SeenOf(row'[j].status, run'[j])
  BY <1>0, OnwardSeen DEF NothingInvented
<1>2. ASSUME NEW j \in Jobs, NEW r \in Replicas
      PROVE  SeenOf(byID'[r][j].status, run'[j]) /\ SeenOf(calls'[r][j].status, run'[j])
  BY <1>0, OnwardSeen DEF NothingInvented
<1>3. ASSUME NEW j \in Jobs, NEW r \in Replicas, NEW a \in Askers
      PROVE  SeenOf(asks'[r][j][a], run'[j])
  <2>1. SeenOf(asks[r][j][a], run[j]) BY DEF NothingInvented
  <2>2. asks[r][j][a] \in Statuses \cup {"idle", "asked", "following"} BY <1>0
  <2>3. /\ run[j] \in Statuses \cup {"none"} /\ run'[j] \in Statuses \cup {"none"}
        /\ Onward(run[j], run'[j])
    BY <1>0
  <2> DEFINE v == asks[r][j][a]
  <2> HIDE DEF v
  <2>4. v \in Statuses \cup {"absent", "idle", "asked", "following"} /\ SeenOf(v, run[j])
    BY <2>1, <2>2 DEF v
  <2>5. SeenOf(v, run'[j]) BY <2>3, <2>4, OnwardSeen
  <2> QED BY <2>5 DEF v
<1>4. ASSUME NEW r \in Replicas, NEW f \in listing'[r] PROVE SeenOf(f.status, run'[f.job])
  BY <1>0, OnwardSeen DEF FetchedSeen
<1> QED BY <1>1, <1>2, <1>3, <1>4 DEF NothingInvented, FetchedSeen

\* What a row has reached it keeps: the sequence does not fall, an end is not
\* left, and no row goes away.
RowsGrow ==
    \A j \in Jobs : \A n \in Nat : Reached(j, n) => Reached(j, n)'

\* What a call says fits its kind and the row.
CallBacked(c, j) ==
    /\ c.op # "idle" => c.status # "absent"
    /\ c.landed => c.op # "idle"
    /\ c.op = "update" => Reached(j, 0)
    /\ c.op = "create" => c.seq = 0
    /\ c.landed => Reached(j, c.seq)

\* The numbers of the records.
LEMMA Numbers ==
    ASSUME TypeOK
    PROVE  /\ \A r \in Replicas, j \in Jobs : byID[r][j] \in Recs /\ calls[r][j] \in CallRecs
           /\ \A r \in Replicas, j \in Jobs :
                 /\ byID[r][j].pseq \in Nat /\ byID[r][j].seq \in Nat /\ calls[r][j].seq \in Nat
           /\ \A r \in Replicas : \A f \in listing[r] :
                 f \in Fetched /\ f.job \in Jobs /\ f.seq \in Nat /\ f.status \in Statuses
           /\ \A j \in Jobs : row[j] \in RowRecs /\ row[j].seq \in Nat
BY DEF TypeOK, Recs, CallRecs, Fetched, RowRecs

LEMMA BackedCalls ==
    ASSUME TypeOK
    PROVE  /\ Backed <=> /\ \A r \in Replicas, j \in Jobs : CallBacked(calls[r][j], j)
                         /\ \A r \in Replicas : \A f \in listing[r] : Reached(f.job, f.seq)
           /\ ConfirmedIsThere <=> \A r \in Replicas, j \in Jobs :
                                      byID[r][j].persisted => Reached(j, byID[r][j].pseq)
<1>1. \A j \in Jobs : row[j].seq \in Nat BY DEF TypeOK
<1>2. \A j \in Jobs : Reached(j, 0) <=> row[j].status # "absent" BY <1>1 DEF Reached
<1>3. Backed <=> /\ \A r \in Replicas, j \in Jobs : CallBacked(calls[r][j], j)
                 /\ \A r \in Replicas : \A f \in listing[r] : Reached(f.job, f.seq)
  BY <1>2 DEF Backed, CallBacked
<1>4. ConfirmedIsThere <=> \A r \in Replicas, j \in Jobs :
                                byID[r][j].persisted => Reached(j, byID[r][j].pseq)
  BY DEF ConfirmedIsThere, Reached
<1> QED BY <1>3, <1>4

\* What is confirmed, called and fetched stays backed by the rows when
\* everything new is.
LEMMA BackedStays ==
    ASSUME TypeOK, TypeOK', Backed, ConfirmedIsThere, RowsGrow,
           \A r \in Replicas, j \in Jobs :
              \/ byID'[r][j].persisted = byID[r][j].persisted /\ byID'[r][j].pseq = byID[r][j].pseq
              \/ byID'[r][j].persisted => Reached(j, byID[r][j].pseq)',
           \A r \in Replicas, j \in Jobs :
              calls'[r][j] = calls[r][j] \/ CallBacked(calls[r][j], j)',
           \A r \in Replicas : \A f \in listing'[r] : f \in listing[r] \/ Reached(f.job, f.seq)'
    PROVE  ConfirmedIsThere' /\ Backed'
<1>0. /\ \A r \in Replicas, j \in Jobs : byID[r][j].pseq \in Nat /\ calls[r][j].seq \in Nat
      /\ \A r \in Replicas : \A f \in listing[r] : f.job \in Jobs /\ f.seq \in Nat
  BY Numbers
<1>1. ASSUME NEW r \in Replicas, NEW j \in Jobs, byID'[r][j].persisted
      PROVE  Reached(j, byID[r][j].pseq)'
  <2>1. CASE byID'[r][j].persisted = byID[r][j].persisted /\ byID'[r][j].pseq = byID[r][j].pseq
    <3>1. Reached(j, byID[r][j].pseq) BY <1>1, <2>1, BackedCalls
    <3>2. Reached(j, byID[r][j].pseq) => (row'[j].status # "absent"
              /\ (row'[j].seq >= byID[r][j].pseq \/ terminal(row'[j].status)))
      BY <1>0 DEF RowsGrow, Reached
    <3> QED BY <2>1, <3>1, <3>2 DEF Reached
  <2> QED BY <1>1, <2>1
<1>2. ASSUME NEW r \in Replicas, NEW j \in Jobs PROVE CallBacked(calls[r][j], j)'
  <2>1. CASE calls'[r][j] = calls[r][j]
    <3>1. CallBacked(calls[r][j], j) BY BackedCalls
    <3>2. /\ Reached(j, 0) => row'[j].status # "absent" /\ (row'[j].seq >= 0 \/ terminal(row'[j].status))
          /\ Reached(j, calls[r][j].seq) =>
                row'[j].status # "absent" /\ (row'[j].seq >= calls[r][j].seq \/ terminal(row'[j].status))
      BY <1>0 DEF RowsGrow, Reached
    <3> QED BY <2>1, <3>1, <3>2 DEF CallBacked, Reached
  <2> QED BY <2>1
<1>3. ASSUME NEW r \in Replicas, NEW f \in listing'[r] PROVE Reached(f.job, f.seq)'
  <2>1. CASE f \in listing[r]
    <3>1. Reached(f.job, f.seq) BY <2>1, BackedCalls
    <3> QED BY <1>0, <2>1, <3>1 DEF RowsGrow, Reached
  <2> QED BY <2>1
<1>4. ConfirmedIsThere' BY <1>1 DEF ConfirmedIsThere, Reached
<1>5. \A j \in Jobs : Reached(j, 0)' => row'[j].status # "absent" BY DEF Reached
<1>6. Backed' BY <1>2, <1>3, <1>5 DEF Backed, CallBacked, Reached
<1> QED BY <1>4, <1>6

LEMMA RowsSame == ASSUME row' = row PROVE RowsGrow
BY DEF RowsGrow, Reached

-----------------------------------------------------------------------------
(* The table.                                                              *)

\* A table and an order that agree.
Agree(o, t) ==
    /\ Len(o) <= MaxJobs
    /\ \A i \in Jobs : t[i].status # "absent" <=> \E k \in 1..Len(o) : o[k] = i
    /\ \A i, k \in 1..Len(o) : o[i] = o[k] => i = k

\* A table that lost some jobs and got rec for j, if anything.
Grew(r, t, j, rec) ==
    \A i \in Jobs : t[i] \in {byID[r][i], Absent} \/ (i = j /\ t[i] = rec)

\* insertLocked of a job that is not there: the table has it, and loses at most
\* its oldest one; the order stays exact.
LEMMA InsertKeeps ==
    ASSUME TypeOK, OrderExact, NEW r \in Replicas, NEW j \in Jobs, ~Held(r, j),
           NEW rec \in Recs, rec.status # "absent", insertLocked(r, j, rec)
    PROVE  /\ order' \in [Replicas -> Seq(Jobs)] /\ byID' \in [Replicas -> [Jobs -> Recs]]
           /\ OrderExact'
           /\ \A q \in Replicas, i \in Jobs :
                 \/ byID'[q][i] = byID[q][i]
                 \/ byID'[q][i] = Absent
                 \/ q = r /\ i = j /\ byID'[q][i] = rec
<1> DEFINE n == Len(order[r])
           grown == Append(order[r], j)
           kept == [byID[r] EXCEPT ![j] = rec]
<1>1. /\ order[r] \in Seq(Jobs) /\ n \in Nat /\ n <= MaxJobs /\ MaxJobs \in Nat \ {0}
      /\ byID[r] \in [Jobs -> Recs] /\ Absent \in Recs /\ Absent.status = "absent"
  BY JobsAssumption DEF TypeOK, OrderExact, Recs, Absent, Statuses
<1>2. /\ grown \in Seq(Jobs) /\ Len(grown) = n + 1
      /\ \A i \in 1..n : grown[i] = order[r][i]
      /\ grown[n + 1] = j /\ Head(grown) = grown[1]
  BY <1>1
<1>3. kept \in [Jobs -> Recs] /\ \A i \in Jobs : kept[i] = IF i = j THEN rec ELSE byID[r][i]
  BY <1>1
<1>4. /\ \A i \in 1..n : order[r][i] \in Jobs /\ order[r][i] # j
      /\ \A i \in Jobs : byID[r][i].status # "absent" <=> \E k \in 1..n : order[r][k] = i
      /\ \A i, k \in 1..n : order[r][i] = order[r][k] => i = k
  BY <1>1 DEF OrderExact, Held
<1>5. /\ order' = [order EXCEPT ![r] = IF Len(grown) > MaxJobs THEN Tail(grown) ELSE grown]
      /\ byID' = [byID EXCEPT ![r] = IF Len(grown) > MaxJobs THEN [kept EXCEPT ![Head(grown)] = Absent]
                                     ELSE kept]
  BY DEF insertLocked
<1> HIDE DEF grown, kept
<1>8. \A i, k \in 1..(n + 1) : grown[i] = grown[k] => i = k
  <2> SUFFICES ASSUME NEW i \in 1..(n + 1), NEW k \in 1..(n + 1), grown[i] = grown[k] PROVE i = k
    OBVIOUS
  <2>1. \A m \in 1..(n + 1) : m = n + 1 \/ (m \in 1..n /\ grown[m] = order[r][m] /\ grown[m] # j)
    BY <1>1, <1>2, <1>4
  <2>2. CASE i = n + 1 \/ k = n + 1 BY <1>2, <2>1, <2>2
  <2>3. CASE i # n + 1 /\ k # n + 1
    <3>1. i \in 1..n /\ k \in 1..n /\ order[r][i] = order[r][k] BY <2>1, <2>3
    <3> QED BY <1>4, <3>1
  <2> QED BY <2>2, <2>3
<1>6. CASE n = MaxJobs
  <2> DEFINE rest == Tail(grown)
             left == [kept EXCEPT ![Head(grown)] = Absent]
  <2>1. /\ rest \in Seq(Jobs) /\ Len(rest) = n
        /\ \A i \in 1..n : rest[i] = grown[i + 1]
    BY <1>1, <1>2
  <2>2. Head(grown) \in Jobs /\ Head(grown) # j /\ grown[1] = order[r][1] BY <1>1, <1>2, <1>4, <1>6
  <2>3. left \in [Jobs -> Recs] /\ \A i \in Jobs : left[i] = IF i = grown[1] THEN Absent ELSE kept[i]
    BY <1>1, <1>2, <1>3, <2>2
  <2>0. Len(grown) > MaxJobs BY <1>1, <1>2, <1>6
  <2>4. order' = [order EXCEPT ![r] = rest] /\ byID' = [byID EXCEPT ![r] = left]
    BY <1>5, <2>0
  <2> HIDE DEF rest, left
  <2>6. \A i, k \in 1..Len(rest) : rest[i] = rest[k] => i = k
    <3> SUFFICES ASSUME NEW i \in 1..n, NEW k \in 1..n, rest[i] = rest[k] PROVE i = k
      BY <2>1
    <3>1. grown[i + 1] = grown[k + 1] /\ i + 1 \in 1..(n + 1) /\ k + 1 \in 1..(n + 1)
      BY <1>1, <2>1
    <3>2. i + 1 = k + 1 BY <1>8, <3>1
    <3> QED BY <3>2
  <2>7. ASSUME NEW i \in Jobs
        PROVE  left[i].status # "absent" <=> \E k \in 1..Len(rest) : rest[k] = i
    <3>1. ASSUME left[i].status # "absent" PROVE \E k \in 1..Len(rest) : rest[k] = i
      <4>1. i # grown[1] /\ kept[i].status # "absent" BY <1>1, <2>3, <3>1
      <4>2. CASE i = j
        <5>1. n \in 1..Len(rest) /\ rest[n] = j BY <1>1, <1>2, <1>6, <2>1
        <5> QED BY <4>2, <5>1
      <4>3. CASE i # j
        <5>1. PICK k \in 1..n : order[r][k] = i BY <1>3, <1>4, <4>1, <4>3
        <5>2. k # 1 /\ grown[k] = i BY <1>2, <4>1, <5>1
        <5>3. k - 1 \in 1..Len(rest) /\ rest[k - 1] = grown[(k - 1) + 1] BY <1>1, <2>1, <5>1, <5>2
        <5> QED BY <5>2, <5>3
      <4> QED BY <4>2, <4>3
    <3>2. ASSUME NEW k \in 1..Len(rest), rest[k] = i PROVE left[i].status # "absent"
      <4>1. k + 1 \in 2..(n + 1) /\ grown[k + 1] = i BY <1>1, <2>1, <3>2
      <4>2. i # grown[1] BY <1>1, <1>8, <4>1
      <4>3. CASE k + 1 = n + 1 BY <1>2, <1>3, <2>3, <4>1, <4>2, <4>3
      <4>4. CASE k + 1 \in 1..n
        <5>1. order[r][k + 1] = i /\ i # j BY <1>2, <1>4, <4>1, <4>4
        <5>2. byID[r][i].status # "absent" BY <1>4, <4>4, <5>1
        <5> QED BY <1>3, <2>3, <4>2, <5>1, <5>2
      <4> QED BY <1>1, <4>1, <4>3, <4>4
    <3> QED BY <3>1, <3>2
  <2>8. \A i \in Jobs : left[i] \in {byID[r][i], Absent} \/ (i = j /\ left[i] = rec)
    BY <1>3, <2>3
  <2>9. Len(rest) <= MaxJobs BY <1>1, <2>1
  <2>10. Agree(rest, left) BY <2>6, <2>7, <2>9 DEF Agree
  <2>11. Grew(r, left, j, rec) BY <2>8 DEF Grew
  <2>12. rest \in Seq(Jobs) /\ left \in [Jobs -> Recs] BY <2>1, <2>3
  <2>13. /\ order' \in [Replicas -> Seq(Jobs)] /\ byID' \in [Replicas -> [Jobs -> Recs]]
         /\ \A q \in Replicas : /\ order'[q] = IF q = r THEN rest ELSE order[q]
                                /\ byID'[q] = IF q = r THEN left ELSE byID[q]
    BY <2>4, <2>12 DEF TypeOK
  <2>14. OrderExact'
    <3> SUFFICES ASSUME NEW q \in Replicas PROVE Agree(order'[q], byID'[q])
      BY DEF OrderExact, Held, Agree
    <3>1. CASE q = r BY <2>10, <2>13, <3>1
    <3>2. Agree(order[q], byID[q]) BY DEF OrderExact, Held, Agree
    <3>3. CASE q # r BY <2>13, <3>2, <3>3
    <3> QED BY <3>1, <3>3
  <2> QED BY <2>11, <2>13, <2>14 DEF Grew
<1>7. CASE n < MaxJobs
  <2>0. ~(Len(grown) > MaxJobs) BY <1>1, <1>2, <1>7
  <2>1. order' = [order EXCEPT ![r] = grown] /\ byID' = [byID EXCEPT ![r] = kept]
    BY <1>5, <2>0
  <2>2. \A i, k \in 1..Len(grown) : grown[i] = grown[k] => i = k BY <1>2, <1>8
  <2>3. \A i \in Jobs : kept[i].status # "absent" <=> \E k \in 1..Len(grown) : grown[k] = i
    <3> SUFFICES ASSUME NEW i \in Jobs
                 PROVE  kept[i].status # "absent" <=> \E k \in 1..(n + 1) : grown[k] = i
      BY <1>2
    <3>1. CASE i = j BY <1>1, <1>2, <1>3, <3>1
    <3>2. CASE i # j
      <4>1. kept[i].status # "absent" <=> \E k \in 1..n : order[r][k] = i
        BY <1>3, <1>4, <3>2
      <4>2. ASSUME NEW k \in 1..n, order[r][k] = i PROVE \E m \in 1..(n + 1) : grown[m] = i
        BY <1>1, <1>2, <4>2
      <4>3. ASSUME NEW m \in 1..(n + 1), grown[m] = i PROVE \E k \in 1..n : order[r][k] = i
        <5>1. m # n + 1 BY <1>2, <3>2, <4>3
        <5>2. m \in 1..n BY <1>1, <5>1
        <5> QED BY <1>2, <4>3, <5>2
      <4> QED BY <4>1, <4>2, <4>3
    <3> QED BY <3>1, <3>2
  <2>4. \A i \in Jobs : kept[i] \in {byID[r][i], Absent} \/ (i = j /\ kept[i] = rec) BY <1>3
  <2>5. Len(grown) <= MaxJobs BY <1>1, <1>2, <1>7
  <2>6. Agree(grown, kept) BY <2>2, <2>3, <2>5 DEF Agree
  <2>7. Grew(r, kept, j, rec) BY <2>4 DEF Grew
  <2>8. /\ order' \in [Replicas -> Seq(Jobs)] /\ byID' \in [Replicas -> [Jobs -> Recs]]
        /\ \A q \in Replicas : /\ order'[q] = IF q = r THEN grown ELSE order[q]
                               /\ byID'[q] = IF q = r THEN kept ELSE byID[q]
    BY <1>2, <1>3, <2>1 DEF TypeOK
  <2>9. OrderExact'
    <3> SUFFICES ASSUME NEW q \in Replicas PROVE Agree(order'[q], byID'[q])
      BY DEF OrderExact, Held, Agree
    <3>1. CASE q = r BY <2>6, <2>8, <3>1
    <3>2. Agree(order[q], byID[q]) BY DEF OrderExact, Held, Agree
    <3>3. CASE q # r BY <2>8, <3>2, <3>3
    <3> QED BY <3>1, <3>3
  <2> QED BY <2>7, <2>8, <2>9 DEF Grew
<1> QED BY <1>1, <1>6, <1>7

-----------------------------------------------------------------------------
(* The steps.                                                              *)

LEMMA InitHolds == Init => JobsInv
<1> SUFFICES ASSUME Init PROVE JobsInv OBVIOUS
<1>1. Absent \in Recs /\ NoCall \in CallRecs /\ NoRow \in RowRecs
  BY DEF Absent, NoCall, NoRow, Recs, CallRecs, RowRecs
<1>2. TypeOK BY <1>1, JobsAssumption DEF Init, TypeOK, CallRecs, RowRecs
<1>3. Unseen BY DEF Init, Unseen, Waiting, Unknown, Absent, NoCall, NoRow
<1>4. OrderExact BY JobsAssumption DEF Init, OrderExact, Held, Absent
<1>5. NothingInvented /\ FetchedSeen
  BY SilentSeen DEF Init, NothingInvented, FetchedSeen, Absent, NoCall, NoRow
<1>6. ConfirmedIsThere /\ Backed
  BY DEF Init, ConfirmedIsThere, Backed, Absent, NoCall
<1> QED BY <1>2, <1>3, <1>4, <1>5, <1>6 DEF JobsInv

\* The run goes on.
LEMMA RunKeeps ==
    ASSUME JobsInv, NEW j \in Jobs, NEW u \in Statuses, run[j] \in {"pending", "running"},
           Onward(run[j], u), run' = [run EXCEPT ![j] = u],
           UNCHANGED <<submitting, byID, order, asks, calls, listing, row>>,
           disturbances' \in 0..MaxDisturbances
    PROVE  JobsInv'
<1>0. TypeOK /\ Unseen /\ OrderExact /\ NothingInvented /\ FetchedSeen /\ ConfirmedIsThere /\ Backed
  BY DEF JobsInv
<1>1. /\ run' \in [Jobs -> Statuses \cup {"none"}]
      /\ \A i \in Jobs : run'[i] = IF i = j THEN u ELSE run[i]
  BY <1>0 DEF TypeOK
<1>2. TypeOK' BY <1>0, <1>1 DEF TypeOK
<1>3. Unseen'
  <2>1. \A i \in Jobs : run'[i] = "none" => run[i] = "none" BY <1>1 DEF Statuses, Terminals
  <2> QED BY <1>0, <2>1, UnseenStays DEF Unknown
<1>4. OrderExact' BY <1>0, OrderStays
<1>5. NothingInvented' /\ FetchedSeen'
  <2>1. \A i \in Jobs : Onward(run[i], run'[i]) BY <1>1 DEF Onward
  <2> QED BY <1>0, <1>1, <2>1, SeenStays
<1>6. ConfirmedIsThere' /\ Backed' BY <1>0, <1>2, RowsSame, BackedStays
<1> QED BY <1>2, <1>3, <1>4, <1>5, <1>6 DEF JobsInv

LEMMA DisturbTyped == ASSUME TypeOK, Disturb PROVE disturbances' \in 0..MaxDisturbances
BY JobsAssumption DEF TypeOK, Disturb

LEMMA RunsKeep ==
    ASSUME JobsInv, NEW j \in Jobs,
           RunStarts(j) \/ RunEnds(j) \/ \E r \in Replicas : CancelWorkflow(r, j)
    PROVE  JobsInv'
<1>0. TypeOK BY DEF JobsInv
<1>1. disturbances \in 0..MaxDisturbances BY <1>0 DEF TypeOK
<1>2. CASE RunStarts(j)
  <2>1. Onward(run[j], "running") /\ "running" \in Statuses BY <1>2 DEF RunStarts, Onward, Statuses
  <2> QED BY <1>1, <1>2, <2>1, RunKeeps DEF RunStarts
<1>3. CASE RunEnds(j)
  <2>1. PICK o \in Outcomes : run' = [run EXCEPT ![j] = o] BY <1>3 DEF RunEnds
  <2>2. o \in Terminals /\ o \in Statuses BY JobsAssumption DEF Terminals, Statuses
  <2>3. Onward(run[j], o) BY <1>3, <2>2 DEF RunEnds, Onward
  <2> QED BY <1>1, <1>3, <2>1, <2>2, <2>3, RunKeeps DEF RunEnds
<1>4. ASSUME NEW r \in Replicas, CancelWorkflow(r, j) PROVE JobsInv'
  <2>1. Onward(run[j], "cancelled") /\ "cancelled" \in Statuses
    BY <1>4 DEF CancelWorkflow, Onward, Statuses, Terminals
  <2>2. disturbances' \in 0..MaxDisturbances BY <1>0, <1>4, DisturbTyped DEF CancelWorkflow
  <2> QED BY <1>4, <2>1, <2>2, RunKeeps DEF CancelWorkflow
<1> QED BY <1>2, <1>3, <1>4

\* The backend takes a run nobody knew of.
LEMMA SubmitKeeps ==
    ASSUME JobsInv, NEW r \in Replicas, NEW j \in Jobs, SubmitWorkflow(r, j)
    PROVE  JobsInv'
<1>0. TypeOK /\ Unseen /\ OrderExact /\ NothingInvented /\ FetchedSeen /\ ConfirmedIsThere /\ Backed
  BY DEF JobsInv
<1>1. /\ run[j] = "none" /\ run' = [run EXCEPT ![j] = "pending"]
      /\ submitting' = [submitting EXCEPT ![r] = @ \cup {j}]
      /\ UNCHANGED <<byID, order, asks, calls, listing, row, disturbances>>
  BY DEF SubmitWorkflow
<1>2. /\ run' \in [Jobs -> Statuses \cup {"none"}] /\ submitting' \in [Replicas -> SUBSET Jobs]
      /\ \A i \in Jobs : run'[i] = IF i = j THEN "pending" ELSE run[i]
      /\ \A q \in Replicas : submitting'[q] = IF q = r THEN submitting[q] \cup {j} ELSE submitting[q]
  BY <1>0, <1>1 DEF TypeOK, Statuses
<1>3. TypeOK' BY <1>0, <1>1, <1>2 DEF TypeOK
<1>4. Unseen'
  <2>1. \A i \in Jobs : Unknown(i)' <=> Unknown(i) BY <1>1 DEF Unknown
  <2>2. Unknown(j) /\ ~Waiting(j) BY <1>0, <1>1 DEF Unseen
  <2>3. \A i \in Jobs : i # j => (Waiting(i)' <=> Waiting(i)) BY <1>2 DEF Waiting
  <2>4. \A i \in Jobs : run'[i] = "none" \/ Waiting(i)' => Unknown(i)'
    BY <1>0, <1>2, <2>1, <2>2, <2>3 DEF Unseen
  <2>5. \A i \in Jobs : run'[i] = "none" =>
            ~Waiting(i)' /\ \A q \in Replicas : \A a \in Askers : asks'[q][i][a] = "idle"
    BY <1>0, <1>1, <1>2, <2>3 DEF Unseen
  <2>6. \A i \in Jobs : \A p, q \in Replicas : i \in submitting'[p] /\ i \in submitting'[q] => p = q
    BY <1>0, <1>2, <2>2 DEF Unseen, Waiting
  <2> QED BY <2>4, <2>5, <2>6 DEF Unseen
<1>5. OrderExact' BY <1>0, <1>1, OrderStays
<1>6. NothingInvented' /\ FetchedSeen'
  <2>1. \A i \in Jobs : Onward(run[i], run'[i]) BY <1>1, <1>2 DEF Onward
  <2> QED BY <1>0, <1>1, <1>2, <2>1, SeenStays
<1>7. ConfirmedIsThere' /\ Backed' BY <1>0, <1>1, <1>3, RowsSame, BackedStays
<1> QED BY <1>3, <1>4, <1>5, <1>6, <1>7 DEF JobsInv

\* The replica that submitted it adds the job, which no table has yet.
LEMMA addKeeps ==
    ASSUME JobsInv, NEW r \in Replicas, NEW j \in Jobs, add(r, j)
    PROVE  JobsInv'
<1>0. TypeOK /\ Unseen /\ OrderExact /\ NothingInvented /\ FetchedSeen /\ ConfirmedIsThere /\ Backed
  BY DEF JobsInv
<1> DEFINE rec == [Absent EXCEPT !.status = "pending"]
<1>1. /\ j \in submitting[r] /\ submitting' = [submitting EXCEPT ![r] = @ \ {j}]
      /\ insertLocked(r, j, rec)
      /\ UNCHANGED <<run, asks, calls, listing, row, disturbances>>
  BY DEF add
<1>2. rec \in Recs /\ rec.status = "pending" /\ rec.persisted = FALSE BY DEF Absent, Recs, Statuses
<1>3. Absent.status = "absent" /\ Absent.persisted = FALSE BY DEF Absent
<1> HIDE DEF rec
<1>4. Waiting(j) /\ Unknown(j) /\ run[j] # "none" BY <1>0, <1>1 DEF Unseen, Waiting
<1>5. ~Held(r, j) BY <1>4 DEF Unknown, Held
<1>6. /\ order' \in [Replicas -> Seq(Jobs)] /\ byID' \in [Replicas -> [Jobs -> Recs]]
      /\ OrderExact'
      /\ \A q \in Replicas, i \in Jobs : \/ byID'[q][i] = byID[q][i]
                                         \/ byID'[q][i] = Absent
                                         \/ q = r /\ i = j /\ byID'[q][i] = rec
  BY <1>0, <1>1, <1>2, <1>5, InsertKeeps
<1>7. /\ submitting' \in [Replicas -> SUBSET Jobs]
      /\ \A q \in Replicas : submitting'[q] = IF q = r THEN submitting[q] \ {j} ELSE submitting[q]
  BY <1>0, <1>1 DEF TypeOK
<1>8. TypeOK' BY <1>0, <1>1, <1>6, <1>7 DEF TypeOK
<1>9. Unseen'
  <2>1. ~Waiting(j)' BY <1>0, <1>1, <1>7 DEF Unseen, Waiting
  <2>2. \A i \in Jobs : i # j /\ Unknown(i) => Unknown(i)' BY <1>1, <1>3, <1>6 DEF Unknown
  <2> QED BY <1>0, <1>1, <1>4, <1>7, <2>1, <2>2, UnseenStays
<1>10. NothingInvented' /\ FetchedSeen'
  <2>1. \A i \in Jobs : run[i] \in Statuses \cup {"none"} BY <1>0 DEF TypeOK
  <2>2. SeenOf("pending", run[j]) BY <1>4, <2>1, PendingSeen
  <2>3. \A i \in Jobs : SeenOf("absent", run[i]) BY <2>1, SilentSeen
  <2>4. \A q \in Replicas, i \in Jobs :
            byID'[q][i].status = byID[q][i].status \/ SeenOf(byID'[q][i].status, run'[i])
    BY <1>1, <1>2, <1>3, <1>6, <2>2, <2>3
  <2>5. \A i \in Jobs : Onward(run[i], run'[i]) BY <1>1 DEF Onward
  <2> QED BY <1>0, <1>1, <1>8, <2>4, <2>5, SeenStays DEF TypeOK
<1>11. ConfirmedIsThere' /\ Backed'
  <2>1. \A q \in Replicas, i \in Jobs : byID'[q][i] = byID[q][i] \/ ~byID'[q][i].persisted
    BY <1>2, <1>3, <1>6
  <2> QED BY <1>0, <1>1, <1>8, <2>1, RowsSame, BackedStays
<1> QED BY <1>6, <1>8, <1>9, <1>10, <1>11 DEF JobsInv

\* A replica forgets everything.
LEMMA RestartKeeps ==
    ASSUME JobsInv, NEW r \in Replicas, Restart(r)
    PROVE  JobsInv'
<1>0. TypeOK /\ Unseen /\ OrderExact /\ NothingInvented /\ FetchedSeen /\ ConfirmedIsThere /\ Backed
  BY DEF JobsInv
<1> DEFINE none == [j \in Jobs |-> Absent]
           still == [j \in Jobs |-> [a \in Askers |-> "idle"]]
           quiet == [j \in Jobs |-> NoCall]
<1>1. /\ submitting' = [submitting EXCEPT ![r] = {}] /\ byID' = [byID EXCEPT ![r] = none]
      /\ order' = [order EXCEPT ![r] = << >>] /\ asks' = [asks EXCEPT ![r] = still]
      /\ calls' = [calls EXCEPT ![r] = quiet] /\ listing' = [listing EXCEPT ![r] = {}]
      /\ UNCHANGED <<run, row>>
  BY DEF Restart
<1>2. disturbances' \in 0..MaxDisturbances BY <1>0, DisturbTyped DEF Restart
<1>3. /\ \A j \in Jobs : none[j] = Absent /\ quiet[j] = NoCall /\ \A a \in Askers : still[j][a] = "idle"
      /\ Absent \in Recs /\ NoCall \in CallRecs
      /\ Absent.status = "absent" /\ Absent.persisted = FALSE
      /\ NoCall.op = "idle" /\ NoCall.status = "absent" /\ NoCall.landed = FALSE
  BY DEF Absent, NoCall, Recs, CallRecs
<1>4. /\ none \in [Jobs -> Recs] /\ quiet \in [Jobs -> CallRecs]
      /\ still \in [Jobs -> [Askers -> Statuses \cup {"idle", "asked", "following"}]]
      /\ << >> \in Seq(Jobs) /\ Len(<< >>) = 0
  BY <1>3
<1> HIDE DEF none, still, quiet
<1>5. TypeOK'
  BY <1>0, <1>1, <1>2, <1>4 DEF TypeOK, CallRecs
<1>6. \A q \in Replicas :
        /\ submitting'[q] = IF q = r THEN {} ELSE submitting[q]
        /\ byID'[q] = IF q = r THEN none ELSE byID[q]
        /\ order'[q] = IF q = r THEN << >> ELSE order[q]
        /\ asks'[q] = IF q = r THEN still ELSE asks[q]
        /\ calls'[q] = IF q = r THEN quiet ELSE calls[q]
        /\ listing'[q] = IF q = r THEN {} ELSE listing[q]
  BY <1>0, <1>1 DEF TypeOK
<1>7. Unseen'
  <2>1. \A i \in Jobs : Unknown(i) => Unknown(i)' BY <1>1, <1>3, <1>6 DEF Unknown
  <2>2. \A q \in Replicas : submitting'[q] \subseteq submitting[q] BY <1>6
  <2>3. \A q \in Replicas, j \in Jobs, a \in Askers : asks[q][j][a] = "idle" => asks'[q][j][a] = "idle"
    BY <1>3, <1>6
  <2> QED BY <1>0, <1>1, <2>1, <2>2, <2>3, UnseenStays
<1>8. OrderExact'
  <2> SUFFICES ASSUME NEW q \in Replicas PROVE Agree(order'[q], byID'[q])
    BY DEF OrderExact, Held, Agree
  <2>1. CASE q = r
    <3>1. Agree(<< >>, none) BY <1>3, <1>4, JobsAssumption DEF Agree
    <3> QED BY <1>6, <2>1, <3>1
  <2>2. Agree(order[q], byID[q]) BY <1>0 DEF OrderExact, Held, Agree
  <2>3. CASE q # r BY <1>6, <2>2, <2>3
  <2> QED BY <2>1, <2>3
<1>9. NothingInvented' /\ FetchedSeen'
  <2>1. \A i \in Jobs : run[i] \in Statuses \cup {"none"} BY <1>0 DEF TypeOK
  <2>2. \A i \in Jobs : SeenOf("absent", run[i]) /\ SeenOf("idle", run[i]) BY <2>1, SilentSeen
  <2>3. \A q \in Replicas, i \in Jobs :
            /\ byID'[q][i].status = byID[q][i].status \/ SeenOf(byID'[q][i].status, run'[i])
            /\ calls'[q][i].status = calls[q][i].status \/ SeenOf(calls'[q][i].status, run'[i])
            /\ \A a \in Askers : asks'[q][i][a] = asks[q][i][a] \/ SeenOf(asks'[q][i][a], run'[i])
    BY <1>1, <1>3, <1>6, <2>2
  <2>4. \A q \in Replicas : \A f \in listing'[q] : f \in listing[q] BY <1>6
  <2>5. \A i \in Jobs : Onward(run[i], run'[i]) BY <1>1 DEF Onward
  <2> QED BY <1>0, <1>1, <1>5, <2>3, <2>4, <2>5, SeenStays DEF TypeOK
<1>10. ConfirmedIsThere' /\ Backed'
  <2>1. \A q \in Replicas, i \in Jobs : byID'[q][i] = byID[q][i] \/ ~byID'[q][i].persisted
    BY <1>3, <1>6
  <2>2. \A q \in Replicas, i \in Jobs : calls'[q][i] = calls[q][i] \/ CallBacked(calls[q][i], i)'
    BY <1>3, <1>6 DEF CallBacked
  <2>3. \A q \in Replicas : \A f \in listing'[q] : f \in listing[q] BY <1>6
  <2> QED BY <1>0, <1>1, <1>5, <2>1, <2>2, <2>3, RowsSame, BackedStays
<1> QED BY <1>5, <1>7, <1>8, <1>9, <1>10 DEF JobsInv

\* One answer slot changes, to something true of the run.
LEMMA AsksKeep ==
    ASSUME JobsInv, NEW r \in Replicas, NEW j \in Jobs, NEW a \in Askers,
           NEW v \in Statuses \cup {"idle", "asked", "following"},
           asks' = [asks EXCEPT ![r][j][a] = v],
           v = "idle" \/ run[j] # "none", SeenOf(v, run[j]),
           UNCHANGED <<run, submitting, byID, order, calls, listing, row>>,
           disturbances' \in 0..MaxDisturbances
    PROVE  JobsInv'
<1>0. TypeOK /\ Unseen /\ OrderExact /\ NothingInvented /\ FetchedSeen /\ ConfirmedIsThere /\ Backed
  BY DEF JobsInv
<1>1. /\ asks' \in [Replicas -> [Jobs -> [Askers -> Statuses \cup {"idle", "asked", "following"}]]]
      /\ \A q \in Replicas, i \in Jobs, b \in Askers :
            asks'[q][i][b] = IF q = r /\ i = j /\ b = a THEN v ELSE asks[q][i][b]
  BY <1>0 DEF TypeOK
<1>2. TypeOK' BY <1>0, <1>1 DEF TypeOK
<1>3. Unseen'
  <2>1. \A i \in Jobs : Unknown(i) => Unknown(i)' BY DEF Unknown
  <2> QED BY <1>0, <1>1, <2>1, UnseenStays
<1>4. OrderExact' BY <1>0, OrderStays
<1>5. NothingInvented' /\ FetchedSeen'
  <2>1. \A i \in Jobs : Onward(run[i], run'[i]) BY DEF Onward
  <2>2. \A q \in Replicas, i \in Jobs : \A b \in Askers :
            asks'[q][i][b] = asks[q][i][b] \/ SeenOf(asks'[q][i][b], run'[i])
    BY <1>1
  <2> QED BY <1>0, <1>2, <2>1, <2>2, SeenStays DEF TypeOK
<1>6. ConfirmedIsThere' /\ Backed' BY <1>0, <1>2, RowsSame, BackedStays
<1> QED BY <1>2, <1>3, <1>4, <1>5, <1>6 DEF JobsInv

\* A held job has a run.
LEMMA HeldRuns ==
    ASSUME Unseen, NEW r \in Replicas, NEW j \in Jobs, Held(r, j)
    PROVE  run[j] # "none"
BY DEF Unseen, Unknown, Held

LEMMA ObserveKeeps ==
    ASSUME JobsInv, NEW r \in Replicas, NEW j \in Jobs,
           \/ jobStatus(r, j) \/ jobEvents(r, j) \/ syncOne(r, j)
           \/ \E a \in Askers : NodeAnswers(r, j, a) \/ AskFails(r, j, a)
    PROVE  JobsInv'
<1>0. TypeOK /\ Unseen BY DEF JobsInv
<1>1. /\ run[j] \in Statuses \cup {"none"} /\ disturbances \in 0..MaxDisturbances
      /\ "caller" \in Askers /\ "sync" \in Askers
  BY <1>0 DEF TypeOK, Askers
<1>2. ASSUME NEW a \in Askers, NEW how \in {"asked", "following"}, Ask(r, j, a, how),
             disturbances' \in 0..MaxDisturbances
      PROVE  JobsInv'
  <2>1. run[j] # "none" BY <1>0, <1>2, HeldRuns DEF Ask
  <2>2. SeenOf(how, run[j]) BY <1>1, SilentSeen
  <2> QED BY <1>2, <2>1, <2>2, AsksKeep DEF Ask
<1>3. CASE syncOne(r, j) BY <1>1, <1>2, <1>3 DEF syncOne
<1>4. CASE jobStatus(r, j) BY <1>0, <1>1, <1>2, <1>4, DisturbTyped DEF jobStatus
<1>5. CASE jobEvents(r, j) BY <1>0, <1>1, <1>2, <1>5, DisturbTyped DEF jobEvents
<1>6. ASSUME NEW a \in Askers, NodeAnswers(r, j, a) PROVE JobsInv'
  <2>1. run[j] # "none" /\ run[j] \in Statuses BY <1>0, <1>1, <1>6 DEF Unseen, NodeAnswers
  <2>2. SeenOf(run[j], run[j]) /\ SeenOf(Bare(run[j]), run[j]) BY <2>1, RunSeen
  <2>3. Bare(run[j]) \in Statuses BY <2>1 DEF Bare, Statuses, Terminals
  <2>4. UNCHANGED <<run, submitting, byID, order, calls, listing, row, disturbances>>
    BY <1>6 DEF NodeAnswers
  <2>5. asks' = [asks EXCEPT ![r][j][a] = run[j]] \/ asks' = [asks EXCEPT ![r][j][a] = Bare(run[j])]
    BY <1>6 DEF NodeAnswers
  <2>6. CASE asks' = [asks EXCEPT ![r][j][a] = run[j]]
    BY <1>1, <2>1, <2>2, <2>4, <2>6, AsksKeep
  <2>7. CASE asks' = [asks EXCEPT ![r][j][a] = Bare(run[j])]
    BY <1>1, <2>1, <2>2, <2>3, <2>4, <2>7, AsksKeep
  <2> QED BY <2>5, <2>6, <2>7
<1>7. ASSUME NEW a \in Askers, AskFails(r, j, a) PROVE JobsInv'
  <2>1. SeenOf("idle", run[j]) BY <1>1, SilentSeen
  <2>2. disturbances' \in 0..MaxDisturbances BY <1>0, <1>7, DisturbTyped DEF AskFails
  <2> QED BY <1>7, <2>1, <2>2, AsksKeep DEF AskFails
<1> QED BY <1>3, <1>4, <1>5, <1>6, <1>7

\* update keeps what was confirmed.
LEMMA Updated ==
    ASSUME NEW rec \in Recs, NEW v \in Statuses
    PROVE  LET new == update(rec, v)
           IN  /\ new \in Recs /\ new.persisted = rec.persisted /\ new.pseq = rec.pseq
               /\ new.status = IF rec.status = "absent" THEN "absent" ELSE v
<1>1. CASE rec.status = "absent" BY <1>1 DEF update, Recs
<1>2. CASE rec.status # "absent"
  <2> DEFINE n == IF rec.status = v THEN rec.seq ELSE rec.seq + 1
  <2>1. n \in Nat BY DEF Recs
  <2>2. update(rec, v) = [rec EXCEPT !.status = v, !.seq = n] BY <1>2 DEF update
  <2> HIDE DEF n
  <2> QED BY <1>2, <2>1, <2>2 DEF Recs
<1> QED BY <1>1, <1>2

\* An answer reaches the table, whatever that says by then.
LEMMA ApplyKeeps ==
    ASSUME JobsInv, NEW r \in Replicas, NEW j \in Jobs, NEW a \in Askers, Apply(r, j, a)
    PROVE  JobsInv'
<1>0. TypeOK /\ Unseen /\ OrderExact /\ NothingInvented /\ FetchedSeen /\ ConfirmedIsThere /\ Backed
  BY DEF JobsInv
<1> DEFINE v == asks[r][j][a]
           new == update(byID[r][j], v)
<1>1. /\ v \in Statuses /\ byID' = [byID EXCEPT ![r][j] = new]
      /\ asks' = [asks EXCEPT ![r][j][a] = "idle"]
      /\ UNCHANGED <<run, submitting, order, calls, listing, row, disturbances>>
  BY DEF Apply
<1>2. byID[r][j] \in Recs BY <1>0, Numbers
<1>3. /\ new \in Recs /\ new.persisted = byID[r][j].persisted /\ new.pseq = byID[r][j].pseq
      /\ new.status = IF byID[r][j].status = "absent" THEN "absent" ELSE v
  BY <1>1, <1>2, Updated
<1> HIDE DEF v, new
<1>4. /\ byID' \in [Replicas -> [Jobs -> Recs]]
      /\ \A q \in Replicas, i \in Jobs : byID'[q][i] = IF q = r /\ i = j THEN new ELSE byID[q][i]
  BY <1>0, <1>1, <1>3 DEF TypeOK
<1>5. /\ asks' \in [Replicas -> [Jobs -> [Askers -> Statuses \cup {"idle", "asked", "following"}]]]
      /\ \A q \in Replicas, i \in Jobs, b \in Askers :
            asks'[q][i][b] = IF q = r /\ i = j /\ b = a THEN "idle" ELSE asks[q][i][b]
  BY <1>0, <1>1 DEF TypeOK
<1>6. TypeOK' BY <1>0, <1>1, <1>4, <1>5 DEF TypeOK
<1>7. \A q \in Replicas, i \in Jobs : (byID'[q][i].status = "absent") <=> (byID[q][i].status = "absent")
  BY <1>1, <1>3, <1>4 DEF Statuses, Terminals
<1>8. Unseen'
  <2>1. \A i \in Jobs : Unknown(i) => Unknown(i)' BY <1>1, <1>7 DEF Unknown
  <2> QED BY <1>0, <1>1, <1>5, <2>1, UnseenStays
<1>9. OrderExact' BY <1>0, <1>1, <1>7, OrderStays
<1>10. NothingInvented' /\ FetchedSeen'
  <2>1. run[j] \in Statuses \cup {"none"} BY <1>0 DEF TypeOK
  <2>2. SeenOf("idle", run[j]) /\ SeenOf(v, run[j]) BY <1>0, <2>1, SilentSeen DEF NothingInvented, v
  <2>3. \A q \in Replicas, i \in Jobs :
            /\ byID'[q][i].status = byID[q][i].status \/ SeenOf(byID'[q][i].status, run'[i])
            /\ \A b \in Askers : asks'[q][i][b] = asks[q][i][b] \/ SeenOf(asks'[q][i][b], run'[i])
    BY <1>1, <1>3, <1>4, <1>5, <2>2
  <2>4. \A i \in Jobs : Onward(run[i], run'[i]) BY <1>1 DEF Onward
  <2> QED BY <1>0, <1>1, <1>6, <2>3, <2>4, SeenStays DEF TypeOK
<1>11. ConfirmedIsThere' /\ Backed'
  <2>1. \A q \in Replicas, i \in Jobs :
            byID'[q][i].persisted = byID[q][i].persisted /\ byID'[q][i].pseq = byID[q][i].pseq
    BY <1>3, <1>4
  <2> QED BY <1>0, <1>1, <1>6, <2>1, RowsSame, BackedStays
<1> QED BY <1>6, <1>8, <1>9, <1>10, <1>11 DEF JobsInv

\* The call made for a record is typed, and says what the record says.
LEMMA CallMade ==
    ASSUME JobsInv, NEW rec \in Recs, NEW j \in Jobs, rec.status # "absent",
           SeenOf(rec.status, run[j]), rec.persisted => Reached(j, 0)
    PROVE  LET c == CallFor(rec)
           IN  /\ c \in CallRecs /\ CallBacked(c, j) /\ SeenOf(c.status, run[j])
<1>0. TypeOK BY DEF JobsInv
<1>1. run[j] \in Statuses \cup {"none"} /\ rec.status \in Statuses /\ rec.seq \in Nat
  BY <1>0 DEF TypeOK, Recs
<1>2. Bare(rec.status) \in Statuses /\ SeenOf(Bare(rec.status), run[j]) BY <1>1, BareSeen
<1>3. "absent" \notin Statuses BY DEF Statuses, Terminals
<1>4. CASE ~rec.persisted BY <1>2, <1>3, <1>4 DEF CallFor, CallRecs, CallBacked
<1>5. CASE rec.persisted BY <1>1, <1>3, <1>5 DEF CallFor, CallRecs, CallBacked
<1> QED BY <1>4, <1>5

\* One call changes, to one that fits, and the record of its job to one that is
\* as much confirmed as the row allows.
LEMMA CallsKeep ==
    ASSUME JobsInv, NEW r \in Replicas, NEW j \in Jobs, NEW c \in CallRecs,
           NEW rec \in Recs, rec.status = byID[r][j].status,
           \/ rec.persisted = byID[r][j].persisted /\ rec.pseq = byID[r][j].pseq
           \/ rec.persisted => Reached(j, rec.pseq),
           calls' = [calls EXCEPT ![r][j] = c], byID' = [byID EXCEPT ![r][j] = rec],
           c.op # "idle" => Held(r, j) \/ calls[r][j].op # "idle",
           CallBacked(c, j), SeenOf(c.status, run[j]),
           UNCHANGED <<run, submitting, order, asks, listing, row>>,
           disturbances' \in 0..MaxDisturbances
    PROVE  JobsInv'
<1>0. TypeOK /\ Unseen /\ OrderExact /\ NothingInvented /\ FetchedSeen /\ ConfirmedIsThere /\ Backed
  BY DEF JobsInv
<1>1. /\ calls' \in [Replicas -> [Jobs -> CallRecs]]
      /\ \A q \in Replicas, i \in Jobs : calls'[q][i] = IF q = r /\ i = j THEN c ELSE calls[q][i]
  BY <1>0 DEF TypeOK, CallRecs
<1>2. /\ byID' \in [Replicas -> [Jobs -> Recs]]
      /\ \A q \in Replicas, i \in Jobs : byID'[q][i] = IF q = r /\ i = j THEN rec ELSE byID[q][i]
  BY <1>0 DEF TypeOK
<1>3. TypeOK' BY <1>0, <1>1, <1>2 DEF TypeOK, CallRecs
<1>4. \A q \in Replicas, i \in Jobs : byID'[q][i].status = byID[q][i].status BY <1>2
<1>5. Unseen'
  <2>1. \A i \in Jobs : Unknown(i) => Unknown(i)'
    <3> SUFFICES ASSUME NEW i \in Jobs, Unknown(i) PROVE Unknown(i)' OBVIOUS
    <3>1. i = j => c.op = "idle" BY DEF Unknown, Held
    <3> QED BY <1>1, <1>4, <3>1 DEF Unknown
  <2> QED BY <1>0, <2>1, UnseenStays
<1>6. OrderExact' BY <1>0, <1>4, OrderStays
<1>7. NothingInvented' /\ FetchedSeen'
  <2>1. \A i \in Jobs : Onward(run[i], run'[i]) BY DEF Onward
  <2>2. \A q \in Replicas, i \in Jobs :
            calls'[q][i].status = calls[q][i].status \/ SeenOf(calls'[q][i].status, run'[i])
    BY <1>1
  <2> QED BY <1>0, <1>3, <1>4, <2>1, <2>2, SeenStays DEF TypeOK
<1>8. ConfirmedIsThere' /\ Backed'
  <2>1. \A i \in Jobs : \A n : Reached(i, n) <=> (row'[i].status # "absent"
            /\ (row'[i].seq >= n \/ terminal(row'[i].status)))
    BY DEF Reached
  <2>2. \A q \in Replicas, i \in Jobs :
            \/ byID'[q][i].persisted = byID[q][i].persisted /\ byID'[q][i].pseq = byID[q][i].pseq
            \/ byID'[q][i].persisted => Reached(i, byID[q][i].pseq)'
    BY <1>2, <2>1 DEF Reached
  <2>3. \A q \in Replicas, i \in Jobs : calls'[q][i] = calls[q][i] \/ CallBacked(calls[q][i], i)'
    BY <1>1, <2>1 DEF CallBacked, Reached
  <2> QED BY <1>0, <1>3, <2>2, <2>3, RowsSame, BackedStays
<1> QED BY <1>3, <1>5, <1>6, <1>7, <1>8 DEF JobsInv

LEMMA NoCallFits ==
    ASSUME TypeOK, NEW j \in Jobs
    PROVE  /\ NoCall \in CallRecs /\ NoCall.op = "idle"
           /\ CallBacked(NoCall, j) /\ SeenOf(NoCall.status, run[j])
<1>1. NoCall \in CallRecs /\ NoCall.op = "idle" /\ ~NoCall.landed /\ NoCall.status = "absent"
  BY DEF NoCall, CallRecs
<1>2. run[j] \in Statuses \cup {"none"} BY DEF TypeOK
<1>3. SeenOf("absent", run[j]) BY <1>2, SilentSeen
<1>4. CallBacked(NoCall, j) BY <1>1 DEF CallBacked
<1> QED BY <1>1, <1>3, <1>4

\* A cell that is set to what it is.
LEMMA SameCell ==
    ASSUME TypeOK, NEW r \in Replicas, NEW j \in Jobs
    PROVE  byID = [byID EXCEPT ![r][j] = byID[r][j]]
BY DEF TypeOK

LEMMA PersistStartsKeeps ==
    ASSUME JobsInv, NEW r \in Replicas, NEW j \in Jobs, PersistStarts(r, j)
    PROVE  JobsInv'
<1>0. TypeOK /\ Unseen /\ OrderExact /\ NothingInvented /\ FetchedSeen /\ ConfirmedIsThere /\ Backed
  BY DEF JobsInv
<1> DEFINE rec == byID[r][j]
           c == CallFor(rec)
<1>1. /\ Held(r, j) /\ calls' = [calls EXCEPT ![r][j] = c]
      /\ UNCHANGED <<run, submitting, byID, order, asks, listing, row, disturbances>>
  BY DEF PersistStarts
<1>2. rec \in Recs /\ rec.status # "absent" BY <1>0, <1>1, Numbers DEF Held
<1>3. SeenOf(rec.status, run[j]) BY <1>0 DEF NothingInvented
<1>4. rec.persisted => Reached(j, 0) BY <1>0, Numbers DEF ConfirmedIsThere, Reached
<1>5. c \in CallRecs /\ CallBacked(c, j) /\ SeenOf(c.status, run[j]) BY <1>2, <1>3, <1>4, CallMade
<1>6. byID' = [byID EXCEPT ![r][j] = rec] BY <1>0, <1>1, SameCell
<1>7. disturbances' \in 0..MaxDisturbances BY <1>0, <1>1 DEF TypeOK
<1> HIDE DEF c
<1> QED BY <1>1, <1>2, <1>5, <1>6, <1>7, CallsKeep

LEMMA CallFailsKeeps ==
    ASSUME JobsInv, NEW r \in Replicas, NEW j \in Jobs, CallFails(r, j)
    PROVE  JobsInv'
<1>0. TypeOK /\ Unseen /\ OrderExact /\ NothingInvented /\ FetchedSeen /\ ConfirmedIsThere /\ Backed
  BY DEF JobsInv
<1>1. /\ calls' = [calls EXCEPT ![r][j] = NoCall]
      /\ UNCHANGED <<run, submitting, byID, order, asks, listing, row>>
  BY DEF CallFails
<1>2. disturbances' \in 0..MaxDisturbances BY <1>0, DisturbTyped DEF CallFails
<1>3. byID' = [byID EXCEPT ![r][j] = byID[r][j]] BY <1>0, <1>1, SameCell
<1>4. byID[r][j] \in Recs BY <1>0, Numbers
<1>5. /\ NoCall \in CallRecs /\ NoCall.op = "idle"
      /\ CallBacked(NoCall, j) /\ SeenOf(NoCall.status, run[j])
  BY <1>0, NoCallFits
<1> QED BY <1>1, <1>2, <1>3, <1>4, <1>5, CallsKeep

\* What a confirmation makes of a record.
LEMMA Confirms ==
    ASSUME NEW rec \in Recs, NEW c \in CallRecs, c.op # "idle", c.op = "create" => c.seq = 0
    PROVE  LET new == Confirmed(rec, c)
           IN  /\ new \in Recs /\ new.status = rec.status /\ new.seq = rec.seq
               /\ rec.status # "absent" => new.pseq = c.seq
               /\ rec.status # "absent" /\ c.op = "create" => new.persisted
               /\ rec.status = "absent" => new = rec
<1>1. CASE rec.status = "absent" BY <1>1 DEF Confirmed
<1>2. CASE rec.status # "absent" /\ c.op = "create" BY <1>2 DEF Confirmed, Recs, CallRecs
<1>3. CASE rec.status # "absent" /\ c.op # "create" BY <1>3 DEF Confirmed, Recs, CallRecs
<1> QED BY <1>1, <1>2, <1>3

LEMMA CallReturnsKeeps ==
    ASSUME JobsInv, NEW r \in Replicas, NEW j \in Jobs, CallReturns(r, j)
    PROVE  JobsInv'
<1>0. TypeOK /\ Unseen /\ OrderExact /\ NothingInvented /\ FetchedSeen /\ ConfirmedIsThere /\ Backed
  BY DEF JobsInv
<1> DEFINE old == byID[r][j]
           c == calls[r][j]
           rec == Confirmed(old, c)
           d == IF c.op = "create" /\ rec.status # "absent" /\ needsPersist(rec)
                THEN CallFor(rec) ELSE NoCall
<1>1. c.landed /\ byID' = [byID EXCEPT ![r][j] = rec]
  BY DEF CallReturns
<1>2. UNCHANGED <<run, submitting, order, asks, listing, row, disturbances>>
  BY DEF CallReturns
<1>3. calls' = [calls EXCEPT ![r][j] = d] BY DEF CallReturns
<1>4. old \in Recs /\ c \in CallRecs /\ c.seq \in Nat BY <1>0, Numbers
<1>5. CallBacked(c, j) BY <1>0, BackedCalls
<1>6. c.op # "idle" /\ Reached(j, c.seq) /\ (c.op = "create" => c.seq = 0)
  BY <1>1, <1>5 DEF CallBacked
<1>7. /\ rec \in Recs /\ rec.status = old.status
      /\ old.status # "absent" => rec.pseq = c.seq
      /\ old.status = "absent" => rec = old
  BY <1>4, <1>6, Confirms
<1>8. \/ rec.persisted = old.persisted /\ rec.pseq = old.pseq
      \/ rec.persisted => Reached(j, rec.pseq)
  BY <1>6, <1>7
<1>9. d \in CallRecs /\ CallBacked(d, j) /\ SeenOf(d.status, run[j])
      /\ (d.op # "idle" => Held(r, j) \/ c.op # "idle")
  <2>1. CASE c.op = "create" /\ rec.status # "absent" /\ needsPersist(rec)
    <3>1. SeenOf(rec.status, run[j]) BY <1>0, <1>7 DEF NothingInvented
    <3>2. Reached(j, 0) BY <1>6, <2>1
    <3>3. CallFor(rec) \in CallRecs /\ CallBacked(CallFor(rec), j) /\ SeenOf(CallFor(rec).status, run[j])
      BY <1>7, <2>1, <3>1, <3>2, CallMade
    <3> QED BY <1>6, <2>1, <3>3
  <2>2. CASE ~(c.op = "create" /\ rec.status # "absent" /\ needsPersist(rec))
    BY <1>0, <1>6, <2>2, NoCallFits
  <2> QED BY <2>1, <2>2
<1>10. disturbances' \in 0..MaxDisturbances BY <1>0, <1>2 DEF TypeOK
<1> HIDE DEF d, rec
<1> QED BY <1>1, <1>2, <1>3, <1>7, <1>8, <1>9, <1>10, CallsKeep

\* The two gates of the control plane: a row is made once, and changed only
\* forward and never past its end.
LEMMA RowMoves ==
    ASSUME NEW old \in RowRecs, NEW c \in CallRecs, c.status # "absent", c.op # "idle",
           c.op = "create" => c.seq = 0, c.op = "update" => old.status # "absent"
    PROVE  LET new == IF c.op = "create" THEN CreateJob(old, c) ELSE UpdateJobState(old, c)
           IN  /\ new \in RowRecs /\ new.status # "absent"
               /\ new.status \in {old.status, c.status}
               /\ old.status # "absent" => new.seq >= old.seq
               /\ terminal(old.status) => new.status = old.status
               /\ new.seq >= c.seq \/ terminal(new.status)
<1>0. old.seq \in Nat /\ c.seq \in Nat /\ c.status \in Statuses /\ old.status \in Statuses \cup {"absent"}
      /\ ~terminal("absent") /\ "absent" \notin Statuses
  BY DEF RowRecs, CallRecs, terminal, Terminals, Statuses
<1>1. CASE c.op = "create" /\ old.status # "absent" BY <1>0, <1>1 DEF CreateJob
<1>2. CASE c.op = "create" /\ old.status = "absent"
  <2> DEFINE new == [status |-> c.status, seq |-> c.seq, stamped |-> FALSE]
  <2>1. CreateJob(old, c) = new BY <1>2 DEF CreateJob
  <2>2. new \in RowRecs /\ new.status = c.status /\ new.seq = c.seq BY <1>0 DEF RowRecs
  <2> QED BY <1>0, <1>2, <2>1, <2>2
<1>3. CASE c.op = "update"
  <2>1. CASE terminal(old.status) \/ c.seq <= old.seq BY <1>0, <1>3, <2>1 DEF UpdateJobState
  <2>2. CASE ~(terminal(old.status) \/ c.seq <= old.seq)
    <3> DEFINE new == [status |-> c.status, seq |-> c.seq, stamped |-> terminal(c.status)]
    <3>1. UpdateJobState(old, c) = new BY <1>3, <2>2 DEF UpdateJobState
    <3>2. new \in RowRecs /\ new.status = c.status /\ new.seq = c.seq
      BY <1>0 DEF RowRecs, terminal
    <3> QED BY <1>0, <1>3, <2>2, <3>1, <3>2
  <2> QED BY <2>1, <2>2
<1> QED BY <1>1, <1>2, <1>3 DEF CallRecs

LEMMA CallLandsKeeps ==
    ASSUME JobsInv, NEW r \in Replicas, NEW j \in Jobs, CallLands(r, j)
    PROVE  JobsInv'
<1>0. TypeOK /\ Unseen /\ OrderExact /\ NothingInvented /\ FetchedSeen /\ ConfirmedIsThere /\ Backed
  BY DEF JobsInv
<1> DEFINE c == calls[r][j]
           new == IF c.op = "create" THEN CreateJob(row[j], c) ELSE UpdateJobState(row[j], c)
           d == [c EXCEPT !.landed = TRUE]
<1>1. /\ c.op # "idle" /\ row' = [row EXCEPT ![j] = new]
      /\ calls' = [calls EXCEPT ![r][j].landed = TRUE]
      /\ UNCHANGED <<run, submitting, byID, order, asks, listing, disturbances>>
  BY DEF CallLands
<1>2. c \in CallRecs /\ row[j] \in RowRecs /\ c.seq \in Nat BY <1>0, Numbers
<1>3. CallBacked(c, j) BY <1>0, BackedCalls
<1>4. c.status # "absent" /\ (c.op = "create" => c.seq = 0) /\ (c.op = "update" => row[j].status # "absent")
  BY <1>1, <1>3 DEF CallBacked, Reached
<1>5. /\ new \in RowRecs /\ new.status # "absent" /\ new.status \in {row[j].status, c.status}
      /\ row[j].status # "absent" => new.seq >= row[j].seq
      /\ terminal(row[j].status) => new.status = row[j].status
      /\ new.seq >= c.seq \/ terminal(new.status)
  BY <1>1, <1>2, <1>4, RowMoves
<1>6. /\ d \in CallRecs /\ d.op = c.op /\ d.status = c.status /\ d.seq = c.seq /\ d.landed
      /\ calls' = [calls EXCEPT ![r][j] = d]
  BY <1>0, <1>1, <1>2 DEF CallRecs, TypeOK
<1> HIDE DEF new, d
<1>7. /\ row' \in [Jobs -> RowRecs] /\ \A i \in Jobs : row'[i] = IF i = j THEN new ELSE row[i]
      /\ calls' \in [Replicas -> [Jobs -> CallRecs]]
      /\ \A q \in Replicas, i \in Jobs : calls'[q][i] = IF q = r /\ i = j THEN d ELSE calls[q][i]
  <2>1. row \in [Jobs -> RowRecs] /\ calls \in [Replicas -> [Jobs -> CallRecs]]
    BY <1>0 DEF TypeOK, RowRecs, CallRecs
  <2>2. row' \in [Jobs -> RowRecs] /\ \A i \in Jobs : row'[i] = IF i = j THEN new ELSE row[i]
    BY <1>1, <1>5, <2>1
  <2>3. /\ calls' \in [Replicas -> [Jobs -> CallRecs]]
        /\ \A q \in Replicas, i \in Jobs : calls'[q][i] = IF q = r /\ i = j THEN d ELSE calls[q][i]
    BY <1>6, <2>1
  <2> QED BY <2>2, <2>3
<1>8. TypeOK' BY <1>0, <1>1, <1>7 DEF TypeOK, CallRecs, RowRecs
<1>9. Unseen'
  <2>1. ~Unknown(j) BY <1>1 DEF Unknown
  <2>2. \A i \in Jobs : Unknown(i) => Unknown(i)' BY <1>1, <1>7, <2>1 DEF Unknown
  <2> QED BY <1>0, <1>1, <2>2, UnseenStays
<1>10. OrderExact' BY <1>0, <1>1, OrderStays
<1>11. NothingInvented' /\ FetchedSeen'
  <2>1. \A i \in Jobs : Onward(run[i], run'[i]) BY <1>1 DEF Onward
  <2>2. SeenOf(c.status, run[j]) BY <1>0 DEF NothingInvented
  <2>3. \A i \in Jobs : row'[i].status = row[i].status \/ SeenOf(row'[i].status, run'[i])
    BY <1>1, <1>5, <1>7, <2>2
  <2>4. \A q \in Replicas, i \in Jobs : calls'[q][i].status = calls[q][i].status BY <1>6, <1>7
  <2> QED BY <1>0, <1>1, <1>8, <2>1, <2>3, <2>4, SeenStays DEF TypeOK
<1>12. RowsGrow
  <2> SUFFICES ASSUME NEW i \in Jobs, NEW n \in Nat, Reached(i, n) PROVE Reached(i, n)'
    BY DEF RowsGrow
  <2>1. row[i].seq \in Nat /\ row'[i].seq \in Nat BY <1>0, <1>7, Numbers DEF RowRecs
  <2>2. CASE i # j BY <1>7, <2>2 DEF Reached
  <2>3. CASE i = j BY <1>5, <1>7, <2>1, <2>3 DEF Reached
  <2> QED BY <2>2, <2>3
<1>13. ConfirmedIsThere' /\ Backed'
  <2>2. new.seq \in Nat BY <1>5 DEF RowRecs
  <2>3. row'[j].status # "absent" /\ row'[j].seq >= 0 BY <1>5, <1>7, <2>2
  <2>4. \A q \in Replicas, i \in Jobs : calls'[q][i] = calls[q][i] \/ CallBacked(calls[q][i], i)'
    <3> SUFFICES CallBacked(calls[r][j], j)' BY <1>7
    <3>1. calls'[r][j] = d BY <1>7
    <3> QED BY <1>1, <1>4, <1>5, <1>6, <1>7, <2>3, <3>1 DEF CallBacked, Reached
  <2> QED BY <1>0, <1>1, <1>8, <1>12, <2>4, BackedStays
<1> QED BY <1>8, <1>9, <1>10, <1>11, <1>13 DEF JobsInv

\* A sweep fetches the active rows.
LEMMA RecoverListsKeeps ==
    ASSUME JobsInv, NEW r \in Replicas, RecoverLists(r)
    PROVE  JobsInv'
<1>0. TypeOK /\ Unseen /\ OrderExact /\ NothingInvented /\ FetchedSeen /\ ConfirmedIsThere /\ Backed
  BY DEF JobsInv
<1> DEFINE L == ListActiveJobsForRoute
<1>1. /\ listing' = [listing EXCEPT ![r] = L]
      /\ UNCHANGED <<run, submitting, byID, order, asks, calls, row, disturbances>>
  BY DEF RecoverLists
<1>2. ASSUME NEW f \in L
      PROVE  f \in Fetched /\ row[f.job].status # "absent"
             /\ f.status = row[f.job].status /\ f.seq = row[f.job].seq
  <2>1. PICK i \in Jobs : /\ row[i].status # "absent"
                          /\ f = [job |-> i, status |-> row[i].status, seq |-> row[i].seq]
    BY <1>2 DEF ListActiveJobsForRoute
  <2>2. row[i].status \in Statuses /\ row[i].seq \in Nat BY <1>0, <2>1 DEF TypeOK
  <2> QED BY <2>1, <2>2 DEF Fetched
<1> HIDE DEF L
<1>3. /\ listing' \in [Replicas -> SUBSET Fetched]
      /\ \A q \in Replicas : listing'[q] = IF q = r THEN L ELSE listing[q]
  BY <1>0, <1>1, <1>2 DEF TypeOK, Fetched
<1>4. TypeOK' BY <1>0, <1>1, <1>3 DEF TypeOK, Fetched
<1>5. Unseen'
  <2>1. \A i \in Jobs : Unknown(i) => Unknown(i)' BY <1>1, <1>2, <1>3 DEF Unknown
  <2> QED BY <1>0, <1>1, <2>1, UnseenStays
<1>6. OrderExact' BY <1>0, <1>1, OrderStays
<1>7. NothingInvented' /\ FetchedSeen'
  <2>1. \A i \in Jobs : Onward(run[i], run'[i]) BY <1>1 DEF Onward
  <2>2. \A f \in L : SeenOf(f.status, run[f.job])
    BY <1>0, <1>2 DEF NothingInvented, Fetched
  <2>3. \A q \in Replicas : \A f \in listing'[q] : f \in listing[q] \/ SeenOf(f.status, run'[f.job])
    BY <1>1, <1>3, <2>2
  <2> QED BY <1>0, <1>1, <1>4, <2>1, <2>3, SeenStays DEF TypeOK
<1>8. ConfirmedIsThere' /\ Backed'
  <2>1. \A f \in L : f.job \in Jobs /\ row[f.job].seq \in Nat BY <1>0, <1>2, Numbers DEF Fetched
  <2>2. \A q \in Replicas : \A f \in listing'[q] : f \in listing[q] \/ Reached(f.job, f.seq)'
    BY <1>1, <1>2, <1>3, <2>1 DEF Reached
  <2> QED BY <1>0, <1>1, <1>4, <2>2, RowsSame, BackedStays
<1> QED BY <1>4, <1>5, <1>6, <1>7, <1>8 DEF JobsInv

\* A fetched row becomes a job, if the table does not know it by now.
LEMMA recoverIfMissingKeeps ==
    ASSUME JobsInv, NEW r \in Replicas, NEW f \in listing[r], recoverIfMissing(r, f)
    PROVE  JobsInv'
<1>0. TypeOK /\ Unseen /\ OrderExact /\ NothingInvented /\ FetchedSeen /\ ConfirmedIsThere /\ Backed
  BY DEF JobsInv
<1> DEFINE rec == [status |-> f.status, seq |-> f.seq, persisted |-> TRUE, pseq |-> f.seq]
<1>1. /\ listing' = [listing EXCEPT ![r] = @ \ {f}]
      /\ UNCHANGED <<run, submitting, asks, calls, row, disturbances>>
      /\ Held(r, f.job) => UNCHANGED <<byID, order>>
      /\ ~Held(r, f.job) => insertLocked(r, f.job, rec)
  BY DEF recoverIfMissing, Recovered
<1>2. f.job \in Jobs /\ f.seq \in Nat /\ f.status \in Statuses BY <1>0, Numbers
<1>3. /\ rec \in Recs /\ rec.status # "absent" /\ rec.status = f.status /\ rec.pseq = f.seq
      /\ Absent.status = "absent" /\ Absent.persisted = FALSE
  BY <1>2 DEF Recs, Absent, Statuses, Terminals
<1> HIDE DEF rec
<1>4. /\ listing' \in [Replicas -> SUBSET Fetched] /\ \A q \in Replicas : listing'[q] \subseteq listing[q]
  BY <1>0, <1>1 DEF TypeOK, Fetched
<1>5. /\ order' \in [Replicas -> Seq(Jobs)] /\ byID' \in [Replicas -> [Jobs -> Recs]]
      /\ OrderExact'
      /\ \A q \in Replicas, i \in Jobs : \/ byID'[q][i] = byID[q][i]
                                         \/ byID'[q][i] = Absent
                                         \/ q = r /\ i = f.job /\ byID'[q][i] = rec
  <2>1. CASE Held(r, f.job)
    <3>1. UNCHANGED <<byID, order>> BY <1>1, <2>1
    <3>2. OrderExact' BY <1>0, <3>1, OrderStays
    <3> QED BY <1>0, <3>1, <3>2 DEF TypeOK
  <2>2. CASE ~Held(r, f.job) BY <1>0, <1>1, <1>2, <1>3, <2>2, InsertKeeps
  <2> QED BY <2>1, <2>2
<1>6. TypeOK' BY <1>0, <1>1, <1>4, <1>5 DEF TypeOK, Fetched
<1>7. Unseen'
  <2>1. ~Unknown(f.job) BY DEF Unknown
  <2>2. \A i \in Jobs : Unknown(i) => Unknown(i)' BY <1>1, <1>3, <1>4, <1>5, <2>1 DEF Unknown
  <2> QED BY <1>0, <1>1, <2>2, UnseenStays
<1>8. NothingInvented' /\ FetchedSeen'
  <2>1. \A i \in Jobs : run[i] \in Statuses \cup {"none"} BY <1>0 DEF TypeOK
  <2>2. SeenOf(f.status, run[f.job]) BY <1>0 DEF FetchedSeen
  <2>3. \A i \in Jobs : SeenOf("absent", run[i]) BY <2>1, SilentSeen
  <2>4. \A q \in Replicas, i \in Jobs :
            byID'[q][i].status = byID[q][i].status \/ SeenOf(byID'[q][i].status, run'[i])
    BY <1>1, <1>3, <1>5, <2>2, <2>3
  <2>5. \A i \in Jobs : Onward(run[i], run'[i]) BY <1>1 DEF Onward
  <2> QED BY <1>0, <1>1, <1>4, <1>6, <2>4, <2>5, SeenStays DEF TypeOK
<1>9. ConfirmedIsThere' /\ Backed'
  <2>1. Reached(f.job, f.seq) BY <1>0, BackedCalls
  <2>2. \A q \in Replicas, i \in Jobs :
            \/ byID'[q][i].persisted = byID[q][i].persisted /\ byID'[q][i].pseq = byID[q][i].pseq
            \/ byID'[q][i].persisted => Reached(i, byID[q][i].pseq)'
    BY <1>1, <1>3, <1>5, <2>1 DEF Reached
  <2> QED BY <1>0, <1>1, <1>4, <1>6, <2>2, RowsSame, BackedStays
<1> QED BY <1>5, <1>6, <1>7, <1>8, <1>9 DEF JobsInv

\* Every step of the specification keeps the invariant.
LEMMA StepKeeps == JobsInv /\ [Next]_vars => JobsInv'
<1> SUFFICES ASSUME JobsInv, [Next]_vars PROVE JobsInv' OBVIOUS
<1>1. ASSUME NEW j \in Jobs \ Others, RunStarts(j) \/ RunEnds(j) PROVE JobsInv'
  BY <1>1, RunsKeep
<1>2. ASSUME NEW r \in Replicas, Restart(r) \/ RecoverLists(r) PROVE JobsInv'
  BY <1>2, RestartKeeps, RecoverListsKeeps
<1>3. ASSUME NEW r \in Replicas, NEW j \in Jobs, SubmitWorkflow(r, j) \/ add(r, j) PROVE JobsInv'
  BY <1>3, SubmitKeeps, addKeeps
<1>4. ASSUME NEW r \in Replicas, NEW j \in Jobs \ Others,
             \/ CancelWorkflow(r, j)
             \/ jobStatus(r, j) \/ jobEvents(r, j) \/ syncOne(r, j)
             \/ PersistStarts(r, j) \/ CallLands(r, j)
             \/ CallReturns(r, j) \/ CallFails(r, j)
             \/ \E a \in Askers : NodeAnswers(r, j, a) \/ Apply(r, j, a) \/ AskFails(r, j, a)
      PROVE  JobsInv'
  <2>1. CASE CancelWorkflow(r, j) BY <2>1, RunsKeep
  <2>2. CASE \/ jobStatus(r, j) \/ jobEvents(r, j) \/ syncOne(r, j)
             \/ \E a \in Askers : NodeAnswers(r, j, a) \/ AskFails(r, j, a)
    BY <2>2, ObserveKeeps
  <2>3. CASE \E a \in Askers : Apply(r, j, a) BY <2>3, ApplyKeeps
  <2>4. CASE PersistStarts(r, j) \/ CallLands(r, j) \/ CallReturns(r, j) \/ CallFails(r, j)
    BY <2>4, PersistStartsKeeps, CallLandsKeeps, CallReturnsKeeps, CallFailsKeeps
  <2> QED BY <1>4, <2>1, <2>2, <2>3, <2>4
<1>5. ASSUME UNCHANGED vars PROVE JobsInv'
  BY <1>5 DEF vars, JobsInv, TypeOK, Unseen, Waiting, Unknown, OrderExact, Held, NothingInvented,
              FetchedSeen, ConfirmedIsThere, Backed, Reached
<1> QED BY <1>1, <1>2, <1>3, <1>4, <1>5, recoverIfMissingKeeps DEF Next

-----------------------------------------------------------------------------
(* The theorems.                                                           *)

\* The invariant holds in every reachable state.
THEOREM JobsAlways == Spec => []JobsInv
BY InitHolds, StepKeeps, PTL DEF Spec

\* Every variable has its type.
THEOREM TypeCorrect == Spec => []TypeOK
<1>1. JobsInv => TypeOK BY DEF JobsInv
<1> QED BY <1>1, JobsAlways, PTL

\* The eviction order lists exactly the jobs of the table, each once, within
\* the bound, through submission, eviction and recovery (insertLocked,
\* recoverIfMissing).
THEOREM OrderExactHolds == Spec => []OrderExact
<1>1. JobsInv => OrderExact BY DEF JobsInv
<1> QED BY <1>1, JobsAlways, PTL

\* No replica and no row says more of a run than the node has, through failed
\* questions, late answers, restarts and recovery (syncFailed, recoverRoute).
THEOREM NothingInventedHolds == Spec => []NothingInvented
<1>1. JobsInv => NothingInvented BY DEF JobsInv
<1> QED BY <1>1, JobsAlways, PTL

\* What a replica takes for confirmed the control plane has: a row that has
\* reached that sequence or can change no more (persistedCreate,
\* persistedState, UpdateJobState's two gates).
THEOREM ConfirmedIsThereHolds == Spec => []ConfirmedIsThere
<1>1. JobsInv => ConfirmedIsThere BY DEF JobsInv
<1> QED BY <1>1, JobsAlways, PTL

=============================================================================
