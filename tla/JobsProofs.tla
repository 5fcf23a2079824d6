----------------------------- MODULE JobsProofs -----------------------------
(***************************************************************************)
(* Proofs about Jobs, for any jobs, call graphs, cron expressions and      *)
(* clocks, any number of processes, runs and admins, and any retention     *)
(* limit.                                                                  *)
(*                                                                         *)
(* The invariant, JobsInv, ties the rows to the processes:                 *)
(*   RowsOK       ids are given out in order, so an insert overwrites no   *)
(*                row and no id of a deleted row comes back;               *)
(*   ProcsOK      only a live process executes or fires;                   *)
(*   SchedulerOK, what a scheduler fired is at or before its last_fired_,  *)
(*   FiringsOK    which only grows while it lives;                         *)
(*   FramesOK     the runs of a process's frames differ, and the row of    *)
(*                each is its own unless retention deleted it.             *)
(* RowCases says how a step may change the rows; the rest follows from it. *)
(***************************************************************************)
EXTENDS Jobs, FiniteSetTheorems, SequenceTheorems, WellFoundedInduction, TLAPS

Frame == [job : Job \cup {CliFile}, run : RunId \cup {0}, next : Nat, failed : BOOLEAN]
Alive == {"started", "serving", "cli"}

RowTypes ==
  /\ status \in [RunId -> Statuses] /\ owner \in [RunId -> 0..MaxProcs]
  /\ jobOf \in [RunId -> Job \cup {NoJob}] /\ firedAt \in [RunId -> Minute \cup {0}]
  /\ nextRun \in 1..(MaxRuns + 1)

ProcTypes ==
  /\ proc \in [Proc -> {"unborn", "dead"} \cup Alive]
  /\ lastFired \in [Proc -> [Job -> Minute \cup {0}]]
  /\ due \in [Proc -> SUBSET Job] /\ key \in [Proc -> Minute \cup {0}]
  /\ DOMAIN read = Proc /\ \A i \in Proc : DOMAIN read[i] = Job
  /\ inserts \in [Proc -> Nat] /\ minute \in Minute
  /\ goneBefore \subseteq Proc
ExecTypes == exec \in [Proc -> Seq(Frame)]

(* Ids are given out in order, and a row has an owner and a job.           *)
RowsOK ==
  \A r \in RunId :
    /\ r >= nextRun => status[r] = NoRow
    /\ status[r] # NoRow => owner[r] \in Proc /\ jobOf[r] \in Job

(* Only a live process executes a run or fires jobs.                       *)
ProcsOK ==
  /\ \A i \in goneBefore : proc[i] = "dead"
  /\ \A i \in Proc : /\ exec[i] # <<>> => proc[i] \in Alive
                     /\ due[i] # {} => proc[i] = "serving"

(* The scheduler's own state: it never goes back in time, and what it is   *)
(* about to fire is due in its minute.                                     *)
SchedulerOK ==
  \A i \in Proc :
    /\ \A j \in Job : lastFired[i][j] <= minute
    /\ \A j \in due[i] : /\ key[i] \in Minute /\ key[i] <= minute /\ lastFired[i][j] <= key[i]
                         /\ Matches(read[i][j], TimeOf[key[i]])

Fired(r) == status[r] # NoRow /\ firedAt[r] # 0

FiringsOK ==
  \A r \in RunId : Fired(r) =>
    /\ Matches(firedFor[r], TimeOf[firedAt[r]])
    /\ proc[owner[r]] # "dead" => firedAt[r] <= lastFired[owner[r]][jobOf[r]]
    /\ \A s \in RunId : (Fired(s) /\ s # r /\ owner[s] = owner[r] /\ jobOf[s] = jobOf[r])
                          => firedAt[s] # firedAt[r]

(* The frames of a process: nested jobs differ, and so do the runs.        *)
StackOK(f) ==
  /\ Len(f) <= MaxDepth + 1
  /\ \A m, n \in DOMAIN f : m # n =>
       /\ (m > 1 /\ n > 1) => f[m].job # f[n].job
       /\ f[m].run # 0 => f[m].run # f[n].run

(* The row of a frame, if retention has not deleted it, is the process's.  *)
FrameOK(i, r) ==
  /\ r < nextRun
  /\ \/ status[r] = NoRow
     \/ owner[r] = i /\ status[r] \in {Running, Interrupted}

FramesOK ==
  \A i \in Proc : /\ StackOK(exec[i])
                  /\ \A n \in DOMAIN exec[i] : exec[i][n].run # 0 => FrameOK(i, exec[i][n].run)

JobsInv ==
  /\ RowTypes /\ ProcTypes /\ ExecTypes /\ RowsOK /\ ProcsOK /\ LiveRunsHaveOwner
  /\ SchedulerOK /\ FiringsOK /\ FramesOK
-----------------------------------------------------------------------------
(* Operators of the model                                                  *)

LEMMA LeastOf ==
  ASSUME NEW S, S \subseteq Nat, S # {}
  PROVE  \E x \in S : \A y \in S : x <= y
<1>1. PICK x \in S : \A y \in S : ~(<<y, x>> \in OpToRel(<, Nat))
  BY WFMin, NatLessThanWellFounded
<1>2. \A y \in S : ~(y < x)
  BY <1>1 DEF OpToRel
<1> QED BY <1>2

LEMMA GreatestOf ==
  ASSUME NEW n \in Nat, NEW S, S \subseteq 1..n, S # {}
  PROVE  \E x \in S : \A y \in S : y <= x
<1> DEFINE T == {n - x : x \in S}
<1>1. T \subseteq Nat /\ T # {}
  <2>1. ASSUME NEW x \in S PROVE n - x \in Nat
    <3>1. x \in 1..n
      OBVIOUS
    <3> QED BY <3>1
  <2>2. T # {}
    <3>1. PICK x \in S : TRUE
      OBVIOUS
    <3> QED BY <3>1
  <2> QED BY <2>1, <2>2
<1>2. PICK t \in T : \A u \in T : t <= u
  BY <1>1, LeastOf
<1>3. PICK x \in S : t = n - x
  OBVIOUS
<1>4. ASSUME NEW y \in S PROVE y <= x
  <2>1. n - y \in T
    OBVIOUS
  <2>2. n - x <= n - y
    BY <1>2, <1>3, <2>1
  <2>3. x \in 1..n /\ y \in 1..n
    OBVIOUS
  <2> QED BY <2>2, <2>3
<1> QED BY <1>4

LEMMA MinIn ==
  ASSUME NEW S, S \subseteq Nat, S # {}
  PROVE  Min(S) \in S
<1>1. \E x \in S : \A y \in S : x <= y
  BY LeastOf
<1> QED BY <1>1 DEF Min

(* What a cron field's bits name.                                          *)
LEMMA BitsAreNamed ==
  ASSUME NEW field, NEW lo, NEW hi, NEW v, v \in FieldBits(field, lo, hi, FALSE)
  PROVE  Names(field, lo, v)
<1>1. PICK k \in DOMAIN field : v \in PartBits(field[k], lo, hi, FALSE)
  BY DEF FieldBits
<1>2. v \in From(field[k], lo)..To(field[k], hi) /\ (v - From(field[k], lo)) % Step(field[k]) = 0
  BY <1>1, Zenon DEF PartBits, Bit
<1>3. field[k].star \/ v \in field[k].from..field[k].to
  BY <1>2, Zenon DEF From, To
<1> QED BY <1>2, <1>3, Zenon DEF Names

LEMMA DayBitsAreNamed ==
  ASSUME NEW field, NEW lo, NEW hi, NEW v, v \in FieldBits(field, lo, hi, TRUE)
  PROVE  Names(field, lo, v) \/ (v = 0 /\ Names(field, lo, 7))
<1>1. PICK k \in DOMAIN field : v \in PartBits(field[k], lo, hi, TRUE)
  BY DEF FieldBits
<1>2. PICK w \in From(field[k], lo)..To(field[k], hi) :
        v = Bit(w, TRUE) /\ (w - From(field[k], lo)) % Step(field[k]) = 0
  BY <1>1, Zenon DEF PartBits
<1>3. Names(field, lo, w)
  <2>1. field[k].star \/ w \in field[k].from..field[k].to
    BY <1>2, Zenon DEF From, To
  <2> QED BY <1>2, <2>1, Zenon DEF Names
<1> QED BY <1>2, <1>3 DEF Bit

(* A minute the expression matches is one it names.                        *)
LEMMA MatchesNamed ==
  ASSUME NEW e, NEW t, Matches(e, t)
  PROVE  LET mday == Names(e.mday, 1, t.mday)
             wday == Names(e.wday, 0, t.wday) \/ (t.wday = 0 /\ Names(e.wday, 0, 7))
         IN  /\ Names(e.minute, 0, t.minute) /\ Names(e.hour, 0, t.hour) /\ Names(e.month, 1, t.month)
             /\ IF e.mday = <<Star>> \/ e.wday = <<Star>> THEN mday /\ wday ELSE mday \/ wday
<1>1. /\ t.minute \in FieldBits(e.minute, 0, 59, FALSE)
      /\ t.hour \in FieldBits(e.hour, 0, 23, FALSE)
      /\ t.month \in FieldBits(e.month, 1, 12, FALSE)
      /\ IF ~(e.mday = <<Star>>) /\ ~(e.wday = <<Star>>)
         THEN t.mday \in FieldBits(e.mday, 1, 31, FALSE) \/ t.wday \in FieldBits(e.wday, 0, 7, TRUE)
         ELSE t.mday \in FieldBits(e.mday, 1, 31, FALSE) /\ t.wday \in FieldBits(e.wday, 0, 7, TRUE)
  BY Zenon DEF Matches, IsStar
<1>2. Names(e.minute, 0, t.minute) /\ Names(e.hour, 0, t.hour) /\ Names(e.month, 1, t.month)
  BY <1>1, BitsAreNamed
<1>3. t.mday \in FieldBits(e.mday, 1, 31, FALSE) => Names(e.mday, 1, t.mday)
  BY BitsAreNamed
<1>4. t.wday \in FieldBits(e.wday, 0, 7, TRUE) =>
        Names(e.wday, 0, t.wday) \/ (t.wday = 0 /\ Names(e.wday, 0, 7))
  BY DayBitsAreNamed
<1> QED BY <1>1, <1>2, <1>3, <1>4, Zenon

(* Retention deletes finished rows only, and each with enough newer ones   *)
(* left: the newest row deleted has them, and they are newer than all      *)
(* others deleted.                                                         *)
LEMMA PruneKeeps ==
  ASSUME NEW rows \in [RunId -> Statuses], NEW keep \in Nat, NEW r \in RunId
  PROVE  /\ Prune(rows, keep) \in [RunId -> Statuses]
         /\ ~IsTerminal(rows[r]) => Prune(rows, keep)[r] = rows[r]
         /\ \/ Prune(rows, keep)[r] = rows[r]
            \/ /\ Prune(rows, keep)[r] = NoRow
               /\ Cardinality({s \in Finished(Prune(rows, keep)) : s > r}) >= keep
<1> DEFINE F == Finished(rows)
           Newer(x) == {s \in F : s > x}
           X == {s \in F : Cardinality(Newer(s)) >= keep}
           P == Prune(rows, keep)
<1>1. P = [x \in RunId |-> IF x \in X THEN NoRow ELSE rows[x]] /\ F \subseteq RunId
  BY DEF Prune, Finished
<1>2. NoRow \in Statuses
  BY DEF Statuses, RowStatus
<1>3. F = {x \in RunId : IsTerminal(rows[x])}
  BY DEF Finished
<1>4. P \in [RunId -> Statuses] /\ (~IsTerminal(rows[r]) => P[r] = rows[r])
  BY <1>1, <1>2, <1>3
<1>5. ASSUME r \in X
      PROVE  Cardinality({s \in Finished(P) : s > r}) >= keep
  <2>0. MaxRuns \in Nat /\ IsFiniteSet(F) /\ IsFiniteSet(RunId)
    BY <1>1, JobBounds, FS_Interval, FS_Subset DEF RunId
  <2>1. PICK x \in X : \A y \in X : y <= x
    BY <1>1, <1>5, <2>0, GreatestOf DEF RunId
  <2>2. \A s \in RunId : s \in Int
    BY <2>0 DEF RunId
  <2>3. X \subseteq F /\ x \in Int /\ r \in Int /\ r <= x
    BY <1>1, <1>5, <2>1, <2>2
  <2>4. ASSUME NEW s \in Newer(x) PROVE s \notin X /\ s \in F /\ s > x
    <3>1. s \in F /\ s > x /\ s \in Int
      BY <1>1, <2>2
    <3>2. ~(s <= x)
      BY <3>1, <2>3
    <3> QED BY <2>1, <3>1, <3>2
  <2>5. \A s \in Newer(x) : s \in Finished(P)
    BY <1>1, <1>3, <2>4 DEF Finished
  <2>6. Newer(x) \subseteq {s \in Finished(P) : s > r}
    <3>1. ASSUME NEW s \in Newer(x) PROVE s > r
      BY <1>1, <2>4, <2>2, <2>3, <3>1
    <3> QED BY <2>5, <3>1
  <2>7. IsFiniteSet({s \in Finished(P) : s > r})
    BY <2>0, FS_Subset DEF Finished
  <2>8. Cardinality(Newer(x)) <= Cardinality({s \in Finished(P) : s > r})
    BY <2>6, <2>7, FS_Subset
  <2>9. IsFiniteSet(Newer(x))
    BY <2>0, FS_Subset
  <2>10. /\ Cardinality(Newer(x)) \in Nat /\ Cardinality({s \in Finished(P) : s > r}) \in Nat
        /\ Cardinality(Newer(x)) >= keep
    BY <2>1, <2>7, <2>9, FS_CardinalityType
  <2> QED BY <2>8, <2>10
<1> QED BY <1>1, <1>4, <1>5

-----------------------------------------------------------------------------
(* The store                                                               *)

(* insert_run: other rows stay, or retention deletes them if they are      *)
(* finished.                                                               *)
InsertFacts(i, j, st, at) ==
  /\ nextRun \in RunId /\ nextRun' = nextRun + 1
  /\ RowTypes' /\ inserts' \in [Proc -> Nat]
  /\ \A r \in RunId : status'[r] # NoRow =>
       /\ owner'[r] = IF r = nextRun THEN i ELSE owner[r]
       /\ jobOf'[r] = IF r = nextRun THEN j ELSE jobOf[r]
       /\ firedAt'[r] = IF r = nextRun THEN at ELSE firedAt[r]
       /\ firedAt'[r] # 0 => firedFor'[r] = IF r = nextRun THEN read[i][j] ELSE firedFor[r]
       /\ status'[r] = IF r = nextRun THEN st ELSE status[r]
  /\ \A r \in RunId : status[r] \in Live => status'[r] = status[r]

LEMMA InsertDoes ==
  ASSUME RowTypes, RowsOK, inserts \in [Proc -> Nat],
         NEW i \in Proc, NEW j \in Job, NEW st \in Statuses \ {NoRow}, NEW at \in Minute \cup {0},
         Insert(i, j, st, at)
  PROVE  /\ InsertFacts(i, j, st, at)
         /\ \A r \in RunId : IsTerminal(status[r]) =>
              \/ status'[r] = status[r]
              \/ /\ status'[r] = NoRow
                 /\ Cardinality({s \in Finished(status') : s > r}) >= MaxKeep
<1> DEFINE added == InsertRun(status, nextRun, st)
<1>0. /\ MaxRuns \in Nat /\ MaxKeep \in Nat /\ MaxProcs \in Nat /\ nextRun \in 1..(MaxRuns + 1) /\ ~(nextRun > MaxRuns)
      /\ status \in [RunId -> Statuses] /\ owner \in [RunId -> 0..MaxProcs]
      /\ jobOf \in [RunId -> Job \cup {NoJob}] /\ firedAt \in [RunId -> Minute \cup {0}]
  BY JobBounds DEF Insert, StoreFull, RowTypes
<1>1. nextRun \in RunId /\ nextRun' = nextRun + 1 /\ nextRun' \in 1..(MaxRuns + 1)
  BY <1>0 DEF RunId, Insert
<1>2. status[nextRun] = NoRow
  BY <1>0, <1>1 DEF RowsOK, RunId
<1>3. added \in [RunId -> Statuses] /\ added = [status EXCEPT ![nextRun] = st]
  BY <1>0, <1>1 DEF InsertRun
<1>4. inserts' \in [Proc -> Nat]
  <2>1. AfterInsert(inserts[i]) \in Nat
    <3>1. inserts[i] \in Nat
      OBVIOUS
    <3> QED BY <3>1 DEF AfterInsert
  <2> QED BY <2>1 DEF Insert
<1>5. status' \in {added, Prune(added, MaxKeep)}
  BY DEF Insert
<1>6. /\ status' \in [RunId -> Statuses]
      /\ \A r \in RunId :
           /\ ~IsTerminal(added[r]) => status'[r] = added[r]
           /\ \/ status'[r] = added[r]
              \/ /\ status'[r] = NoRow
                 /\ Cardinality({s \in Finished(status') : s > r}) >= MaxKeep
  <2>1. CASE status' = added
    BY <1>3, <2>1
  <2>2. CASE status' = Prune(added, MaxKeep)
    <3>1. \A r \in RunId :
            /\ Prune(added, MaxKeep) \in [RunId -> Statuses]
            /\ ~IsTerminal(added[r]) => Prune(added, MaxKeep)[r] = added[r]
            /\ \/ Prune(added, MaxKeep)[r] = added[r]
               \/ /\ Prune(added, MaxKeep)[r] = NoRow
                  /\ Cardinality({s \in Finished(Prune(added, MaxKeep)) : s > r}) >= MaxKeep
      BY <1>0, <1>3, PruneKeeps
    <3> HIDE DEF added
    <3> QED BY <1>1, <2>2, <3>1
  <2> QED BY <1>5, <2>1, <2>2
<1>7. /\ owner' = [r \in RunId |-> IF status'[r] = NoRow THEN 0 ELSE IF r = nextRun THEN i ELSE owner[r]]
      /\ jobOf' = [r \in RunId |-> IF status'[r] = NoRow THEN NoJob ELSE IF r = nextRun THEN j ELSE jobOf[r]]
      /\ firedAt' = [r \in RunId |-> IF status'[r] = NoRow THEN 0 ELSE IF r = nextRun THEN at ELSE firedAt[r]]
      /\ \A r \in RunId : firedAt'[r] # 0 => firedFor'[r] = IF r = nextRun THEN read[i][j] ELSE firedFor[r]
  BY Zenon DEF Insert
<1>8. i \in 0..MaxProcs /\ 0 \in 0..MaxProcs
  BY <1>0 DEF Proc
<1>9. RowTypes'
  BY <1>0, <1>1, <1>6, <1>7, <1>8 DEF RowTypes
<1>10. \A r \in RunId : status'[r] # NoRow =>
       /\ owner'[r] = IF r = nextRun THEN i ELSE owner[r]
       /\ jobOf'[r] = IF r = nextRun THEN j ELSE jobOf[r]
       /\ firedAt'[r] = IF r = nextRun THEN at ELSE firedAt[r]
  BY <1>7
<1>11. \A r \in RunId : status'[r] # NoRow => status'[r] = IF r = nextRun THEN st ELSE status[r]
  BY <1>0, <1>1, <1>3, <1>6
<1>12. \A r \in RunId : status[r] \in Live => status'[r] = status[r]
  <2>1. \A r \in RunId : status[r] \in Live => r # nextRun /\ added[r] = status[r] /\ ~IsTerminal(added[r])
    BY <1>0, <1>1, <1>2, <1>3 DEF Live, Queued, Running, NoRow, IsTerminal
  <2> QED BY <1>6, <2>1
<1>13. \A r \in RunId : IsTerminal(status[r]) => r # nextRun /\ added[r] = status[r]
  BY <1>0, <1>1, <1>2, <1>3 DEF Live, Queued, Running, NoRow, IsTerminal
<1> QED BY <1>1, <1>4, <1>6, <1>9, <1>7, <1>10, <1>11, <1>12, <1>13 DEF InsertFacts
-----------------------------------------------------------------------------
(* Initially, and what follows from the invariant                          *)

LEMMA InitJobs == Init => JobsInv
<1> SUFFICES ASSUME Init PROVE JobsInv
  OBVIOUS
<1> USE DEF Init
<1>1. 0 \in 0..MaxProcs /\ 1 \in 1..(MaxRuns + 1) /\ NoRow \in Statuses /\ NoRow \notin Live
  BY JobBounds DEF Statuses, RowStatus, NoRow, Live, Queued, Running
<1>2. RowTypes /\ ProcTypes /\ ExecTypes
  BY <1>1, JobTimes DEF RowTypes, ProcTypes, ExecTypes, Alive, Minute, Nothing
<1>3. RowsOK /\ ProcsOK /\ LiveRunsHaveOwner /\ FiringsOK
  BY <1>1 DEF RowsOK, ProcsOK, LiveRunsHaveOwner, FiringsOK, Fired
<1>4. SchedulerOK
  BY DEF SchedulerOK
<1>5. FramesOK
  BY JobBounds DEF FramesOK, StackOK
<1> QED BY <1>2, <1>3, <1>4, <1>5 DEF JobsInv

LEMMA InvImplies ==
  ASSUME JobsInv
  PROVE  LiveRunsHaveOwner /\ ScheduleKept /\ NestingSound
<1>1. ScheduleKept
  <2> SUFFICES ASSUME NEW r \in RunId, Fired(r)
               PROVE  LET e == firedFor[r]
                          t == TimeOf[firedAt[r]]
                          mday == Names(e.mday, 1, t.mday)
                          wday == Names(e.wday, 0, t.wday) \/ (t.wday = 0 /\ Names(e.wday, 0, 7))
                      IN  /\ \A s \in RunId \ {r} :
                               status[s] # NoRow /\ owner[s] = owner[r] /\ jobOf[s] = jobOf[r]
                                 => firedAt[s] # firedAt[r]
                          /\ /\ Names(e.minute, 0, t.minute) /\ Names(e.hour, 0, t.hour)
                             /\ Names(e.month, 1, t.month)
                          /\ IF e.mday = <<Star>> \/ e.wday = <<Star>> THEN mday /\ wday ELSE mday \/ wday
    BY Zenon DEF ScheduleKept, Fired
  <2>1. Matches(firedFor[r], TimeOf[firedAt[r]])
    BY DEF JobsInv, FiringsOK
  <2>2. \A s \in RunId \ {r} :
          status[s] # NoRow /\ owner[s] = owner[r] /\ jobOf[s] = jobOf[r] => firedAt[s] # firedAt[r]
    BY DEF JobsInv, FiringsOK, Fired
  <2> QED BY <2>1, <2>2, MatchesNamed, Zenon
<1>2. NestingSound
  <2> SUFFICES ASSUME NEW i \in Proc
               PROVE  /\ Len(JobStack(i)) <= MaxDepth
                      /\ \A m, n \in DOMAIN JobStack(i) : m # n => JobStack(i)[m] # JobStack(i)[n]
                      /\ \A n \in DOMAIN exec[i] : exec[i][n].run # 0 =>
                           \/ status[exec[i][n].run] = NoRow
                           \/ /\ owner[exec[i][n].run] = i
                              /\ status[exec[i][n].run] \in {Running, Interrupted}
    BY DEF NestingSound
  <2>1. exec[i] \in Seq(Frame) /\ StackOK(exec[i]) /\ MaxDepth \in Nat
    BY JobBounds DEF JobsInv, ExecTypes, FramesOK
  <2>2. Len(JobStack(i)) <= MaxDepth
    <3>1. CASE exec[i] = <<>>
      <4>1. 1..(Len(exec[i]) - 1) = 1..0
        BY <3>1
      <4>2. JobStack(i) = [n \in 1..0 |-> exec[i][n + 1].job]
        BY <4>1 DEF JobStack
      <4>3. Len(JobStack(i)) = 0
        BY <4>2
      <4> QED BY <4>3, <2>1
    <3>2. CASE exec[i] # <<>>
      <4>1. Len(exec[i]) \in Nat /\ Len(exec[i]) >= 1 /\ Len(exec[i]) <= MaxDepth + 1
        BY <2>1, <3>2 DEF StackOK
      <4>2. DOMAIN JobStack(i) = 1..(Len(exec[i]) - 1) /\ Len(exec[i]) - 1 \in Nat
        BY <4>1 DEF JobStack
      <4>3. Len(JobStack(i)) = Len(exec[i]) - 1
        BY <4>1, <4>2 DEF JobStack
      <4> QED BY <4>1, <4>3, <2>1
    <3> QED BY <3>1, <3>2
  <2>3. ASSUME NEW m \in DOMAIN JobStack(i), NEW n \in DOMAIN JobStack(i), m # n
        PROVE  JobStack(i)[m] # JobStack(i)[n]
    <3>1. m \in 1..(Len(exec[i]) - 1) /\ n \in 1..(Len(exec[i]) - 1) /\ Len(exec[i]) \in Nat
      BY <2>1 DEF JobStack
    <3>2. /\ m + 1 \in DOMAIN exec[i] /\ n + 1 \in DOMAIN exec[i] /\ m + 1 > 1 /\ n + 1 > 1 /\ m + 1 # n + 1
      BY <2>1, <2>3, <3>1
    <3>3. JobStack(i)[m] = exec[i][m + 1].job /\ JobStack(i)[n] = exec[i][n + 1].job
      BY <3>1 DEF JobStack
    <3> QED BY <2>1, <3>2, <3>3 DEF StackOK
  <2>4. \A n \in DOMAIN exec[i] : exec[i][n].run # 0 => FrameOK(i, exec[i][n].run)
    BY DEF JobsInv, FramesOK
  <2> QED BY <2>2, <2>3, <2>4 DEF FrameOK
<1> QED BY <1>1, <1>2 DEF JobsInv

-----------------------------------------------------------------------------
(* What a step does to the rows                                            *)

(* Live rows get another status, and nothing else changes ...              *)
RowsUpdated ==
  /\ UNCHANGED <<owner, jobOf, firedAt, firedFor, nextRun>> /\ status' \in [RunId -> Statuses]
  /\ \A r \in RunId : \/ status'[r] = status[r]
                      \/ status[r] \in Live /\ status'[r] # NoRow

(* ... or a process that is alive inserts one.                             *)
InsertBy(i, j, st, at) ==
  /\ proc[i] \in Alive /\ InsertFacts(i, j, st, at) /\ UNCHANGED <<proc, goneBefore>>
  /\ \A r \in RunId : IsTerminal(status[r]) =>
       \/ status'[r] = status[r]
       \/ /\ status'[r] = NoRow
          /\ Cardinality({s \in Finished(status') : s > r}) >= MaxKeep

Inserted == {Queued, Running, Skipped}

FireInserts ==
  \E i \in Proc, j \in Job, st \in Inserted :
    Fire(i, j) /\ lastFired[i][j] # key[i] /\ InsertBy(i, j, st, key[i])
OtherInserts ==
  \E i \in Proc, j \in Job, st \in Inserted : InsertBy(i, j, st, 0) /\ UNCHANGED lastFired

LEMMA InsertStep ==
  ASSUME JobsInv, NEW i \in Proc, NEW j \in Job, NEW st \in Inserted, NEW at \in Minute \cup {0},
         Insert(i, j, st, at), proc[i] \in Alive, UNCHANGED <<proc, goneBefore>>
  PROVE  InsertBy(i, j, st, at)
<1>1. st \in Statuses \ {NoRow}
  BY DEF Inserted, Statuses, RowStatus, Live, Queued, Running, Skipped, NoRow
<1> QED BY <1>1, InsertDoes DEF JobsInv, ProcTypes, InsertBy

LEMMA UpdateStep ==
  ASSUME RowTypes, NEW r \in RunId, NEW st \in Statuses \ {NoRow},
         status' = UpdateRun(status, r, st), UNCHANGED <<owner, jobOf, firedAt, firedFor, nextRun>>
  PROVE  RowsUpdated
BY DEF RowTypes, UpdateRun, RowsUpdated

LEMMA SameRows == ASSUME RowTypes, UNCHANGED rowVars PROVE RowsUpdated
BY DEF RowTypes, RowsUpdated, rowVars

(* The runner takes a queued run of its own process.                       *)
LEMMA FirstQueued ==
  ASSUME JobsInv, NEW i \in Proc, QueuedBy(i) # {}
  PROVE  LET r == Min(QueuedBy(i)) IN
         r \in RunId /\ status[r] = Queued /\ owner[r] = i /\ jobOf[r] \in Job /\ r < nextRun
<1>1. QueuedBy(i) \subseteq Nat
  BY JobBounds DEF QueuedBy, RunId
<1>2. Min(QueuedBy(i)) \in QueuedBy(i)
  BY <1>1, MinIn
<1>3. PICK r : r = Min(QueuedBy(i))
  OBVIOUS
<1>4. r \in RunId /\ status[r] = Queued /\ owner[r] = i
  BY <1>2, <1>3 DEF QueuedBy
<1>5. jobOf[r] \in Job /\ ~(r >= nextRun)
  BY <1>4 DEF JobsInv, RowsOK, Queued, NoRow
<1>6. nextRun \in Int /\ r \in Int
  BY <1>4, JobBounds DEF JobsInv, RowTypes, RunId
<1> QED BY <1>3, <1>4, <1>5, <1>6

(* The frame on top.                                                       *)
LEMMA TopFrame ==
  ASSUME JobsInv, NEW i \in Proc, exec[i] # <<>>
  PROVE  /\ exec[i] \in Seq(Frame) /\ Len(exec[i]) \in Nat \ {0} /\ Len(exec[i]) \in DOMAIN exec[i]
         /\ Top(i) \in Frame /\ Top(i) = exec[i][Len(exec[i])] /\ proc[i] \in Alive
<1>1. exec[i] \in Seq(Frame) /\ proc[i] \in Alive
  BY DEF JobsInv, ExecTypes, ProcsOK
<1>2. Len(exec[i]) \in Nat \ {0} /\ Len(exec[i]) \in DOMAIN exec[i]
  BY <1>1
<1> QED BY <1>1, <1>2 DEF Top

LEMMA ResolvesToJobs == ASSUME NEW ref, NEW j \in Resolve(ref) PROVE j \in Job
BY DEF Resolve

(* Steps that change a row's status.                                       *)
Updates ==
  \E i \in Proc : Recover(i) \/ Shutdown(i) \/ StartRun(i) \/ \E verdict \in {Success, Failed} : EndRun(i, verdict)

LEMMA RowCases ==
  ASSUME JobsInv, Next
  PROVE  \/ UNCHANGED rowVars
         \/ Updates /\ RowsUpdated
         \/ FireInserts
         \/ OtherInserts
<1>0. RowTypes /\ ProcTypes /\ ExecTypes /\ status \in [RunId -> Statuses]
  BY DEF JobsInv, RowTypes
<1>2. ASSUME NEW i \in Proc, Recover(i) PROVE RowsUpdated
  BY <1>0, <1>2 DEF Recover, RowsUpdated, MarkInterrupted, Statuses, Interrupted, NoRow
<1>3. ASSUME NEW i \in Proc, Shutdown(i) PROVE RowsUpdated
  <2>1. Cancelled \in Statuses /\ Cancelled # NoRow
    BY DEF Statuses, RowStatus, Verdicts, Cancelled, NoRow
  <2>2. status' = [r \in RunId |-> IF owner[r] = i THEN UpdateRun(status, r, Cancelled)[r] ELSE status[r]]
    BY <1>3 DEF Shutdown
  <2>3. \A r \in RunId : UpdateRun(status, r, Cancelled)[r] = IF status[r] \in Live THEN Cancelled ELSE status[r]
    BY <1>0 DEF UpdateRun
  <2> QED BY <1>0, <1>3, <2>1, <2>2, <2>3 DEF Shutdown, RowsUpdated
<1>4. ASSUME NEW i \in Proc, NEW j \in Job, Fire(i, j)
      PROVE  UNCHANGED rowVars \/ FireInserts
  <2>1. ASSUME NEW st \in Inserted, Insert(i, j, st, key[i]) PROVE InsertBy(i, j, st, key[i])
    <3>1. proc[i] \in Alive /\ key[i] \in Minute \cup {0} /\ UNCHANGED <<proc, goneBefore>>
      BY <1>0, <1>4 DEF JobsInv, ProcsOK, ProcTypes, Alive, Fire, envVars
    <3> QED BY <2>1, <3>1, InsertStep
  <2>3. Queued \in Inserted /\ Skipped \in Inserted
    BY DEF Inserted
  <2>4. \/ UNCHANGED rowVars
        \/ lastFired[i][j] # key[i] /\ \E st \in Inserted : Insert(i, j, st, key[i])
    <3>1. \/ UNCHANGED rowVars
          \/ lastFired[i][j] # key[i] /\ Insert(i, j, IF Cardinality(QueuedBy(i)) < MaxQueued THEN Queued ELSE Skipped, key[i])
      BY <1>4 DEF Fire
    <3> HIDE DEF Inserted
    <3> QED BY <2>3, <3>1
  <2> QED BY <1>4, <2>1, <2>4 DEF FireInserts
<1>5. ASSUME NEW i \in Proc, NEW j \in Job, RunNow(i, j) PROVE InsertBy(i, j, Queued, 0) /\ UNCHANGED lastFired
  <2>1. proc[i] \in Alive /\ UNCHANGED <<proc, goneBefore>> /\ Insert(i, j, Queued, 0) /\ Queued \in Inserted
    BY <1>5 DEF RunNow, Up, Alive, envVars, Inserted
  <2> QED BY <1>5, <2>1, InsertStep DEF RunNow
<1>6. ASSUME NEW i \in Proc, StartRun(i) PROVE RowsUpdated
  <2>1. Min(QueuedBy(i)) \in RunId /\ Running \in Statuses \ {NoRow}
    BY <1>6, FirstQueued DEF StartRun, Statuses, RowStatus, Live, Running, NoRow
  <2> QED BY <1>0, <1>6, <2>1, UpdateStep DEF StartRun
<1>7. ASSUME NEW i \in Proc, CallJob(i)
      PROVE  UNCHANGED lastFired /\ (UNCHANGED rowVars \/ \E j \in Job : InsertBy(i, j, Running, 0))
  <2>1. proc[i] \in Alive /\ UNCHANGED <<proc, goneBefore>> /\ Running \in Inserted
    BY <1>7, TopFrame DEF CallJob, Pending, envVars, Inserted
  <2>2. PICK j \in Job : Insert(i, j, Running, 0) \/ UNCHANGED rowVars
    BY <1>7, ResolvesToJobs DEF CallJob
  <2> QED BY <1>7, <2>1, <2>2, InsertStep DEF CallJob
<1>8. ASSUME NEW i \in Proc, NEW verdict \in {Success, Failed}, EndRun(i, verdict) PROVE RowsUpdated
  <2>1. verdict \in Statuses \ {NoRow}
    BY <1>8 DEF Statuses, RowStatus, Verdicts, Success, Failed, NoRow
  <2>2. Top(i).run \in RunId \cup {0}
    <3>1. exec[i] # <<>>
      BY <1>8 DEF EndRun
    <3> QED BY <3>1, TopFrame DEF Frame
  <2>3. status' = StoreRun(status, Top(i).run, verdict) /\ UNCHANGED <<owner, jobOf, firedAt, firedFor, nextRun>>
    BY <1>8 DEF EndRun
  <2>4. CASE Top(i).run = 0
    BY <1>0, <2>3, <2>4, SameRows DEF StoreRun, rowVars
  <2>5. CASE Top(i).run # 0
    BY <1>0, <2>1, <2>2, <2>3, <2>5, UpdateStep DEF StoreRun
  <2> QED BY <2>4, <2>5
<1>9. Running \in Inserted /\ Queued \in Inserted
  BY DEF Inserted
<1>10. ASSUME NEW i \in Proc, StartServer(i) \/ StartCli(i) \/ Crash(i) \/ Tick(i) \/ CallRefused(i)
       PROVE  UNCHANGED rowVars
  BY <1>10 DEF StartServer, StartCli, Crash, Tick, CallRefused
<1>11. ASSUME Clock \/ (\E a \in Admin : WriteJob(a) \/ \E body \in Bodies : CheckJob(a, body))
              \/ \E j \in Job : DeleteJob(j)
       PROVE  UNCHANGED rowVars
  BY <1>11 DEF Clock, WriteJob, CheckJob, DeleteJob
<1> HIDE DEF Inserted
<1> QED BY <1>2, <1>3, <1>4, <1>5, <1>6, <1>7, <1>8, <1>9, <1>10, <1>11 DEF Next, OtherInserts, Updates

LEMMA RowStep == ASSUME JobsInv, Next PROVE RowsUpdated \/ FireInserts \/ OtherInserts
BY RowCases, SameRows DEF JobsInv

LEMMA RowChange ==
  ASSUME JobsInv, Next
  PROVE  \/ RowsUpdated
         \/ \E i \in Proc, j \in Job, st \in Inserted, at \in Minute \cup {0} : InsertBy(i, j, st, at)
<1>1. \A i \in Proc : key[i] \in Minute \cup {0}
  BY DEF JobsInv, ProcTypes
<1>2. 0 \in Minute \cup {0}
  OBVIOUS
<1>3. FireInserts => \E i \in Proc, j \in Job, st \in Inserted, at \in Minute \cup {0} : InsertBy(i, j, st, at)
  BY <1>1 DEF FireInserts
<1>4. OtherInserts => \E i \in Proc, j \in Job, st \in Inserted, at \in Minute \cup {0} : InsertBy(i, j, st, at)
  BY <1>2 DEF OtherInserts
<1> QED BY <1>3, <1>4, RowStep

-----------------------------------------------------------------------------
(* The rows, and the processes                                             *)

(* An update keeps the rows that are there, and makes none live.           *)
LEMMA UpdatedRows ==
  ASSUME RowsUpdated, NEW r \in RunId
  PROVE  /\ status'[r] = NoRow <=> status[r] = NoRow
         /\ status'[r] \in Live => status[r] \in Live
         /\ IsTerminal(status[r]) => status'[r] = status[r]
BY DEF RowsUpdated, Live, IsTerminal, Queued, Running, NoRow

LEMMA RowsNext ==
  ASSUME JobsInv, Next
  PROVE  RowTypes' /\ RowsOK'
<1>0. RowTypes /\ RowsOK /\ nextRun \in Nat /\ (\A r \in RunId : r \in Int) /\ MaxRuns \in Nat
  BY JobBounds DEF JobsInv, RowTypes, RunId
<1>1. CASE RowsUpdated
  <2>1. RowTypes'
    BY <1>0, <1>1 DEF RowTypes, RowsUpdated
  <2>2. RowsOK'
    BY <1>0, <1>1, UpdatedRows DEF RowsOK, RowsUpdated
  <2> QED BY <2>1, <2>2
<1>2. ASSUME NEW i \in Proc, NEW j \in Job, NEW st \in Inserted, NEW at \in Minute \cup {0},
             InsertBy(i, j, st, at)
      PROVE  RowTypes' /\ RowsOK'
  <2>1. InsertFacts(i, j, st, at)
    BY <1>2 DEF InsertBy
  <2>2. RowsOK'
    <3> SUFFICES ASSUME NEW r \in RunId
                 PROVE  /\ r >= nextRun' => status'[r] = NoRow
                        /\ status'[r] # NoRow => owner'[r] \in Proc /\ jobOf'[r] \in Job
      BY DEF RowsOK
    <3>1. ASSUME r >= nextRun' PROVE status'[r] = NoRow
      <4>1. r >= nextRun /\ r # nextRun
        BY <1>0, <2>1, <3>1 DEF InsertFacts
      <4> QED BY <1>0, <2>1, <4>1 DEF InsertFacts, RowsOK
    <3>2. status'[r] # NoRow => owner'[r] \in Proc /\ jobOf'[r] \in Job
      BY <1>0, <2>1 DEF InsertFacts, RowsOK
    <3> QED BY <3>1, <3>2
  <2> QED BY <2>1, <2>2 DEF InsertFacts
<1> QED BY <1>1, <1>2, RowChange

LEMMA InsertsCounted ==
  ASSUME inserts \in [Proc -> Nat], NEW i \in Proc, NEW j, NEW st, NEW at, Insert(i, j, st, at)
  PROVE  inserts' \in [Proc -> Nat]
<1>1. inserts[i] \in Nat
  OBVIOUS
<1>2. AfterInsert(inserts[i]) \in Nat
  BY <1>1 DEF AfterInsert
<1> QED BY <1>2 DEF Insert

LEMMA ProcTypesNext ==
  ASSUME JobsInv, Next
  PROVE  ProcTypes'
<1>0. /\ ProcTypes /\ minute \in Minute /\ proc \in [Proc -> {"unborn", "dead"} \cup Alive]
      /\ lastFired \in [Proc -> [Job -> Minute \cup {0}]]
      /\ due \in [Proc -> SUBSET Job] /\ key \in [Proc -> Minute \cup {0}]
      /\ DOMAIN read = Proc /\ (\A i \in Proc : DOMAIN read[i] = Job)
      /\ inserts \in [Proc -> Nat] /\ goneBefore \subseteq Proc
  BY DEF JobsInv, ProcTypes
<1>1. ASSUME UNCHANGED <<lastFired, due, read, key, minute, goneBefore>>,
             proc' \in [Proc -> {"unborn", "dead"} \cup Alive], inserts' \in [Proc -> Nat]
      PROVE  ProcTypes'
  BY <1>0, <1>1 DEF ProcTypes
<1>2. ASSUME NEW i \in Proc, Crash(i) \/ Shutdown(i) PROVE ProcTypes'
  <2>1. [j \in Job |-> 0] \in [Job -> Minute \cup {0}]
    OBVIOUS
  <2>2. Forget(i) /\ UNCHANGED <<minute, goneBefore>>
    BY <1>2 DEF Crash, Shutdown, envVars
  <2> QED BY <1>0, <2>1, <2>2 DEF Forget, ProcTypes, Nothing
<1>3. ASSUME NEW i \in Proc, StartServer(i) \/ Recover(i) \/ StartCli(i) PROVE ProcTypes'
  BY <1>0, <1>3 DEF StartServer, Recover, StartCli, ProcTypes, Alive, envVars
<1>4. ASSUME NEW i \in Proc, Tick(i) PROVE ProcTypes'
  BY <1>0, <1>4 DEF Tick, ProcTypes, envVars
<1>5. ASSUME NEW i \in Proc, NEW j \in Job, Fire(i, j) PROVE ProcTypes'
  <2>1. inserts' \in [Proc -> Nat]
    BY <1>0, <1>5, InsertsCounted DEF Fire
  <2>2. /\ lastFired' \in [Proc -> [Job -> Minute \cup {0}]] /\ due' \in [Proc -> SUBSET Job]
        /\ key' \in [Proc -> Minute \cup {0}]
    BY <1>0, <1>5 DEF Fire
  <2> QED BY <1>0, <1>5, <2>1, <2>2 DEF Fire, ProcTypes, envVars
<1>6. ASSUME NEW i \in Proc, NEW j \in Job, RunNow(i, j) PROVE ProcTypes'
  BY <1>0, <1>1, <1>6, InsertsCounted DEF RunNow, envVars
<1>7. ASSUME NEW i \in Proc, CallJob(i) PROVE ProcTypes'
  BY <1>0, <1>1, <1>7, InsertsCounted DEF CallJob, envVars
<1>8. ASSUME NEW i \in Proc, StartRun(i) \/ CallRefused(i) PROVE ProcTypes'
  BY <1>0, <1>1, <1>8 DEF StartRun, CallRefused, envVars
<1>9. ASSUME NEW i \in Proc, NEW verdict, EndRun(i, verdict) PROVE ProcTypes'
  BY <1>0, <1>1, <1>9 DEF EndRun, envVars
<1>10. CASE Clock
  BY <1>0, <1>10 DEF Clock, ProcTypes, procVars
<1>11. ASSUME \/ \E a \in Admin : WriteJob(a) \/ \E body \in Bodies : CheckJob(a, body)
              \/ \E j \in Job : DeleteJob(j)
       PROVE  ProcTypes'
  BY <1>0, <1>1, <1>11 DEF WriteJob, CheckJob, DeleteJob, procVars, envVars
<1> QED BY <1>2, <1>3, <1>4, <1>5, <1>6, <1>7, <1>8, <1>9, <1>10, <1>11 DEF Next

(* Dead processes stay dead.                                               *)
LEMMA DeadStay ==
  ASSUME JobsInv, Next, NEW k \in Proc, proc[k] = "dead"
  PROVE  proc'[k] = "dead"
<1>0. proc \in [Proc -> {"unborn", "dead"} \cup Alive]
  BY DEF JobsInv, ProcTypes
<1>1. ASSUME NEW i \in Proc, StartServer(i) \/ Recover(i) \/ StartCli(i) \/ Crash(i) \/ Shutdown(i)
      PROVE  proc'[k] = "dead"
  BY <1>0, <1>1 DEF StartServer, Recover, StartCli, Crash, Shutdown, Forget, NextProc, Up
<1>2. ASSUME NEW i \in Proc, NEW verdict, EndRun(i, verdict) PROVE proc'[k] = "dead"
  BY <1>0, <1>2 DEF EndRun
<1> QED BY <1>1, <1>2 DEF Next, Clock, Tick, Fire, RunNow, StartRun, CallJob, CallRefused, CheckJob, WriteJob,
           DeleteJob, procVars

LEMMA OwnersNext ==
  ASSUME JobsInv, Next
  PROVE  LiveRunsHaveOwner'
<1>0. /\ LiveRunsHaveOwner /\ RowTypes /\ ProcTypes /\ RowsOK /\ (\A i \in goneBefore : proc[i] = "dead")
      /\ status \in [RunId -> Statuses]
  BY DEF JobsInv, ProcsOK, RowTypes
<1>1. CASE RowsUpdated /\ UNCHANGED goneBefore
  BY <1>0, <1>1, UpdatedRows DEF LiveRunsHaveOwner, RowsUpdated
<1>2. ASSUME NEW i \in Proc, NEW j \in Job, NEW st \in Inserted, NEW at \in Minute \cup {0},
             InsertBy(i, j, st, at)
      PROVE  LiveRunsHaveOwner'
  <2>1. i \notin goneBefore /\ UNCHANGED goneBefore /\ InsertFacts(i, j, st, at)
    BY <1>0, <1>2 DEF InsertBy, Alive
  <2> SUFFICES ASSUME NEW r \in RunId, status'[r] \in Live PROVE owner'[r] \notin goneBefore
    BY <2>1 DEF LiveRunsHaveOwner
  <2>2. status'[r] # NoRow
    BY DEF Live, Queued, Running, NoRow
  <2> QED BY <1>0, <2>1, <2>2 DEF InsertFacts, LiveRunsHaveOwner
<1>3. ASSUME NEW i \in Proc, Recover(i) PROVE LiveRunsHaveOwner'
  <2>1. CASE UNCHANGED <<status, goneBefore>>
    BY <1>0, <1>3, <2>1 DEF Recover, LiveRunsHaveOwner
  <2>2. CASE status' = MarkInterrupted(i) /\ goneBefore' = {k \in Proc : proc[k] = "dead"}
    <3>1. /\ goneBefore' = {k \in Proc : proc[k] = "dead"} /\ proc[i] = "started" /\ UNCHANGED owner
          /\ status' = [r \in RunId |-> IF status[r] \in Live /\ owner[r] # i THEN Interrupted ELSE status[r]]
      BY <1>3, <2>2 DEF Recover, MarkInterrupted
    <3>2. \A r \in RunId : status'[r] \in Live => owner'[r] = i
      BY <3>1 DEF Live, Queued, Running, Interrupted
    <3> QED BY <3>1, <3>2 DEF LiveRunsHaveOwner
  <2> QED BY <1>3, <2>1, <2>2 DEF Recover
<1>4. (\E i \in Proc : Recover(i)) \/ UNCHANGED goneBefore
  BY DEF Next, Clock, StartServer, StartCli, Crash, Shutdown, Tick, Fire, RunNow, StartRun, CallJob, CallRefused, EndRun,
         CheckJob, WriteJob, DeleteJob, envVars
<1> QED BY <1>1, <1>2, <1>3, <1>4, RowChange

LEMMA ProcsNext ==
  ASSUME JobsInv, Next
  PROVE  ProcsOK'
<1>0. /\ ProcTypes /\ ProcsOK /\ ExecTypes
      /\ proc \in [Proc -> {"unborn", "dead"} \cup Alive] /\ due \in [Proc -> SUBSET Job]
      /\ exec \in [Proc -> Seq(Frame)]
  BY DEF JobsInv, ProcTypes, ExecTypes
<1>1. \A i \in goneBefore' : proc'[i] = "dead"
  <2>1. goneBefore' \subseteq {k \in Proc : proc[k] = "dead"}
    <3>1. (\E i \in Proc : Recover(i)) \/ UNCHANGED goneBefore
      BY DEF Next, Clock, StartServer, StartCli, Crash, Shutdown, Tick, Fire, RunNow, StartRun, CallJob, CallRefused,
             EndRun, CheckJob, WriteJob, DeleteJob, envVars
    <3> QED BY <1>0, <3>1 DEF ProcsOK, ProcTypes, Recover
  <2> QED BY <2>1, DeadStay
<1> DEFINE Good(k) == /\ exec'[k] # <<>> => proc'[k] \in Alive
                      /\ due'[k] # {} => proc'[k] = "serving"
<1>2. ASSUME NEW k \in Proc, proc'[k] = proc[k], exec'[k] = exec[k] \/ exec[k] # <<>>, due'[k] \subseteq due[k] PROVE Good(k)
  BY <1>0, <1>2 DEF ProcsOK
<1>3. ASSUME NEW i \in Proc, NEW k \in Proc,
             StartServer(i) \/ Recover(i) \/ StartCli(i) \/ Crash(i) \/ Shutdown(i)
      PROVE  Good(k)
  BY <1>0, <1>3 DEF StartServer, Recover, StartCli, Crash, Shutdown, Forget, NextProc, Up, Alive, ProcsOK
<1>4. ASSUME NEW i \in Proc, NEW k \in Proc, Tick(i) PROVE Good(k)
  BY <1>0, <1>4 DEF Tick, ProcsOK
<1>5. ASSUME NEW i \in Proc, NEW j \in Job, NEW k \in Proc, Fire(i, j) PROVE Good(k)
  BY <1>0, <1>2, <1>5 DEF Fire
<1>6. ASSUME NEW i \in Proc, NEW j \in Job, NEW k \in Proc, RunNow(i, j) PROVE Good(k)
  BY <1>2, <1>6 DEF RunNow
<1>7. ASSUME NEW i \in Proc, NEW k \in Proc, StartRun(i) PROVE Good(k)
  BY <1>0, <1>7 DEF StartRun, Up, Alive, ProcsOK
<1>8. ASSUME NEW i \in Proc, NEW k \in Proc, CallJob(i) PROVE Good(k)
  <2>1. exec'[k] = exec[k] \/ exec[k] # <<>>
    BY <1>0, <1>8 DEF CallJob, Pending
  <2> QED BY <1>2, <1>8, <2>1 DEF CallJob
<1>9. ASSUME NEW i \in Proc, NEW k \in Proc, CallRefused(i) PROVE Good(k)
  BY <1>0, <1>2, <1>9 DEF CallRefused, Pending
<1>10. ASSUME NEW i \in Proc, NEW k \in Proc, NEW verdict, EndRun(i, verdict) PROVE Good(k)
  <2>1. UNCHANGED due /\ Len(exec[i]) > 0 /\ exec[i] # <<>> /\ proc[i] \in Alive
    BY <1>0, <1>10 DEF EndRun, ProcsOK
  <2>2. CASE k # i
    BY <1>0, <1>2, <1>10, <2>1, <2>2 DEF EndRun
  <2>3. CASE k = i /\ proc'[i] = proc[i]
    BY <1>2, <2>1, <2>3
  <2>4. CASE k = i /\ proc'[i] # proc[i]
    BY <1>0, <1>10, <2>1, <2>4 DEF EndRun, ProcsOK
  <2> QED BY <2>2, <2>3, <2>4
<1>11. ASSUME NEW k \in Proc, UNCHANGED procVars PROVE Good(k)
  BY <1>2, <1>11 DEF procVars
<1>12. ASSUME \/ Clock \/ \E a \in Admin : WriteJob(a) \/ \E body \in Bodies : CheckJob(a, body)
              \/ \E j \in Job : DeleteJob(j)
       PROVE  UNCHANGED procVars
  BY <1>12 DEF Clock, WriteJob, CheckJob, DeleteJob
<1>13. \A k \in Proc : Good(k)
  <2> HIDE DEF Good
  <2> QED BY <1>3, <1>4, <1>5, <1>6, <1>7, <1>8, <1>9, <1>10, <1>11, <1>12 DEF Next
<1> QED BY <1>1, <1>13 DEF ProcsOK

-----------------------------------------------------------------------------
(* The scheduler                                                           *)

LEMMA MinuteTypes ==
  ASSUME NEW f \in [Proc -> [Job -> Minute \cup {0}]], NEW k \in Proc, NEW j \in Job
  PROVE  f[k][j] \in Nat
<1>1. f[k][j] \in Minute \cup {0}
  OBVIOUS
<1> QED BY <1>1, JobTimes DEF Minute

(* Steps that touch neither a scheduler nor the clock.                     *)
LEMMA SchedulerRests ==
  ASSUME Next, \A i \in Proc : ~(Crash(i) \/ Shutdown(i) \/ Tick(i) \/ \E j \in Job : Fire(i, j)), ~Clock
  PROVE  UNCHANGED <<lastFired, due, read, key, minute>>
BY DEF Next, StartServer, Recover, StartCli, RunNow, StartRun, CallJob, CallRefused, EndRun,
       CheckJob, WriteJob, DeleteJob, envVars, procVars

LEMMA SchedulerNext ==
  ASSUME JobsInv, Next
  PROVE  SchedulerOK'
<1>0. /\ SchedulerOK /\ minute \in Minute /\ Minute \subseteq Nat \ {0}
      /\ lastFired \in [Proc -> [Job -> Minute \cup {0}]]
      /\ due \in [Proc -> SUBSET Job] /\ key \in [Proc -> Minute \cup {0}]
      /\ DOMAIN read = Proc /\ (\A i \in Proc : DOMAIN read[i] = Job)
  BY JobTimes DEF JobsInv, ProcTypes, Minute
<1> DEFINE Good(i) ==
      /\ \A j \in Job : lastFired'[i][j] <= minute'
      /\ \A j \in due'[i] : /\ key'[i] \in Minute /\ key'[i] <= minute' /\ lastFired'[i][j] <= key'[i]
                            /\ Matches(read'[i][j], TimeOf[key'[i]])
<1>1. ASSUME NEW k \in Proc, lastFired'[k] = lastFired[k], due'[k] = due[k], read'[k] = read[k], key'[k] = key[k], minute' = minute
      PROVE  Good(k)
  BY <1>0, <1>1 DEF SchedulerOK
<1>2. ASSUME NEW k \in Proc, Clock PROVE Good(k)
  <2>1. lastFired'[k] = lastFired[k] /\ due'[k] = due[k] /\ read'[k] = read[k] /\ key'[k] = key[k] /\ minute' = minute + 1
    BY <1>2 DEF Clock, procVars
  <2>2. \A j \in Job : lastFired[k][j] \in Nat /\ lastFired[k][j] <= minute
    BY <1>0, MinuteTypes DEF SchedulerOK
  <2>3. key[k] \in Nat /\ minute \in Nat
    <3>1. key[k] \in Minute \cup {0} /\ minute \in Minute
      BY <1>0
    <3> QED BY <3>1, JobTimes DEF Minute
  <2> QED BY <1>0, <2>1, <2>2, <2>3 DEF SchedulerOK
<1>3. ASSUME NEW k \in Proc, NEW i \in Proc, Crash(i) \/ Shutdown(i) PROVE Good(k)
  <2>1. Forget(i) /\ minute' = minute /\ minute \in Nat
    BY <1>0, <1>3 DEF Crash, Shutdown, envVars
  <2>2. CASE k = i
    <3>1. due'[k] = {} /\ lastFired'[k] = [j \in Job |-> 0]
      BY <1>0, <2>1, <2>2 DEF Forget
    <3> QED BY <2>1, <3>1
  <2>3. CASE k # i
    BY <1>0, <1>1, <2>1, <2>3 DEF Forget
  <2> QED BY <2>2, <2>3
<1>4. ASSUME NEW k \in Proc, NEW i \in Proc, Tick(i) PROVE Good(k)
  <2>1. CASE k = i
    <3>1. /\ key'[k] = minute /\ minute' = minute /\ lastFired'[k] = lastFired[k]
          /\ due'[k] = {j \in Job : IsDue(j, minute)}
          /\ read'[k] = [j \in Job |-> IF IsDue(j, minute) THEN jobs[j].cron ELSE NoCron]
      BY <1>0, <1>4, <2>1 DEF Tick, envVars
    <3>2. \A j \in due'[k] : j \in Job /\ Matches(read'[k][j], TimeOf[minute])
      BY <3>1 DEF IsDue
    <3>3. minute <= minute
      BY <1>0
    <3> QED BY <1>0, <3>1, <3>2, <3>3 DEF SchedulerOK
  <2>2. CASE k # i
    BY <1>0, <1>1, <1>4, <2>2 DEF Tick, envVars
  <2> QED BY <2>1, <2>2
<1>5. ASSUME NEW k \in Proc, NEW i \in Proc, NEW j \in Job, Fire(i, j) PROVE Good(k)
  <2>1. CASE k = i
    <3>1. /\ due'[k] = due[k] \ {j} /\ minute' = minute /\ j \in due[k]
          /\ lastFired'[k] = [lastFired[k] EXCEPT ![j] = key[k]]
          /\ due[k] # {j} => key'[k] = key[k]
          /\ \A m \in Job : m # j => read'[k][m] = read[k][m]
      BY <1>0, <1>5, <2>1 DEF Fire, envVars
    <3>2. key[k] \in Minute /\ key[k] <= minute /\ (\A m \in Job : lastFired[k][m] <= minute)
      BY <1>0, <3>1 DEF SchedulerOK
    <3>3. \A m \in due[k] : lastFired[k][m] <= key[k] /\ Matches(read[k][m], TimeOf[key[k]])
      BY <1>0 DEF SchedulerOK
    <3>4. \A m \in Job : lastFired'[k][m] = IF m = j THEN key[k] ELSE lastFired[k][m]
      BY <1>0, <3>1
    <3>5. \A m \in due'[k] : m # j /\ m \in due[k] /\ m \in Job /\ due[k] # {j}
      BY <1>0, <3>1
    <3> QED BY <3>1, <3>2, <3>3, <3>4, <3>5
  <2>2. CASE k # i
    BY <1>0, <1>1, <1>5, <2>2 DEF Fire, envVars
  <2> QED BY <2>1, <2>2
<1>6. \A k \in Proc : Good(k)
  <2> HIDE DEF Good
  <2>1. CASE \E i \in Proc : Crash(i) \/ Shutdown(i) \/ Tick(i) \/ \E j \in Job : Fire(i, j)
    BY <1>3, <1>4, <1>5, <2>1
  <2>2. CASE Clock
    BY <1>2, <2>2
  <2> QED BY <1>1, <2>1, <2>2, SchedulerRests
<1> QED BY <1>6 DEF SchedulerOK

(* A row that is not for a scheduled minute, and the firings so far.       *)
LEMMA FiringsKept ==
  ASSUME JobsInv, Next,
         NEW n,  \* a row that is new
         \A r \in RunId : Fired(r)' /\ r # n =>
           /\ Fired(r) /\ owner'[r] = owner[r] /\ jobOf'[r] = jobOf[r]
           /\ firedAt'[r] = firedAt[r] /\ firedFor'[r] = firedFor[r],
         \A k \in Proc : proc'[k] # "dead" => \A j \in Job : lastFired'[k][j] >= lastFired[k][j],
         n \in RunId => ~Fired(n)'
  PROVE  FiringsOK'
<1>0. /\ FiringsOK /\ RowsOK /\ Minute \subseteq Nat \ {0} /\ (\A r \in RunId : firedAt[r] \in Nat)
      /\ lastFired \in [Proc -> [Job -> Minute \cup {0}]]
      /\ lastFired' \in [Proc -> [Job -> Minute \cup {0}]]
  BY JobTimes, ProcTypesNext DEF JobsInv, ProcTypes, RowTypes, Minute
<1> SUFFICES ASSUME NEW r \in RunId, Fired(r)'
             PROVE  /\ Matches(firedFor[r], TimeOf[firedAt[r]])'
                    /\ proc'[owner'[r]] # "dead" => firedAt'[r] <= lastFired'[owner'[r]][jobOf'[r]]
                    /\ \A s \in RunId : (Fired(s)' /\ s # r /\ owner'[s] = owner'[r] /\ jobOf'[s] = jobOf'[r])
                                          => firedAt'[s] # firedAt'[r]
  BY Zenon DEF FiringsOK
<1>1. r # n /\ Fired(r) /\ owner'[r] = owner[r] /\ jobOf'[r] = jobOf[r] /\ firedAt'[r] = firedAt[r] /\ firedFor'[r] = firedFor[r]
  OBVIOUS
<1>2. owner[r] \in Proc /\ jobOf[r] \in Job
  BY <1>0, <1>1 DEF RowsOK, Fired
<1>3. Matches(firedFor[r], TimeOf[firedAt[r]])'
  BY <1>0, <1>1 DEF FiringsOK
<1>4. ASSUME proc'[owner[r]] # "dead" PROVE firedAt[r] <= lastFired'[owner[r]][jobOf[r]]
  <2>1. proc[owner[r]] # "dead"
    BY <1>2, <1>4, DeadStay
  <2>2. firedAt[r] <= lastFired[owner[r]][jobOf[r]]
    BY <1>0, <1>1, <2>1 DEF FiringsOK
  <2>3. lastFired'[owner[r]][jobOf[r]] >= lastFired[owner[r]][jobOf[r]]
    BY <1>2, <1>4
  <2>4. lastFired'[owner[r]][jobOf[r]] \in Nat /\ lastFired[owner[r]][jobOf[r]] \in Nat /\ firedAt[r] \in Nat
    BY <1>0, <1>2, MinuteTypes
  <2> QED BY <2>2, <2>3, <2>4
<1>5. ASSUME NEW s \in RunId, Fired(s)', s # r, owner'[s] = owner'[r], jobOf'[s] = jobOf'[r]
      PROVE  firedAt'[s] # firedAt'[r]
  <2>1. s # n /\ Fired(s) /\ owner'[s] = owner[s] /\ jobOf'[s] = jobOf[s] /\ firedAt'[s] = firedAt[s] /\ firedFor'[s] = firedFor[s]
    BY <1>5
  <2> QED BY <1>0, <1>1, <1>5, <2>1 DEF FiringsOK
<1> QED BY <1>1, <1>3, <1>4, <1>5

(* A scheduler that fires has not fired the job in this minute before.     *)
LEMMA FireFires ==
  ASSUME JobsInv, Next, NEW i \in Proc, NEW j \in Job, Fire(i, j), NEW st \in Inserted,
         lastFired[i][j] # key[i], InsertBy(i, j, st, key[i])
  PROVE  FiringsOK'
<1>0. /\ FiringsOK /\ RowsOK /\ nextRun \in RunId /\ UNCHANGED proc
      /\ lastFired \in [Proc -> [Job -> Minute \cup {0}]]
  BY DEF JobsInv, ProcTypes, InsertBy, InsertFacts
<1>1. /\ lastFired' = [lastFired EXCEPT ![i][j] = key[i]]
      /\ key[i] \in Minute /\ lastFired[i][j] <= key[i] /\ Matches(read[i][j], TimeOf[key[i]])
  BY DEF JobsInv, SchedulerOK, Fire
<1>2. key[i] \in Nat /\ key[i] # 0 /\ lastFired[i][j] \in Nat /\ lastFired[i][j] < key[i]
  <2>1. lastFired[i][j] \in Nat
    BY <1>0, MinuteTypes
  <2>2. key[i] \in Nat /\ key[i] # 0
    BY <1>1, JobTimes DEF Minute
  <2> QED BY <1>1, <2>1, <2>2
<1>3. lastFired'[i][j] = key[i] /\ \A k \in Proc, m \in Job : <<k, m>> # <<i, j>> => lastFired'[k][m] = lastFired[k][m]
  BY <1>0, <1>1
<1>4. \A r \in RunId : status'[r] # NoRow =>
       /\ owner'[r] = IF r = nextRun THEN i ELSE owner[r]
       /\ jobOf'[r] = IF r = nextRun THEN j ELSE jobOf[r]
       /\ firedAt'[r] = IF r = nextRun THEN key[i] ELSE firedAt[r]
       /\ firedAt'[r] # 0 => firedFor'[r] = IF r = nextRun THEN read[i][j] ELSE firedFor[r]
       /\ status'[r] = IF r = nextRun THEN st ELSE status[r]
  BY DEF InsertBy, InsertFacts
<1>5. ASSUME NEW r \in RunId, Fired(r)', r # nextRun
      PROVE  /\ Fired(r) /\ owner'[r] = owner[r] /\ jobOf'[r] = jobOf[r] /\ firedAt'[r] = firedAt[r] /\ firedFor'[r] = firedFor[r]
             /\ owner[r] \in Proc /\ jobOf[r] \in Job /\ firedAt[r] \in Nat
  <2>1. /\ Fired(r) /\ owner'[r] = owner[r] /\ jobOf'[r] = jobOf[r] /\ firedAt'[r] = firedAt[r] /\ firedFor'[r] = firedFor[r]
    BY <1>4, <1>5 DEF Fired
  <2>2. owner[r] \in Proc /\ jobOf[r] \in Job
    BY <1>0, <2>1 DEF RowsOK, Fired
  <2>3. firedAt[r] \in Minute \cup {0}
    BY DEF JobsInv, RowTypes
  <2> QED BY <2>1, <2>2, <2>3, JobTimes DEF Minute
(* Earlier firings of the same job are of earlier minutes.                 *)
<1>6. ASSUME NEW r \in RunId, Fired(r)', r # nextRun, owner[r] = i, jobOf[r] = j PROVE firedAt[r] < key[i]
  <2>1. proc[owner[r]] # "dead"
    BY <1>6 DEF InsertBy, Alive
  <2>2. firedAt[r] <= lastFired[i][j] /\ firedAt[r] \in Nat
    BY <1>0, <1>5, <1>6, <2>1 DEF FiringsOK
  <2> QED BY <1>2, <2>2
<1> SUFFICES ASSUME NEW r \in RunId, Fired(r)'
             PROVE  /\ Matches(firedFor[r], TimeOf[firedAt[r]])'
                    /\ proc'[owner'[r]] # "dead" => firedAt'[r] <= lastFired'[owner'[r]][jobOf'[r]]
                    /\ \A s \in RunId : (Fired(s)' /\ s # r /\ owner'[s] = owner'[r] /\ jobOf'[s] = jobOf'[r])
                                          => firedAt'[s] # firedAt'[r]
  BY Zenon DEF FiringsOK
<1>7. CASE r = nextRun
  <2>1. owner'[r] = i /\ jobOf'[r] = j /\ firedAt'[r] = key[i] /\ firedFor'[r] = read[i][j]
    BY <1>4, <1>7 DEF Fired
  <2>2. Matches(firedFor[r], TimeOf[firedAt[r]])'
    BY <1>1, <2>1
  <2>3. firedAt'[r] <= lastFired'[owner'[r]][jobOf'[r]]
    BY <1>2, <1>3, <2>1
  <2>4. ASSUME NEW s \in RunId, Fired(s)', s # r, owner'[s] = owner'[r], jobOf'[s] = jobOf'[r]
        PROVE  firedAt'[s] # firedAt'[r]
    <3>1. s # nextRun /\ owner[s] = i /\ jobOf[s] = j /\ firedAt'[s] = firedAt[s] /\ firedAt[s] \in Nat
      BY <1>5, <1>7, <2>1, <2>4
    <3>2. firedAt[s] < key[i]
      BY <1>6, <2>4, <3>1
    <3> QED BY <1>2, <2>1, <3>1, <3>2
  <2> QED BY <2>2, <2>3, <2>4
<1>8. CASE r # nextRun
  <2>1. /\ Fired(r) /\ owner'[r] = owner[r] /\ jobOf'[r] = jobOf[r] /\ firedAt'[r] = firedAt[r] /\ firedFor'[r] = firedFor[r]
        /\ owner[r] \in Proc /\ jobOf[r] \in Job /\ firedAt[r] \in Nat
    BY <1>5, <1>8
  <2>2. Matches(firedFor[r], TimeOf[firedAt[r]])'
    BY <1>0, <2>1 DEF FiringsOK
  <2>3. ASSUME proc'[owner'[r]] # "dead" PROVE firedAt'[r] <= lastFired'[owner'[r]][jobOf'[r]]
    <3>1. CASE owner[r] = i /\ jobOf[r] = j
      <4>1. firedAt[r] < key[i]
        BY <1>6, <1>8, <3>1
      <4>2. lastFired'[owner[r]][jobOf[r]] = key[i]
        BY <1>3, <3>1
      <4> QED BY <1>2, <2>1, <4>1, <4>2
    <3>2. CASE ~(owner[r] = i /\ jobOf[r] = j)
      <4>1. lastFired'[owner[r]][jobOf[r]] = lastFired[owner[r]][jobOf[r]]
        BY <1>3, <2>1, <3>2
      <4>2. firedAt[r] <= lastFired[owner[r]][jobOf[r]]
        BY <1>0, <2>1, <2>3 DEF FiringsOK
      <4> QED BY <2>1, <4>1, <4>2
    <3> QED BY <3>1, <3>2
  <2>4. ASSUME NEW s \in RunId, Fired(s)', s # r, owner'[s] = owner'[r], jobOf'[s] = jobOf'[r]
        PROVE  firedAt'[s] # firedAt'[r]
    <3>1. CASE s = nextRun
      <4>1. owner[r] = i /\ jobOf[r] = j /\ firedAt'[s] = key[i]
        BY <1>4, <2>1, <2>4, <3>1 DEF Fired
      <4>2. firedAt[r] < key[i]
        BY <1>6, <1>8, <4>1
      <4> QED BY <1>2, <2>1, <4>1, <4>2
    <3>2. CASE s # nextRun
      <4>1. /\ Fired(s) /\ owner'[s] = owner[s] /\ jobOf'[s] = jobOf[s] /\ firedAt'[s] = firedAt[s] /\ firedFor'[s] = firedFor[s]
        BY <1>5, <2>4, <3>2
      <4> QED BY <1>0, <2>1, <2>4, <4>1 DEF FiringsOK
    <3> QED BY <3>1, <3>2
  <2> QED BY <2>1, <2>2, <2>3, <2>4
<1> QED BY <1>7, <1>8

(* last_fired_ only grows, while the process lives.                        *)
LEMMA LastFiredGrows ==
  ASSUME JobsInv, Next, NEW k \in Proc, proc'[k] # "dead", NEW m \in Job
  PROVE  lastFired'[k][m] >= lastFired[k][m]
<1>0. /\ lastFired \in [Proc -> [Job -> Minute \cup {0}]] /\ lastFired[k][m] \in Nat
      /\ proc \in [Proc -> {"unborn", "dead"} \cup Alive]
  BY MinuteTypes DEF JobsInv, ProcTypes
<1>1. CASE lastFired'[k][m] = lastFired[k][m]
  BY <1>0, <1>1
<1>2. ASSUME NEW i \in Proc, Crash(i) \/ Shutdown(i) PROVE lastFired'[k][m] = lastFired[k][m]
  BY <1>0, <1>2 DEF Crash, Shutdown, Forget
<1>3. ASSUME NEW i \in Proc, NEW j \in Job, Fire(i, j) PROVE lastFired'[k][m] >= lastFired[k][m]
  <2>1. lastFired' = [lastFired EXCEPT ![i][j] = key[i]] /\ lastFired[i][j] <= key[i]
    BY <1>3 DEF JobsInv, SchedulerOK, Fire
  <2>2. \/ k = i /\ m = j /\ lastFired'[k][m] = key[i]
        \/ lastFired'[k][m] = lastFired[k][m]
    BY <1>0, <2>1
  <2>3. CASE k = i /\ m = j /\ lastFired'[k][m] = key[i]
    <3>1. key[i] \in Minute \cup {0}
      BY DEF JobsInv, ProcTypes
    <3>2. key[i] \in Nat
      BY <3>1, JobTimes DEF Minute
    <3> QED BY <1>0, <2>1, <2>3, <3>2
  <2> QED BY <1>1, <2>2, <2>3
<1> QED BY <1>1, <1>2, <1>3 DEF Next, Clock, StartServer, Recover, StartCli, Tick, RunNow, StartRun, CallJob, CallRefused,
           EndRun, CheckJob, WriteJob, DeleteJob, procVars

LEMMA FiringsNext ==
  ASSUME JobsInv, Next
  PROVE  FiringsOK'
<1>0. \A k \in Proc : proc'[k] # "dead" => \A m \in Job : lastFired'[k][m] >= lastFired[k][m]
  BY LastFiredGrows
<1>1. CASE RowsUpdated
  <2>1. \A r \in RunId : Fired(r)' =>
          Fired(r) /\ owner'[r] = owner[r] /\ jobOf'[r] = jobOf[r] /\ firedAt'[r] = firedAt[r] /\ firedFor'[r] = firedFor[r]
    BY <1>1, UpdatedRows DEF Fired, RowsUpdated
  <2>2. 0 \notin RunId
    BY JobBounds DEF RunId
  <2> QED BY <1>0, <2>1, <2>2, FiringsKept
<1>2. CASE FireInserts
  BY <1>2, FireFires DEF FireInserts
<1>3. ASSUME NEW i \in Proc, NEW j \in Job, NEW st \in Inserted, InsertBy(i, j, st, 0)
      PROVE  FiringsOK'
  <2>1. PICK n : n = nextRun
    OBVIOUS
  <2>2. \A r \in RunId : status'[r] # NoRow =>
       /\ owner'[r] = IF r = n THEN i ELSE owner[r]
       /\ jobOf'[r] = IF r = n THEN j ELSE jobOf[r]
       /\ firedAt'[r] = IF r = n THEN 0 ELSE firedAt[r]
       /\ firedAt'[r] # 0 => firedFor'[r] = IF r = n THEN read[i][j] ELSE firedFor[r]
       /\ status'[r] = IF r = n THEN st ELSE status[r]
    BY <1>3, <2>1 DEF InsertBy, InsertFacts
  <2>3. \A r \in RunId : Fired(r)' /\ r # n =>
          Fired(r) /\ owner'[r] = owner[r] /\ jobOf'[r] = jobOf[r] /\ firedAt'[r] = firedAt[r] /\ firedFor'[r] = firedFor[r]
    BY <2>2 DEF Fired
  <2>4. n \in RunId => ~Fired(n)'
    BY <2>2 DEF Fired
  <2> QED BY <1>0, <2>3, <2>4, FiringsKept
<1> QED BY <1>1, <1>2, <1>3, RowStep DEF OtherInserts

-----------------------------------------------------------------------------
(* Nested runs                                                             *)

(* g is f, or the frames below, as far as jobs and runs go.                *)
Below(g, f) ==
  /\ g \in Seq(Frame) /\ Len(g) <= Len(f)
  /\ \A n \in DOMAIN g : g[n].job = f[n].job /\ g[n].run = f[n].run

LEMMA BelowStack ==
  ASSUME NEW f \in Seq(Frame), NEW g, Below(g, f), StackOK(f)
  PROVE  StackOK(g) /\ DOMAIN g \subseteq DOMAIN f
<1>1. /\ Len(g) \in Nat /\ Len(f) \in Nat /\ Len(g) <= Len(f) /\ DOMAIN g = 1..Len(g) /\ DOMAIN f = 1..Len(f)
      /\ Len(f) <= MaxDepth + 1 /\ MaxDepth \in Nat
  BY JobBounds DEF Below, StackOK
<1>2. DOMAIN g \subseteq DOMAIN f /\ Len(g) <= MaxDepth + 1
  BY <1>1
<1> QED BY <1>2 DEF Below, StackOK

LEMMA RefusedFrames ==
  ASSUME JobsInv, NEW i \in Proc, CallRefused(i)
  PROVE  \E g : exec' = [exec EXCEPT ![i] = g] /\ Below(g, exec[i])
<1> DEFINE f == exec[i]
           n == Len(exec[i])
           g == [f EXCEPT ![n] = [f[n] EXCEPT !.failed = TRUE]]
<1>1. exec[i] # <<>>
  BY DEF CallRefused, Pending
<1>2. f \in Seq(Frame) /\ n \in Nat \ {0} /\ n \in DOMAIN f /\ f[n] \in Frame
  BY <1>1, TopFrame
<1>3. [f[n] EXCEPT !.failed = TRUE] \in Frame
  BY <1>2 DEF Frame
<1>4. g \in Seq(Frame) /\ Len(g) = Len(f) /\ DOMAIN g = DOMAIN f
  BY <1>2, <1>3
<1>5. \A m \in DOMAIN g : g[m].job = f[m].job /\ g[m].run = f[m].run
  <2>1. \A m \in DOMAIN g : g[m] = IF m = n THEN [f[n] EXCEPT !.failed = TRUE] ELSE f[m]
    BY <1>2, <1>4
  <2>2. [f[n] EXCEPT !.failed = TRUE].job = f[n].job /\ [f[n] EXCEPT !.failed = TRUE].run = f[n].run
    BY <1>2 DEF Frame
  <2> HIDE DEF g, f, n
  <2> QED BY <2>1, <2>2
<1>6. exec' = [exec EXCEPT ![i] = g]
  BY DEF CallRefused
<1>7. Below(g, exec[i])
  <2> HIDE DEF g
  <2> QED BY <1>2, <1>4, <1>5 DEF Below
<1> HIDE DEF g
<1> QED BY <1>6, <1>7

LEMMA ReturnedFrames ==
  ASSUME NEW h \in Seq(Frame), h # <<>>, NEW verdict
  PROVE  Below(Returned(h, verdict), h) /\ Len(Returned(h, verdict)) = Len(h)
<1>1. PICK n : n = Len(h)
  OBVIOUS
<1>2. n \in Nat \ {0} /\ n \in DOMAIN h /\ h[n] \in Frame
  BY <1>1
<1>3. PICK b \in BOOLEAN : b = (h[n].failed \/ verdict # Success)
  BY Zenon
<1>4. /\ h[n] = [job |-> h[n].job, run |-> h[n].run, next |-> h[n].next, failed |-> h[n].failed]
      /\ h[n].job \in Job \cup {CliFile} /\ h[n].run \in RunId \cup {0} /\ h[n].next \in Nat
  BY <1>2 DEF Frame
<1> DEFINE top == [job |-> h[n].job, run |-> h[n].run, next |-> h[n].next + 1, failed |-> b]
<1>5. top \in Frame
  BY <1>4 DEF Frame
<1>6. Returned(h, verdict) = [h EXCEPT ![n].failed = b, ![n].next = @ + 1]
  BY <1>1, <1>3, Zenon DEF Returned
<1>7. Returned(h, verdict) = [h EXCEPT ![n] = top]
  BY <1>2, <1>4, <1>6
<1> HIDE DEF top
<1>8. /\ [h EXCEPT ![n] = top] \in Seq(Frame) /\ Len([h EXCEPT ![n] = top]) = Len(h)
      /\ DOMAIN [h EXCEPT ![n] = top] = DOMAIN h
      /\ \A m \in DOMAIN h : [h EXCEPT ![n] = top][m] = IF m = n THEN top ELSE h[m]
  BY <1>2, <1>5
<1>9. top.job = h[n].job /\ top.run = h[n].run
  BY DEF top
<1> QED BY <1>7, <1>8, <1>9 DEF Below

LEMMA EndFrames ==
  ASSUME JobsInv, NEW i \in Proc, NEW verdict, EndRun(i, verdict)
  PROVE  \E g : exec' = [exec EXCEPT ![i] = g] /\ Below(g, exec[i]) /\ Len(g) = Len(exec[i]) - 1
<1> DEFINE n == Len(exec[i])
           h == SubSeq(exec[i], 1, n - 1)
<1>0. Len(exec[i]) > 0
  BY Zenon DEF EndRun
<1>1. exec[i] # <<>>
  BY <1>0
<1>2. exec[i] \in Seq(Frame) /\ n \in Nat \ {0} /\ n \in DOMAIN exec[i]
  BY <1>1, TopFrame
<1>3. exec' = [exec EXCEPT ![i] = IF n = 1 THEN <<>> ELSE Returned(h, verdict)]
  BY DEF EndRun
<1>4. CASE n = 1
  <2>1. <<>> \in Seq(Frame) /\ Len(<<>>) = 0 /\ DOMAIN <<>> = {}
    OBVIOUS
  <2>2. exec' = [exec EXCEPT ![i] = <<>>]
    BY <1>3, <1>4
  <2>3. Below(<<>>, exec[i]) /\ Len(<<>>) = n - 1
    BY <1>2, <1>4, <2>1 DEF Below
  <2> QED BY <2>2, <2>3
<1>5. CASE n # 1
  <2>0. n - 1 \in 1..n /\ n - 1 \in Nat /\ n - 1 <= n
    <3> HIDE DEF n
    <3> QED BY <1>2, <1>5
  <2>1. h \in Seq(Frame) /\ Len(h) = n - 1 /\ (\A m \in 1..(n - 1) : h[m] = exec[i][m])
    BY <1>2, <2>0
  <2>2. h # <<>>
    <3>1. Len(h) # 0
      <4> HIDE DEF h, n
      <4> QED BY <1>2, <1>5, <2>1
    <3> HIDE DEF h
    <3> QED BY <3>1
  <2>3. Below(Returned(h, verdict), h) /\ Len(Returned(h, verdict)) = n - 1
    BY <2>1, <2>2, ReturnedFrames
  <2>4. exec' = [exec EXCEPT ![i] = Returned(h, verdict)]
    BY <1>3, <1>5
  <2>5. Below(Returned(h, verdict), exec[i])
    <3> HIDE DEF h, n
    <3> QED BY <1>2, <2>0, <2>1, <2>3 DEF Below, n
  <2> HIDE DEF h
  <2> QED BY <2>3, <2>4, <2>5
<1> QED BY <1>4, <1>5

(* A frame's row through an insert, and through an update that spares it.  *)
LEMMA FrameThroughInsert ==
  ASSUME RowTypes, NEW i, NEW j, NEW st, NEW at, InsertFacts(i, j, st, at),
         NEW k \in Proc, NEW r \in RunId, FrameOK(k, r)
  PROVE  r < nextRun /\ r < nextRun' /\ (status'[r] = NoRow \/ (owner'[r] = k /\ status'[r] \in {Running, Interrupted}))
<1>1. r \in Int /\ nextRun \in Int /\ r < nextRun /\ nextRun' = nextRun + 1
  BY JobBounds DEF RowTypes, InsertFacts, FrameOK, RunId
<1>2. r # nextRun /\ r < nextRun'
  BY <1>1
<1>3. status'[r] # NoRow => owner'[r] = owner[r] /\ status'[r] = status[r]
  BY <1>2 DEF InsertFacts
<1> QED BY <1>1, <1>2, <1>3 DEF FrameOK

LEMMA FrameThroughUpdate ==
  ASSUME UNCHANGED <<owner, nextRun>>, NEW k, NEW r, FrameOK(k, r),
         status'[r] = status[r] \/ (status[r] # NoRow /\ status'[r] \in {Running, Interrupted})
  PROVE  r < nextRun' /\ (status'[r] = NoRow \/ (owner'[r] = k /\ status'[r] \in {Running, Interrupted}))
BY DEF FrameOK

(* One frame.                                                              *)
LEMMA OneFrame ==
  ASSUME NEW f \in Frame
  PROVE  <<f>> \in Seq(Frame) /\ StackOK(<<f>>) /\ DOMAIN <<f>> = {1} /\ <<f>>[1] = f
<1>1. <<f>> \in Seq(Frame) /\ Len(<<f>>) = 1 /\ DOMAIN <<f>> = {1} /\ <<f>>[1] = f
  OBVIOUS
<1>2. 1 <= MaxDepth + 1
  BY JobBounds
<1> QED BY <1>1, <1>2 DEF StackOK

(* Where exec is left alone.                                               *)
LEMMA ExecRests ==
  ASSUME Next, \A i \in Proc : ~(StartCli(i) \/ Crash(i) \/ Shutdown(i) \/ StartRun(i) \/ CallJob(i) \/ CallRefused(i)
                                 \/ \E verdict \in {Success, Failed} : EndRun(i, verdict))
  PROVE  UNCHANGED exec
BY DEF Next, Clock, StartServer, Recover, Tick, Fire, RunNow, CheckJob, WriteJob, DeleteJob, procVars

(* The frames of process k, as primed.                                     *)
RowOf(k, r) == r < nextRun' /\ (status'[r] = NoRow \/ (owner'[r] = k /\ status'[r] \in {Running, Interrupted}))
FramesKept(k) ==
  /\ exec'[k] \in Seq(Frame) /\ StackOK(exec'[k])
  /\ \A n \in DOMAIN exec'[k] : exec'[k][n].run # 0 => RowOf(k, exec'[k][n].run)

LEMMA FrameRuns ==
  ASSUME JobsInv, NEW k \in Proc, NEW n \in DOMAIN exec[k], exec[k][n].run # 0
  PROVE  exec[k][n].run \in RunId /\ FrameOK(k, exec[k][n].run)
<1>1. exec[k] \in Seq(Frame)
  BY DEF JobsInv, ExecTypes
<1>2. exec[k][n] \in Frame
  BY <1>1
<1> QED BY <1>2 DEF Frame, JobsInv, FramesOK

LEMMA SameFrames ==
  ASSUME JobsInv, NEW k \in Proc, Below(exec'[k], exec[k]),
         \A n \in DOMAIN exec'[k] : exec[k][n].run # 0 => RowOf(k, exec[k][n].run)
  PROVE  FramesKept(k)
<1>1. exec[k] \in Seq(Frame) /\ StackOK(exec[k])
  BY DEF JobsInv, ExecTypes, FramesOK
<1>2. StackOK(exec'[k]) /\ exec'[k] \in Seq(Frame)
  BY <1>1, BelowStack DEF Below
<1> QED BY <1>2 DEF Below, FramesKept

LEMMA SelfBelow == ASSUME NEW f \in Seq(Frame) PROVE Below(f, f)
<1>1. Len(f) \in Nat
  OBVIOUS
<1> QED BY <1>1 DEF Below

(* A process whose frames stay keeps them, whatever the step does.         *)
LEMMA OthersFrames ==
  ASSUME JobsInv, Next, NEW k \in Proc, exec'[k] = exec[k]
  PROVE  FramesKept(k)
<1>0. /\ RowTypes /\ exec \in [Proc -> Seq(Frame)] /\ status \in [RunId -> Statuses] /\ Below(exec'[k], exec[k])
      /\ proc \in [Proc -> {"unborn", "dead"} \cup Alive]
  BY SelfBelow DEF JobsInv, ExecTypes, RowTypes, ProcTypes
<1> SUFFICES ASSUME NEW n \in DOMAIN exec[k], exec[k][n].run # 0 PROVE RowOf(k, exec[k][n].run)
  BY <1>0, SameFrames
<1>1. PICK r \in RunId : r = exec[k][n].run /\ FrameOK(k, r)
  BY FrameRuns
<1> SUFFICES RowOf(k, r)
  BY <1>1
<1>2. ASSUME NEW i \in Proc, NEW j \in Job, NEW st \in Inserted, NEW at \in Minute \cup {0}, InsertBy(i, j, st, at)
      PROVE  RowOf(k, r)
  BY <1>0, <1>1, <1>2, FrameThroughInsert DEF InsertBy, RowOf
<1>3. ASSUME UNCHANGED <<owner, nextRun>>, status'[r] = status[r] \/ (status'[r] = Interrupted /\ status[r] # NoRow)
      PROVE  RowOf(k, r)
  BY <1>1, <1>3, FrameThroughUpdate DEF RowOf
<1>4. ASSUME NEW i \in Proc, Recover(i) PROVE RowOf(k, r)
  <2>1. status'[r] = status[r] \/ (status'[r] = Interrupted /\ status[r] # NoRow)
    BY <1>4 DEF Recover, MarkInterrupted, Live, Queued, Running, NoRow
  <2> QED BY <1>3, <1>4, <2>1 DEF Recover
<1>5. ASSUME NEW i \in Proc, Shutdown(i) PROVE RowOf(k, r)
  <2>1. status'[r] = IF owner[r] = i THEN UpdateRun(status, r, Cancelled)[r] ELSE status[r]
    BY <1>5 DEF Shutdown
  <2>2. exec[k] # <<>> /\ UNCHANGED <<owner, nextRun>>
    BY <1>0, <1>5 DEF Shutdown
  <2>3. k # i
    BY <1>0, <1>5, <2>2 DEF Shutdown, Forget
  <2>4. status[r] # NoRow => owner[r] # i
    BY <1>1, <2>3 DEF FrameOK
  <2>5. status'[r] = status[r]
    BY <2>1, <2>4 DEF UpdateRun, Live, Queued, Running, NoRow
  <2> QED BY <1>3, <2>2, <2>5
<1>6. ASSUME NEW i \in Proc, StartRun(i) PROVE RowOf(k, r)
  <2>1. PICK q \in RunId : q = Min(QueuedBy(i)) /\ status[q] = Queued
    BY <1>6, FirstQueued DEF StartRun
  <2>2. status' = UpdateRun(status, q, Running) /\ UNCHANGED <<owner, nextRun>>
    BY <1>6, <2>1 DEF StartRun
  <2>3. r # q
    BY <1>1, <2>1 DEF FrameOK, Queued, Running, Interrupted, NoRow
  <2>4. status'[r] = status[r]
    BY <1>0, <2>2, <2>3 DEF UpdateRun
  <2> QED BY <1>3, <2>2, <2>4
<1>7. ASSUME NEW i \in Proc, NEW verdict \in {Success, Failed}, EndRun(i, verdict) PROVE RowOf(k, r)
  <2>1. exec[i] # <<>> /\ status' = StoreRun(status, Top(i).run, verdict) /\ UNCHANGED <<owner, nextRun>>
    BY <1>7 DEF EndRun
  <2>2. k # i
    <3>1. PICK g : exec' = [exec EXCEPT ![i] = g] /\ Len(g) = Len(exec[i]) - 1
      BY <1>7, EndFrames
    <3>2. exec'[i] = g /\ Len(exec[i]) \in Nat
      BY <1>0, <3>1
    <3> QED BY <3>1, <3>2
  <2>3. PICK q : q = Top(i).run
    OBVIOUS
  <2>4. q # 0 => q \in RunId /\ FrameOK(i, q)
    BY <2>1, <2>3, TopFrame, FrameRuns
  <2>5. status'[r] = status[r]
    <3>1. CASE q = 0
      BY <2>1, <2>3, <3>1 DEF StoreRun
    <3>2. CASE q # 0 /\ status[q] \in Live
      <4>1. owner[q] = i /\ status' = [status EXCEPT ![q] = verdict]
        BY <2>1, <2>3, <2>4, <3>2 DEF FrameOK, StoreRun, UpdateRun, Live, Queued, Running, NoRow
      <4>2. r # q
        BY <1>1, <2>2, <3>2, <4>1 DEF FrameOK, Live, Queued, Running, NoRow
      <4> QED BY <1>0, <4>1, <4>2
    <3>3. CASE q # 0 /\ status[q] \notin Live
      BY <2>1, <2>3, <3>3 DEF StoreRun, UpdateRun
    <3> QED BY <3>1, <3>2, <3>3
  <2> QED BY <1>3, <2>1, <2>5
<1>8. CASE UNCHANGED rowVars
  BY <1>3, <1>8 DEF rowVars
<1>9. CASE Updates
  BY <1>4, <1>5, <1>6, <1>7, <1>9 DEF Updates
<1>10. CASE FireInserts \/ OtherInserts
  <2>1. \A i \in Proc : key[i] \in Minute \cup {0}
    BY DEF JobsInv, ProcTypes
  <2> QED BY <1>2, <1>10, <2>1 DEF FireInserts, OtherInserts
<1> QED BY <1>8, <1>9, <1>10, RowCases

(* A nested run is pushed: its job is not on the stack, and its run is new. *)
LEMMA PushedStack ==
  ASSUME JobsInv, NEW i \in Proc, exec[i] # <<>>, NEW j \in Job, Admitted(i, j), NEW f \in Frame, f.job = j,
         \A n \in DOMAIN exec[i] : exec[i][n].run # 0 => exec[i][n].run # f.run
  PROVE  StackOK(Append(exec[i], f))
<1>1. /\ exec[i] \in Seq(Frame) /\ StackOK(exec[i]) /\ MaxDepth \in Nat /\ Len(exec[i]) \in Nat \ {0}
      /\ DOMAIN exec[i] = 1..Len(exec[i])
  BY JobBounds, TopFrame DEF JobsInv, FramesOK
<1>2. PICK e : e = exec[i]
  OBVIOUS
<1>3. PICK len : len = Len(e)
  OBVIOUS
<1>4. /\ e \in Seq(Frame) /\ len \in Nat \ {0} /\ DOMAIN e = 1..len /\ StackOK(e)
      /\ \A n \in 1..len : e[n].run # 0 => e[n].run # f.run
  BY <1>1, <1>2, <1>3
<1>5. len <= MaxDepth
  <2>1. Len(JobStack(i)) = len - 1
    <3>1. len - 1 \in Nat
      BY <1>4
    <3> QED BY <1>2, <1>3, <3>1 DEF JobStack
  <2> QED BY <1>1, <1>4, <2>1 DEF Admitted
<1>6. ASSUME NEW n \in 1..len, n > 1 PROVE e[n].job # j
  <2>1. n - 1 \in 1..(len - 1) /\ n - 1 + 1 = n
    BY <1>4, <1>6
  <2>2. n - 1 \in DOMAIN JobStack(i) /\ JobStack(i)[n - 1] = e[n - 1 + 1].job
    BY <1>2, <1>3, <2>1 DEF JobStack
  <2>3. e[n - 1 + 1] = e[n]
    BY <2>1
  <2> QED BY <2>2, <2>3 DEF Admitted
<1> DEFINE g == Append(e, f)
<1>7. /\ Len(g) = len + 1 /\ DOMAIN g = 1..(len + 1)
      /\ \A n \in 1..len : g[n] = e[n]
      /\ g[len + 1] = f
  BY <1>3, <1>4
<1>8. Len(g) <= MaxDepth + 1
  BY <1>1, <1>4, <1>5, <1>7
<1>9. \A n \in DOMAIN g : n \in 1..len \/ n = len + 1
  BY <1>4, <1>7
<1>10. ASSUME NEW m \in DOMAIN g, NEW n \in DOMAIN g, m # n
       PROVE  /\ (m > 1 /\ n > 1) => g[m].job # g[n].job
              /\ g[m].run # 0 => g[m].run # g[n].run
  <2> HIDE DEF g
  <2>1. CASE m \in 1..len /\ n \in 1..len
    BY <1>4, <1>7, <1>10, <2>1 DEF StackOK
  <2>2. CASE m \in 1..len /\ n = len + 1
    BY <1>4, <1>6, <1>7, <2>2
  <2>3. CASE m = len + 1 /\ n \in 1..len
    BY <1>4, <1>6, <1>7, <2>3
  <2> QED BY <1>9, <1>10, <2>1, <2>2, <2>3
<1>11. StackOK(g)
  <2> HIDE DEF g
  <2> QED BY <1>8, <1>10 DEF StackOK
<1> QED BY <1>2, <1>11

LEMMA CallFrames ==
  ASSUME JobsInv, Next, NEW i \in Proc, CallJob(i)
  PROVE  FramesKept(i)
<1>0. exec \in [Proc -> Seq(Frame)] /\ exec[i] # <<>> /\ RowTypes
  BY DEF JobsInv, ExecTypes, CallJob, Pending
<1>1. /\ exec[i] \in Seq(Frame) /\ Len(exec[i]) \in Nat \ {0} /\ proc[i] \in Alive /\ UNCHANGED <<proc, goneBefore>>
  BY <1>0, TopFrame DEF CallJob, envVars
<1>2. PICK j \in Job :
        /\ Admitted(i, j)
        /\ \/ /\ Insert(i, j, Running, 0)
              /\ exec' = [exec EXCEPT ![i] =
                   Append(exec[i], [job |-> j, run |-> nextRun, next |-> 1, failed |-> FALSE])]
           \/ /\ exec' = [exec EXCEPT ![i] =
                   Append(exec[i], [job |-> j, run |-> 0, next |-> 1, failed |-> FALSE])]
              /\ UNCHANGED rowVars
  BY ResolvesToJobs DEF CallJob
<1>3. \A n \in DOMAIN exec[i] : exec[i][n].run # 0 =>
        /\ exec[i][n].run \in RunId /\ FrameOK(i, exec[i][n].run)
  BY FrameRuns
<1>4. ASSUME NEW f \in Frame, exec' = [exec EXCEPT ![i] = Append(exec[i], f)], StackOK(Append(exec[i], f)),
             f.run # 0 => RowOf(i, f.run),
             \A n \in DOMAIN exec[i] : exec[i][n].run # 0 => RowOf(i, exec[i][n].run)
      PROVE  FramesKept(i)
  <2>1. exec'[i] = Append(exec[i], f)
    BY <1>0, <1>4
  <2>2. /\ Append(exec[i], f) \in Seq(Frame)
        /\ \A n \in DOMAIN Append(exec[i], f) :
             \/ n \in DOMAIN exec[i] /\ Append(exec[i], f)[n] = exec[i][n]
             \/ Append(exec[i], f)[n] = f
    BY <1>1
  <2> QED BY <1>4, <2>1, <2>2 DEF FramesKept
<1>5. CASE Insert(i, j, Running, 0) /\ exec' = [exec EXCEPT ![i] =
             Append(exec[i], [job |-> j, run |-> nextRun, next |-> 1, failed |-> FALSE])]
  <2>1. InsertFacts(i, j, Running, 0)
    BY <1>1, <1>5, InsertStep DEF InsertBy, Inserted
  <2>2. nextRun \in RunId /\ nextRun' = nextRun + 1 /\ nextRun \in Nat
    BY <1>0, <2>1, JobBounds DEF InsertFacts, RowTypes
  <2>3. PICK n : n = nextRun
    OBVIOUS
  <2>4. PICK f \in Frame : f = [job |-> j, run |-> n, next |-> 1, failed |-> FALSE]
    BY <2>2, <2>3 DEF Frame
  <2>5. \A m \in DOMAIN exec[i] : exec[i][m].run # 0 => exec[i][m].run < n /\ exec[i][m].run # n
    BY <1>3, <2>2, <2>3, JobBounds DEF FrameOK, RunId
  <2>6. StackOK(Append(exec[i], f))
    BY <1>0, <1>2, <2>4, <2>5, PushedStack
  <2>7. RowOf(i, n)
    BY <2>1, <2>2, <2>3 DEF RowOf, InsertFacts
  <2>8. \A m \in DOMAIN exec[i] : exec[i][m].run # 0 => RowOf(i, exec[i][m].run)
    BY <1>0, <1>3, <2>1, FrameThroughInsert DEF RowOf
  <2> QED BY <1>4, <1>5, <2>3, <2>4, <2>6, <2>7, <2>8
<1>6. CASE exec' = [exec EXCEPT ![i] = Append(exec[i], [job |-> j, run |-> 0, next |-> 1, failed |-> FALSE])]
           /\ UNCHANGED rowVars
  <2>1. PICK f \in Frame : f = [job |-> j, run |-> 0, next |-> 1, failed |-> FALSE]
    BY DEF Frame
  <2>2. StackOK(Append(exec[i], f))
    BY <1>0, <1>2, <2>1, PushedStack
  <2>3. \A m \in DOMAIN exec[i] : exec[i][m].run # 0 => RowOf(i, exec[i][m].run)
    BY <1>3, <1>6 DEF RowOf, FrameOK, rowVars
  <2> QED BY <1>4, <1>6, <2>1, <2>2, <2>3
<1> QED BY <1>2, <1>5, <1>6

LEMMA EndedFrames ==
  ASSUME JobsInv, Next, NEW i \in Proc, NEW verdict \in {Success, Failed}, EndRun(i, verdict)
  PROVE  FramesKept(i)
<1>0. exec \in [Proc -> Seq(Frame)] /\ status \in [RunId -> Statuses]
  BY DEF JobsInv, ExecTypes, RowTypes
<1>1. Len(exec[i]) > 0
  BY Zenon DEF EndRun
<1>2. /\ exec[i] \in Seq(Frame) /\ Len(exec[i]) \in Nat \ {0} /\ Len(exec[i]) \in DOMAIN exec[i]
      /\ Top(i) = exec[i][Len(exec[i])] /\ StackOK(exec[i])
  <2>1. exec[i] # <<>>
    BY <1>1
  <2> QED BY <2>1, TopFrame DEF JobsInv, FramesOK
<1>3. PICK g : exec' = [exec EXCEPT ![i] = g] /\ Below(g, exec[i]) /\ Len(g) = Len(exec[i]) - 1
  BY EndFrames
<1>4. exec'[i] = g /\ DOMAIN g = 1..Len(g) /\ (\A n \in DOMAIN g : n \in DOMAIN exec[i] /\ n # Len(exec[i]))
  BY <1>0, <1>2, <1>3 DEF Below
<1>5. status' = StoreRun(status, Top(i).run, verdict) /\ UNCHANGED <<owner, nextRun>>
  BY DEF EndRun
<1>6. ASSUME NEW n \in DOMAIN g, exec[i][n].run # 0 PROVE RowOf(i, exec[i][n].run)
  <2>1. exec[i][n].run \in RunId /\ FrameOK(i, exec[i][n].run) /\ exec[i][n].run # Top(i).run
    BY <1>2, <1>4, <1>6, FrameRuns DEF StackOK
  <2>2. status'[exec[i][n].run] = status[exec[i][n].run]
    BY <1>0, <1>5, <2>1 DEF StoreRun, UpdateRun
  <2> QED BY <1>5, <2>1, <2>2 DEF RowOf, FrameOK
<1> QED BY <1>3, <1>4, <1>6, SameFrames

LEMMA FramesNext ==
  ASSUME JobsInv, Next
  PROVE  ExecTypes' /\ FramesOK'
<1>0. exec \in [Proc -> Seq(Frame)] /\ status \in [RunId -> Statuses]
  BY DEF JobsInv, ExecTypes, RowTypes
<1> DEFINE Done == (\A k \in Proc : FramesKept(k)) /\ exec' \in [Proc -> Seq(Frame)]
<1>1. ASSUME NEW i \in Proc, NEW e, exec' = [exec EXCEPT ![i] = e], FramesKept(i) PROVE Done
  <2>1. ASSUME NEW k \in Proc, k # i PROVE FramesKept(k)
    <3>1. exec'[k] = exec[k]
      BY <1>0, <1>1, <2>1
    <3> QED BY <3>1, OthersFrames
  <2>2. exec' \in [Proc -> Seq(Frame)]
    <3>1. e \in Seq(Frame)
      BY <1>0, <1>1 DEF FramesKept
    <3> QED BY <1>0, <1>1, <3>1
  <2> QED BY <1>1, <2>1, <2>2
<1>2. ASSUME UNCHANGED exec PROVE Done
  <2>1. \A k \in Proc : FramesKept(k)
    BY <1>2, OthersFrames
  <2> QED BY <1>0, <1>2, <2>1
<1>3. ASSUME NEW i \in Proc, StartCli(i) PROVE Done
  <2>1. PICK f \in Frame : f = [job |-> CliFile, run |-> 0, next |-> 1, failed |-> FALSE]
    BY DEF Frame
  <2>2. exec' = [exec EXCEPT ![i] = <<f>>]
    BY <1>3, <2>1 DEF StartCli
  <2>3. exec'[i] = <<f>>
    BY <1>0, <2>2
  <2>4. FramesKept(i)
    <3>1. PICK s : s = <<f>>
      OBVIOUS
    <3>2. s \in Seq(Frame) /\ StackOK(s) /\ DOMAIN s = {1} /\ s[1] = f /\ exec'[i] = s
      BY <2>3, <3>1, OneFrame
    <3> QED BY <2>1, <3>2 DEF FramesKept
  <2> QED BY <1>1, <2>2, <2>4
<1>4. ASSUME NEW i \in Proc, Crash(i) \/ Shutdown(i) PROVE Done
  <2>1. exec' = [exec EXCEPT ![i] = <<>>]
    BY <1>4 DEF Crash, Shutdown, Forget
  <2>2. exec'[i] = <<>>
    BY <1>0, <2>1
  <2>3. FramesKept(i)
    BY <2>2, JobBounds DEF FramesKept, StackOK
  <2> QED BY <1>1, <2>1, <2>3
<1>5. ASSUME NEW i \in Proc, StartRun(i) PROVE Done
  <2>1. PICK r \in RunId : r = Min(QueuedBy(i)) /\ status[r] = Queued /\ owner[r] = i /\ jobOf[r] \in Job /\ r < nextRun
    BY <1>5, FirstQueued DEF StartRun
  <2>2. PICK f \in Frame : f = [job |-> jobOf[r], run |-> r, next |-> 1, failed |-> FALSE]
    BY <2>1 DEF Frame
  <2>3. exec' = [exec EXCEPT ![i] = <<f>>] /\ status' = UpdateRun(status, r, Running) /\ UNCHANGED <<owner, nextRun>>
    BY <1>5, <2>1, <2>2 DEF StartRun
  <2>4. exec'[i] = <<f>>
    BY <1>0, <2>3
  <2>5. RowOf(i, r)
    BY <1>0, <2>1, <2>3 DEF RowOf, UpdateRun, Live
  <2>6. FramesKept(i)
    <3>1. PICK s : s = <<f>>
      OBVIOUS
    <3>2. s \in Seq(Frame) /\ StackOK(s) /\ DOMAIN s = {1} /\ s[1] = f /\ exec'[i] = s
      BY <2>4, <3>1, OneFrame
    <3> QED BY <2>2, <2>5, <3>2 DEF FramesKept
  <2> QED BY <1>1, <2>3, <2>6
<1>6. ASSUME NEW i \in Proc, CallJob(i) PROVE Done
  <2>1. PICK e : exec' = [exec EXCEPT ![i] = e]
    BY <1>6 DEF CallJob
  <2> QED BY <1>1, <1>6, <2>1, CallFrames
<1>7. ASSUME NEW i \in Proc, CallRefused(i) PROVE Done
  <2>1. PICK g : exec' = [exec EXCEPT ![i] = g] /\ Below(g, exec[i])
    BY <1>7, RefusedFrames
  <2>2. exec'[i] = g /\ UNCHANGED rowVars
    BY <1>0, <1>7, <2>1 DEF CallRefused
  <2>3. exec[i] \in Seq(Frame) /\ StackOK(exec[i])
    BY <1>0 DEF JobsInv, FramesOK
  <2>4. \A n \in DOMAIN g : exec[i][n].run # 0 => RowOf(i, exec[i][n].run)
    BY <2>1, <2>2, <2>3, BelowStack, FrameRuns DEF RowOf, FrameOK, rowVars
  <2> QED BY <1>1, <2>1, <2>2, <2>4, SameFrames
<1>8. ASSUME NEW i \in Proc, NEW verdict \in {Success, Failed}, EndRun(i, verdict) PROVE Done
  <2>1. PICK g : exec' = [exec EXCEPT ![i] = g]
    BY <1>8, EndFrames
  <2> QED BY <1>1, <1>8, <2>1, EndedFrames
<1>9. Done
  <2> HIDE DEF Done
  <2>1. CASE \E i \in Proc : StartCli(i) \/ Crash(i) \/ Shutdown(i) \/ StartRun(i) \/ CallJob(i) \/ CallRefused(i)
                              \/ \E verdict \in {Success, Failed} : EndRun(i, verdict)
    BY <1>3, <1>4, <1>5, <1>6, <1>7, <1>8, <2>1
  <2>2. CASE \A i \in Proc : ~(StartCli(i) \/ Crash(i) \/ Shutdown(i) \/ StartRun(i) \/ CallJob(i) \/ CallRefused(i)
                               \/ \E verdict \in {Success, Failed} : EndRun(i, verdict))
    <3>1. UNCHANGED exec
      BY <2>2, ExecRests
    <3> QED BY <1>2, <3>1
  <2> QED BY <2>1, <2>2
<1>10. ExecTypes'
  BY <1>9 DEF ExecTypes, FramesKept
<1>11. FramesOK'
  BY <1>9 DEF FramesOK, FramesKept, RowOf, FrameOK
<1> QED BY <1>10, <1>11

-----------------------------------------------------------------------------
LEMMA JobsInvariance == Spec => []JobsInv
<1>1. JobsInv /\ [Next]_vars => JobsInv'
  <2> SUFFICES ASSUME JobsInv, [Next]_vars PROVE JobsInv'
    OBVIOUS
  <2>1. CASE Next
    BY <2>1, RowsNext, ProcTypesNext, ProcsNext, OwnersNext, SchedulerNext, FiringsNext, FramesNext DEF JobsInv
  <2>2. CASE UNCHANGED vars
    <3>1. UNCHANGED <<status, owner, jobOf, firedAt, firedFor, nextRun, proc, lastFired, due, read, key, inserts, exec, minute, goneBefore>>
      BY <2>2 DEF vars, rowVars, procVars, envVars
    <3>2. RowTypes' /\ ProcTypes' /\ ExecTypes' /\ RowsOK' /\ ProcsOK' /\ LiveRunsHaveOwner'
      BY <3>1 DEF JobsInv, RowTypes, ProcTypes, ExecTypes, RowsOK, ProcsOK, LiveRunsHaveOwner
    <3>3. SchedulerOK' /\ FiringsOK' /\ FramesOK'
      BY <3>1 DEF JobsInv, SchedulerOK, FiringsOK, Fired, FramesOK, FrameOK
    <3> QED BY <3>2, <3>3 DEF JobsInv
  <2> QED BY <2>1, <2>2
<1> QED BY <1>1, InitJobs, PTL DEF Spec

(* Recovery, unless its statement fails, leaves no run queued or running   *)
(* for a process that was dead: however many servers and command-line      *)
(* processes start, run and die, and whatever they insert in between.      *)
THEOREM RecoveryIsComplete == Spec => []LiveRunsHaveOwner
<1>1. JobsInv => LiveRunsHaveOwner
  BY InvImplies
<1> QED BY <1>1, JobsInvariance, PTL

(* Each scheduler fires a job at most once for a minute, and only for      *)
(* minutes the expression it read for the job names, steps and the rule of *)
(* the two day fields included: for every expression, every clock, and     *)
(* jobs that are edited, renamed, deleted and created meanwhile.           *)
THEOREM ScheduleIsKept == Spec => []ScheduleKept
<1>1. JobsInv => ScheduleKept
  BY InvImplies
<1> QED BY <1>1, JobsInvariance, PTL

(* run_job nests at most MaxDepth different jobs in a run, and each        *)
(* parent's row stays the process's own: for every graph of calls, and     *)
(* jobs that are renamed, deleted and created meanwhile.  (The job the run *)
(* was started for may be among the nested ones.)                          *)
THEOREM NestingIsSound == Spec => []NestingSound
<1>1. JobsInv => NestingSound
  BY InvImplies
<1> QED BY <1>1, JobsInvariance, PTL

(* No process overwrites a finished run or deletes a live one, and         *)
(* retention keeps the newest MaxKeep.                                     *)
THEOREM FinishedRunsAreFinal == Spec => FinishedIsFinal
<1> DEFINE Kept(r) ==
      /\ status[r] \in Live => status'[r] # NoRow
      /\ IsTerminal(status[r]) =>
           \/ status'[r] = status[r]
           \/ /\ status'[r] = NoRow
              /\ Cardinality({s \in Finished(status') : s > r}) >= MaxKeep
<1>1. ASSUME JobsInv, [Next]_vars, NEW r \in RunId PROVE Kept(r)
  <2>0. status[r] \in Live => status[r] # NoRow
    BY DEF Live, Queued, Running, NoRow
  <2>1. CASE UNCHANGED vars
    BY <2>0, <2>1 DEF vars, rowVars
  <2>2. CASE Next
    <3>1. CASE RowsUpdated
      BY <2>0, <3>1, UpdatedRows
    <3>2. ASSUME NEW i \in Proc, NEW j \in Job, NEW st \in Inserted, NEW at \in Minute \cup {0}, InsertBy(i, j, st, at)
          PROVE  Kept(r)
      <4>1. status[r] \in Live => status'[r] # NoRow
        BY <2>0, <3>2 DEF InsertBy, InsertFacts
      <4> QED BY <3>2, <4>1 DEF InsertBy
    <3> HIDE DEF Kept
    <3> QED BY <1>1, <2>2, <3>1, <3>2, RowChange
  <2> QED BY <1>1, <2>1, <2>2
<1>2. ASSUME JobsInv, [Next]_vars PROVE \A r \in RunId : Kept(r)
  BY <1>1, <1>2
<1>3. JobsInv /\ [Next]_vars => [\A r \in RunId : Kept(r)]_vars
  BY <1>2
<1> QED BY <1>3, JobsInvariance, PTL DEF Spec, FinishedIsFinal
=============================================================================
