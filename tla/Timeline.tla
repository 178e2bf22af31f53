------------------------------ MODULE Timeline ------------------------------
(***************************************************************************)
(* One timeline of a framework and its phases: activation, pause and       *)
(* resumption, completion of phases by people and by metrics, reopening    *)
(* when a metric falls, the lock, the editing of phases, and the dates.    *)
(*                                                                         *)
(* Every operation reads the timeline, checks, and then writes, most in a  *)
(* transaction that reads some of it again: a request is a Read step and   *)
(* a Write step, with other requests' steps in between.  A transaction     *)
(* locks the rows of the phases it writes in their order and is taken as   *)
(* one step.  What an update does after its own phase is in no             *)
(* transaction: it reads the phases again and writes the others one by one.*)
(*                                                                         *)
(* Abstracted: dates are weeks; which phases a metric completes, what it   *)
(* says, and the day it is given to recover (regressedAt); whether a phase *)
(* locks the timeline is any choice; who acted; readyForReview, names and  *)
(* documents; the creation, the deletion and the next cycle of timelines.  *)
(***************************************************************************)
EXTENDS Naturals, FiniteSets, Sequences

CONSTANTS Phases,     \* ids of phases, each used once
          Workers,    \* concurrent requests
          Durations,  \* weeks a phase may take
          Edits,      \* what an update of a phase may set
          None,
          MaxTime,    \* bound on the clock
          MaxRequests \* bound on the requests begun

ASSUME TimelineAssumption ==
  /\ IsFiniteSet(Phases)
  /\ None \notin Phases \cup Workers \cup Nat \cup BOOLEAN
  /\ Durations \subseteq Nat \ {0}
  /\ Edits \subseteq [startDate : Nat \cup {None}, endDate : Nat \cup {None},
                      durationWeeks : (Nat \ {0}) \cup {None},
                      datesPinned : BOOLEAN \cup {None}]
  /\ MaxTime \in Nat /\ MaxRequests \in Nat

VARIABLES
  timeline,    \* status, and whether it is locked
  status,      \* of each phase; "none" before it exists, then "gone"
  orderIndex,  \* of each phase
  schedule,    \* startDate and pausedAt of the timeline
  dates,       \* startDate, endDate, durationWeeks, datesPinned of each phase
  now,
  job,         \* what each request in flight is about to do
  plan,        \* the dates it read or is about to write
  begun,       \* number of requests begun
  overtaken,   \* history: requests in flight whose read is out of date
  late,        \* history: operations that wrote overtaken since the last reset
  edited,      \* history: phases were added or removed at the wrong place
  shifted      \* history: dates moved apart from the schedule they come from

rows == <<timeline, status, orderIndex, schedule, dates>>
vars == <<rows, now, job, plan, begun, overtaken, late, edited, shifted>>

PhaseStatuses == {"PENDING", "IN_PROGRESS", "COMPLETED"}
Present == {p \in Phases : status[p] \in PhaseStatuses}
InProgress == {p \in Phases : status[p] = "IN_PROGRESS"}

Ops == {"activate", "pause", "resume", "complete", "unlock", "update",
        "refresh", "redate", "remove", "reset", "reopen"}

\* What a request carries from its read to its write, dates apart.
Jobs ==
  [op : {"none", "pause", "unlock"}]
  \cup [op : {"activate"}, phases : SUBSET Phases, first : SUBSET Phases]
  \cup [op : {"resume", "reset"}, phases : SUBSET Phases]
  \cup [op : {"complete"}, phase : Phases, index : Nat,
        locks : BOOLEAN, locked : BOOLEAN]
  \cup [op : {"update", "refresh"}, phase : Phases]
  \cup [op : {"redate"}, index : [Phases -> Nat]]
  \cup [op : {"remove"}, phase : Phases, phases : SUBSET Phases,
        index : [Phases -> Nat]]
  \cup [op : {"reopen"}, index : Nat]

NoJob == [op |-> "none"]
Idle(w) == job[w] = NoJob

-----------------------------------------------------------------------------
(* Dates *)

\* The phases in their order; equal indexes come in any order.
Ordered ==
  {s \in [1..Cardinality(Present) -> Present] :
     /\ \A p \in Present : \E i \in DOMAIN s : s[i] = p
     /\ \A i, j \in DOMAIN s : i < j => orderIndex[s[i]] <= orderIndex[s[j]]}

\* Pinned dates are computed like others.
Anchored_Never(d) == FALSE
\* A phase whose dates are pinned, and set, anchors those after it.
Anchored(d) == d.datesPinned /\ d.startDate # None /\ d.endDate # None

\* Any other starts when the one before it ends.
Scheduled(d, from) ==
  IF Anchored(d) THEN [startDate |-> d.startDate, endDate |-> d.endDate]
  ELSE [startDate |-> from, endDate |-> from + d.durationWeeks]

\* recalculatePhaseDates: the dates d of the phases s, from date start on.
Recalculated(d, s, start) ==
  LET at[i \in DOMAIN s] ==
        Scheduled(d[s[i]], IF i = 1 THEN start ELSE at[i-1].endDate)
  IN [p \in {s[i] : i \in DOMAIN s} |-> at[CHOOSE i \in DOMAIN s : s[i] = p]]

\* The dates with those in r written.
Set(d, r) ==
  [p \in Phases |->
     IF p \in DOMAIN r THEN [d[p] EXCEPT !.startDate = r[p].startDate,
                                         !.endDate = r[p].endDate]
     ELSE d[p]]

Only(r, S) == [p \in DOMAIN r \cap S |-> r[p]]

Undated(weeks) == [startDate |-> None, endDate |-> None,
                   durationWeeks |-> weeks, datesPinned |-> FALSE]
NoPlan == [startDate |-> None, dates |-> <<>>]

-----------------------------------------------------------------------------
\* createInstanceFromTemplate
Init ==
  \E n \in 1..Cardinality(Phases) :
  \E s \in [1..n -> Phases] :
  \E weeks \in [Phases -> Durations] :
    /\ \A i, j \in 1..n : i # j => s[i] # s[j]
    /\ timeline = [status |-> "DRAFT", locked |-> FALSE]
    /\ status = [p \in Phases |-> IF \E i \in 1..n : s[i] = p THEN "PENDING"
                                  ELSE "none"]
    /\ orderIndex = [p \in Phases |->
                       IF \E i \in 1..n : s[i] = p
                       THEN (CHOOSE i \in 1..n : s[i] = p) - 1 ELSE 0]
    /\ schedule = [startDate |-> None, pausedAt |-> None]
    /\ dates = [p \in Phases |-> Undated(weeks[p])]
    /\ now = 0
    /\ job = [w \in Workers |-> NoJob]
    /\ plan = [w \in Workers |-> NoPlan]
    /\ begun = 0 /\ overtaken = {}
    /\ late = {} /\ edited = FALSE /\ shifted = FALSE

Before(p, q) == orderIndex[p] < orderIndex[q]
First(S) == {p \in S : \A q \in S : orderIndex[p] <= orderIndex[q]}

\* All phases before index i are completed.
PriorCompleted(i) == \A p \in Present : orderIndex[p] < i => status[p] = "COMPLETED"

-----------------------------------------------------------------------------
(* The two steps of a request *)

\* The read: nothing is written yet.
Note(w, j, d) ==
  /\ Idle(w) /\ begun < MaxRequests
  /\ begun' = begun + 1
  /\ job' = [job EXCEPT ![w] = j]
  /\ plan' = [plan EXCEPT ![w] = d]
  /\ UNCHANGED <<rows, now, overtaken, late, edited, shifted>>

\* Whether this step changes what request x decided upon: a completion stands
\* as long as its phase is not reopened nor moved, a pause as long as the
\* timeline is active.
Overtakes(x) ==
  CASE job[x].op = "complete" ->
         \/ status'[job[x].phase] \notin {"IN_PROGRESS", "COMPLETED"}
         \/ ~PriorCompleted(job[x].index)'
         \/ orderIndex' # orderIndex \/ schedule'.startDate # schedule.startDate
         \/ job[x].locked /\ ~timeline'.locked
    [] job[x].op \in {"pause", "unlock"} -> timeline' # timeline
    [] OTHER -> rows' # rows

\* A request that goes on after this write of its own.
OvertakeOthers(w) ==
  overtaken' = {x \in Workers : \/ x \in overtaken
                                \/ x # w /\ ~Idle(x) /\ Overtakes(x)}

Overtake(w) ==
  overtaken' = {x \in Workers \ {w} : ~Idle(x) /\ (x \in overtaken \/ Overtakes(x))}

\* The write ends the request.
Done(w) ==
  /\ job' = [job EXCEPT ![w] = NoJob]
  /\ plan' = [plan EXCEPT ![w] = NoPlan]
  /\ late' = IF w \in overtaken THEN late \cup {job[w].op} ELSE late
  /\ UNCHANGED <<now, begun>>
  /\ Overtake(w)

\* The request fails, or its process dies; an update may do so between its
\* phase and the dates of the others, or among those.
Abandon(w) ==
  /\ ~Idle(w)
  /\ job' = [job EXCEPT ![w] = NoJob]
  /\ plan' = [plan EXCEPT ![w] = NoPlan]
  /\ overtaken' = overtaken \ {w}
  /\ shifted' = (shifted \/ job[w].op \in {"refresh", "redate"})
  /\ UNCHANGED <<rows, now, begun, late, edited>>

Tick ==
  /\ now < MaxTime /\ now' = now + 1
  /\ UNCHANGED <<rows, job, plan, begun, overtaken, late, edited, shifted>>

-----------------------------------------------------------------------------
(* The life of the timeline *)

\* activate
ActivateRead(w, start) ==
  /\ timeline.status = "DRAFT"
  /\ \E s \in Ordered :
       Note(w, [op |-> "activate", phases |-> Present, first |-> First(Present)],
            [startDate |-> start, dates |-> Recalculated(dates, s, start)])

\* The transaction fails if a phase it read is gone.
ActivateWrite(w) ==
  LET j == job[w] IN
  /\ j.op = "activate" /\ j.phases \subseteq Present
  /\ status' = [p \in Phases |-> IF p \in j.first THEN "IN_PROGRESS"
                                 ELSE IF p \in j.phases THEN "PENDING"
                                 ELSE status[p]]
  /\ dates' = Set(dates, plan[w].dates)
  /\ timeline' = [timeline EXCEPT !.status = "ACTIVE"]
  /\ schedule' = [schedule EXCEPT !.startDate = plan[w].startDate]
  /\ shifted' = FALSE
  /\ UNCHANGED <<orderIndex, edited>>
  /\ Done(w)

\* pause
PauseRead(w) ==
  /\ timeline.status = "ACTIVE"
  /\ Note(w, [op |-> "pause"], NoPlan)

PauseWrite(w) ==
  /\ job[w].op = "pause"
  /\ timeline' = [timeline EXCEPT !.status = "PAUSED"]
  /\ schedule' = [schedule EXCEPT !.pausedAt = now]
  /\ UNCHANGED <<status, orderIndex, dates, edited, shifted>>
  /\ Done(w)

\* The phases a resumption moves.
Moving ==
  {p \in Present : /\ ~dates[p].datesPinned /\ status[p] # "COMPLETED"
                   /\ dates[p].startDate # None /\ dates[p].endDate # None}

\* resume
ResumeRead(w) ==
  LET paused == now - schedule.pausedAt IN
  /\ timeline.status = "PAUSED" /\ schedule.pausedAt # None
  /\ Note(w, [op |-> "resume", phases |-> Moving],
          [startDate |-> None,
           dates |-> [p \in Moving |-> [startDate |-> dates[p].startDate + paused,
                                        endDate |-> dates[p].endDate + paused]]])

ResumeWrite(w) ==
  /\ job[w].op = "resume" /\ job[w].phases \subseteq Present
  /\ dates' = Set(dates, plan[w].dates)
  /\ timeline' = [timeline EXCEPT !.status = "ACTIVE"]
  /\ schedule' = [schedule EXCEPT !.pausedAt = None]
  /\ shifted' = (shifted \/ dates' # dates)
  /\ UNCHANGED <<status, orderIndex, edited>>
  /\ Done(w)

\* unlock
UnlockRead(w) ==
  /\ timeline.status # "COMPLETED" /\ timeline.locked
  /\ Note(w, [op |-> "unlock"], NoPlan)

UnlockWrite(w) ==
  /\ job[w].op = "unlock"
  /\ timeline' = [timeline EXCEPT !.locked = FALSE]
  /\ UNCHANGED <<status, orderIndex, schedule, dates, edited, shifted>>
  /\ Done(w)

\* resetInstance
ResetRead(w) == Note(w, [op |-> "reset", phases |-> Present], NoPlan)

ResetWrite(w) ==
  LET S == job[w].phases IN
  /\ job[w].op = "reset" /\ S \subseteq Present
  /\ status' = [p \in Phases |-> IF p \in S THEN "PENDING" ELSE status[p]]
  /\ dates' = [p \in Phases |-> IF p \in S THEN Undated(dates[p].durationWeeks)
                                ELSE dates[p]]
  /\ timeline' = [status |-> "DRAFT", locked |-> FALSE]
  /\ schedule' = [startDate |-> None, pausedAt |-> None]
  /\ UNCHANGED orderIndex
  /\ job' = [job EXCEPT ![w] = NoJob]
  /\ plan' = [plan EXCEPT ![w] = NoPlan]
  /\ late' = IF w \in overtaken THEN late \cup {"reset"} ELSE late \cap {"remove"}
  /\ edited' = (edited /\ w \in overtaken)
  /\ UNCHANGED <<now, begun, shifted>>
  /\ Overtake(w)

-----------------------------------------------------------------------------
(* Completion and reopening *)

\* completePhase, by a person, or by a metric found to be at 100%
\* (reconcileAutoPhasesForOrganization, runPhaseAdvancement).
CompleteRead(w, p, locks) ==
  /\ status[p] = "IN_PROGRESS"
  /\ PriorCompleted(orderIndex[p])
  /\ Note(w, [op |-> "complete", phase |-> p, index |-> orderIndex[p],
              locks |-> locks, locked |-> timeline.locked],
          [startDate |-> schedule.startDate,
           dates |-> [q \in {p} |-> [startDate |-> dates[p].startDate,
                                     endDate |-> dates[p].endDate]]])

\* The next phase starts although one before it is not completed.
Advances_Unchecked(next, st) == next # None
\* The next phase starts if all before it are completed.
Advances(next, st) ==
  next # None /\ \A q \in Present : Before(q, next) => st[q] = "COMPLETED"

\* A phase completed before its planned end ends now, and is pinned.
Pinned(p, end) ==
  IF end = None \/ now < end
  THEN [dates EXCEPT ![p].endDate = now, ![p].datesPinned = TRUE]
  ELSE dates

\* The last phase locks it, too; it was read before the transaction.
Locks(j, all) == ~j.locked /\ (j.locks \/ all)

\* The phases are read again in the transaction, the timeline is not.
CompleteWrite(w) ==
  LET j == job[w]
      p == j.phase
      start == plan[w].startDate
      st == [status EXCEPT ![p] = "COMPLETED"]
      pending == {q \in Present : st[q] = "PENDING"}
      all == \A q \in Present : st[q] = "COMPLETED"
      d == Pinned(p, plan[w].dates[p].endDate)
  IN
  /\ j.op = "complete" /\ p \in Present
  /\ \E next \in IF pending = {} THEN {None} ELSE First(pending) :
     IF Advances(next, st)
     THEN /\ status' = [st EXCEPT ![next] = "IN_PROGRESS"]
          /\ \E s \in Ordered :
               dates' = IF start = None THEN d
                        ELSE Set(d, Only(Recalculated(d, s, start),
                                         {q \in Phases : orderIndex[q] > j.index}))
     ELSE status' = st /\ dates' = d
  /\ timeline' = [status |-> IF all THEN "COMPLETED" ELSE timeline.status,
                  locked |-> timeline.locked \/ Locks(j, all)]
  /\ shifted' = (shifted \/ (status[p] = "COMPLETED" /\ d # dates))
  /\ UNCHANGED <<orderIndex, schedule, edited>>
  /\ Done(w)

\* A metric that fell reopens a phase of a locked timeline.
MayReopen_Locked == timeline.status = "ACTIVE"
MayReopen == timeline.status = "ACTIVE" /\ ~timeline.locked

\* reconcileAutoPhasesForOrganization finds a completed phase whose metric fell.
ReopenRead(w, p) ==
  /\ MayReopen
  /\ status[p] = "COMPLETED"
  /\ Note(w, [op |-> "reopen", index |-> orderIndex[p]], NoPlan)

\* reopenFromRegressedPhase: the phases are read again; that one is in progress
\* and those after it are pending.
ReopenWrite(w) ==
  LET affected == {p \in Present : orderIndex[p] >= job[w].index} IN
  /\ job[w].op = "reopen"
  /\ IF affected = {} THEN UNCHANGED status
     ELSE \E p \in First(affected) :
            status' = [q \in Phases |-> IF q = p THEN "IN_PROGRESS"
                                        ELSE IF q \in affected THEN "PENDING"
                                        ELSE status[q]]
  /\ timeline' = [timeline EXCEPT !.status = IF @ = "COMPLETED" THEN "ACTIVE" ELSE @]
  /\ UNCHANGED <<orderIndex, schedule, dates, edited, shifted>>
  /\ Done(w)

-----------------------------------------------------------------------------
(* Editing of phases *)

\* updatePhase: the end follows from the start and the duration unless it is
\* given; dates that are given are pinned.
UpdateRead(w, p, e) ==
  LET start == IF e.startDate = None THEN dates[p].startDate ELSE e.startDate
      weeks == IF e.durationWeeks = None THEN dates[p].durationWeeks
               ELSE e.durationWeeks
  IN
  /\ p \in Present
  /\ Note(w, [op |-> "update", phase |-> p],
          [startDate |-> schedule.startDate,
           edit |-> [e EXCEPT
             !.endDate = IF @ # None THEN @
                         ELSE IF start # None
                                 /\ (e.startDate # None \/ e.durationWeeks # None)
                         THEN start + weeks ELSE None,
             !.datesPinned = IF e.startDate # None \/ e.endDate # None THEN TRUE
                             ELSE @]])

Given(old, new) == IF new = None THEN old ELSE new

\* An update e of phase p that the dates do not follow: no date is given to
\* recalculate from, or completed phases after it keep the dates they had.
Diverges(p, e) ==
  \/ e.datesPinned = FALSE
  \/ e.durationWeeks # None /\ e.endDate = None
  \/ e.endDate # None /\ \E q \in Present : /\ Before(p, q) /\ status[q] = "COMPLETED"
                                           /\ ~dates[q].datesPinned

\* The phase is written; the dates of the others follow in writes of their own.
UpdateWrite(w) ==
  LET p == job[w].phase
      e == plan[w].edit
  IN
  /\ job[w].op = "update" /\ p \in Present
  /\ dates' = [dates EXCEPT ![p] =
                 [startDate |-> Given(@.startDate, e.startDate),
                  endDate |-> Given(@.endDate, e.endDate),
                  durationWeeks |-> Given(@.durationWeeks, e.durationWeeks),
                  datesPinned |-> Given(@.datesPinned, e.datesPinned)]]
  /\ shifted' = (shifted \/ Diverges(p, e))
  /\ UNCHANGED <<timeline, status, orderIndex, schedule, edited>>
  /\ IF e.endDate # None /\ plan[w].startDate # None
     THEN /\ job' = [job EXCEPT ![w] = [op |-> "refresh", phase |-> p]]
          /\ plan' = [plan EXCEPT ![w] = [startDate |-> @.startDate, dates |-> <<>>]]
          /\ late' = IF w \in overtaken THEN late \cup {"update"} ELSE late
          /\ UNCHANGED <<now, begun>>
          /\ Overtake(w)
     ELSE Done(w)

\* The phases are read again; those neither pinned nor completed are to follow.
RefreshRead(w) ==
  LET p == job[w].phase
      others == {q \in Phases \ {p} : ~dates[q].datesPinned /\ status[q] # "COMPLETED"}
  IN
  /\ job[w].op = "refresh"
  /\ job' = [job EXCEPT ![w] = [op |-> "redate", index |-> orderIndex]]
  /\ \E s \in Ordered :
       plan' = [plan EXCEPT ![w] =
                  [startDate |-> @.startDate,
                   dates |-> Only(Recalculated(dates, s, @.startDate), others)]]
  /\ UNCHANGED <<rows, now, begun, overtaken, late, edited, shifted>>

\* Each is written on its own, in the order they were read; it fails if that
\* phase is gone.
RefreshWrite(w) ==
  LET left == DOMAIN plan[w].dates IN
  /\ job[w].op = "redate"
  /\ \E q \in left \cap Present :
       /\ \A x \in left : job[w].index[q] <= job[w].index[x]
       /\ dates' = Set(dates, Only(plan[w].dates, {q}))
       /\ plan' = [plan EXCEPT ![w] = [startDate |-> @.startDate,
                                       dates |-> Only(@.dates, left \ {q})]]
  /\ UNCHANGED <<timeline, status, orderIndex, schedule>>
  /\ UNCHANGED <<now, job, begun, late, edited, shifted>>
  /\ OvertakeOthers(w)

RefreshEnd(w) ==
  /\ job[w].op = "redate" /\ DOMAIN plan[w].dates = {}
  /\ UNCHANGED <<rows, edited, shifted>>
  /\ Done(w)

\* Phases from the index on have dates.
DatedFrom(index) ==
  \E q \in Present : orderIndex[q] >= index /\ dates[q].startDate # None

\* addPhase: the phases from the index on make room.
AddPhase(p, index, weeks) ==
  /\ status[p] = "none" /\ begun < MaxRequests
  /\ begun' = begun + 1
  /\ status' = [status EXCEPT ![p] = "PENDING"]
  /\ orderIndex' = [q \in Phases |->
                      IF q = p THEN index
                      ELSE IF q \in Present /\ orderIndex[q] >= index
                      THEN orderIndex[q] + 1 ELSE orderIndex[q]]
  /\ dates' = [dates EXCEPT ![p] = Undated(weeks)]
  /\ edited' = \/ edited
               \/ timeline.status # "DRAFT" /\ InProgress = {}
               \/ \E q \in Present : orderIndex[q] >= index /\ status[q] # "PENDING"
  /\ shifted' = (shifted \/ DatedFrom(index))
  /\ UNCHANGED <<timeline, schedule, now, job, plan, late>>
  /\ Overtake(None)

\* Every other phase moves down by one, those before the removed one too.
Room_Shifted(n) == {i - 1 : i \in 0..(n-1)}
\* The indexes of n phases.
Room(n) == 0..(n-1)

\* removePhase: the others are numbered from 0 in the order they were read.
RemoveRead(w, p) ==
  LET rest == Present \ {p} IN
  /\ p \in Present
  /\ \E at \in [rest -> Room(Cardinality(rest))] :
       /\ \A q, r \in rest : /\ Before(q, r) => at[q] < at[r]
                             /\ q # r => at[q] # at[r]
       /\ LET moves == {q \in rest : orderIndex[q] # at[q]} IN
          Note(w, [op |-> "remove", phase |-> p, phases |-> moves,
                   index |-> [q \in Phases |-> IF q \in rest THEN at[q]
                                               ELSE orderIndex[q]]],
               NoPlan)

RemoveWrite(w) ==
  LET j == job[w] IN
  /\ j.op = "remove" /\ j.phase \in Present /\ j.phases \subseteq Present
  /\ status' = [status EXCEPT ![j.phase] = "gone"]
  /\ orderIndex' = [q \in Phases |-> IF q \in j.phases THEN j.index[q]
                                     ELSE orderIndex[q]]
  /\ edited' = (edited \/ status[j.phase] = "IN_PROGRESS")
  /\ shifted' = (shifted \/ DatedFrom(orderIndex[j.phase]))
  /\ UNCHANGED <<timeline, schedule, dates>>
  /\ Done(w)

-----------------------------------------------------------------------------
Read(w) ==
  \/ \E start \in 0..MaxTime : ActivateRead(w, start)
  \/ PauseRead(w) \/ ResumeRead(w) \/ UnlockRead(w) \/ ResetRead(w)
  \/ \E p \in Phases :
       \/ \E locks \in BOOLEAN : CompleteRead(w, p, locks)
       \/ ReopenRead(w, p) \/ RemoveRead(w, p)
       \/ \E e \in Edits : UpdateRead(w, p, e)

Write(w) ==
  \/ ActivateWrite(w) \/ PauseWrite(w) \/ ResumeWrite(w) \/ UnlockWrite(w)
  \/ ResetWrite(w) \/ CompleteWrite(w) \/ ReopenWrite(w)
  \/ UpdateWrite(w) \/ RemoveWrite(w)
  \/ RefreshRead(w) \/ RefreshWrite(w) \/ RefreshEnd(w)

Next ==
  \/ \E w \in Workers : Read(w) \/ Write(w) \/ Abandon(w)
  \/ \E p \in Phases, index \in 0..Cardinality(Phases), weeks \in Durations :
       AddPhase(p, index, weeks)
  \/ Tick

Spec == Init /\ [][Next]_vars

-----------------------------------------------------------------------------
(* Properties *)

TypeOK ==
  /\ timeline \in [status : {"DRAFT", "ACTIVE", "PAUSED", "COMPLETED"},
                    locked : BOOLEAN]
  /\ status \in [Phases -> PhaseStatuses \cup {"none", "gone"}]
  /\ orderIndex \in [Phases -> Nat]
  /\ schedule \in [startDate : Nat \cup {None}, pausedAt : Nat \cup {None}]
  /\ dates \in [Phases -> [startDate : Nat \cup {None}, endDate : Nat \cup {None},
                          durationWeeks : Nat \ {0}, datesPinned : BOOLEAN]]
  /\ now \in 0..MaxTime
  /\ job \in [Workers -> Jobs]
  /\ begun \in 0..MaxRequests
  /\ overtaken \subseteq Workers /\ \A w \in overtaken : ~Idle(w)
  /\ late \subseteq Ops /\ edited \in BOOLEAN /\ shifted \in BOOLEAN

\* Nothing but unlocking and the updates of phases wrote overtaken, and phases
\* were not edited around the one in progress.
Undisturbed == late \subseteq {"unlock", "update", "redate"} /\ ~edited

InOrder ==
  /\ timeline.status = "DRAFT" => \A p \in Present : status[p] = "PENDING"
  /\ timeline.status = "COMPLETED" => \A p \in Present : status[p] = "COMPLETED"
  /\ timeline.status \in {"ACTIVE", "PAUSED"} /\ Present # {} =>
       \E p \in InProgress : \A q \in Present :
          /\ Before(q, p) => status[q] = "COMPLETED"
          /\ Before(p, q) => status[q] = "PENDING"

\* One phase is in progress, all before it are completed and all after it are
\* pending, while the timeline runs or is paused; none is started before, and
\* all are completed after.  Two completions of one phase at once, by a person
\* and a metric, do not break that.
Frontier == Undisturbed => InOrder

\* A completed timeline is locked, whoever completes its last phase, unless an
\* unlocking came between the read and the write of that, or the other way
\* around.
CompletedIsLocked ==
  late \cap {"complete", "unlock"} = {} =>
    (timeline.status = "COMPLETED" => timeline.locked)

\* What is completed stays so while the timeline is locked, whatever the
\* metrics say, but for a reset or a request that was overtaken.
LockHolds ==
  [][\A p \in Phases :
       /\ timeline.locked /\ timeline.status # "DRAFT"
       /\ status[p] = "COMPLETED" /\ status'[p] \in {"PENDING", "IN_PROGRESS"}
       => \E w \in Workers : /\ job[w] # NoJob /\ job'[w] = NoJob
                             /\ w \in overtaken \/ job[w].op = "reset"]_vars

\* A phase whose dates are not pinned starts when the phase before it ends:
\* through activation, early, late and double completion, reopening, pinned
\* dates and changed durations.  (Not once a resumption moved dates, phases were
\* added or removed among dated ones, or an update diverged: the next
\* recalculation starts from the timeline's start date and forgets that.)
DatesChained ==
  /\ late = {} /\ ~edited /\ ~shifted
  /\ timeline.status # "DRAFT"
  /\ \A w \in Workers : job[w].op \notin {"refresh", "redate"}
  => \A p, q \in Present :
       /\ Before(p, q) /\ ~\E r \in Present : Before(p, r) /\ Before(r, q)
       /\ dates[p].startDate # None /\ dates[p].endDate # None
       /\ dates[q].startDate # None /\ dates[q].endDate # None
       /\ ~dates[q].datesPinned
       => dates[q].startDate = dates[p].endDate
=============================================================================
