--------------------------- MODULE Timeline_proofs ---------------------------
(***************************************************************************)
(* Proofs about Timeline, for any phases, requests, durations and edits:   *)
(* the order of the phases and the lock (Part 1), the dates (Part 2).      *)
(***************************************************************************)
EXTENDS Timeline, FiniteSetTheorems, WellFoundedInduction, TLAPS

USE TimelineAssumption

\* No two phases share an index, until a removal wrote an old numbering.
Distinct ==
  "remove" \notin late =>
    \A p, q \in Present : p # q => orderIndex[p] # orderIndex[q]

\* What request j decided upon, as long as it is not overtaken.
Decided(j) ==
  /\ j.op = "activate" => /\ timeline.status = "DRAFT"
                          /\ j.phases = Present /\ j.first = First(Present)
                          /\ Present # {} => First(Present) # {}
  /\ j.op = "pause" => timeline.status = "ACTIVE"
  /\ j.op = "resume" => timeline.status = "PAUSED"
  /\ j.op = "unlock" => timeline.status # "COMPLETED"
  /\ j.op = "reset" => j.phases = Present
  /\ j.op = "complete" => /\ status[j.phase] \in {"IN_PROGRESS", "COMPLETED"}
                          /\ j.index = orderIndex[j.phase]
                          /\ PriorCompleted(j.index)
                          /\ j.locked => timeline.locked
  /\ j.op = "remove" =>
       \A q, r \in Present \ {j.phase} :
         /\ q \notin j.phases => j.index[q] = orderIndex[q]
         /\ Before(q, r) => j.index[q] < j.index[r]
         /\ q # r => j.index[q] # j.index[r]
  /\ j.op = "reopen" => /\ timeline.status = "ACTIVE" /\ ~timeline.locked
                        /\ \E c \in Present : /\ status[c] = "COMPLETED"
                                              /\ orderIndex[c] = j.index

UpToDate ==
  \A w \in Workers : job[w] # NoJob /\ w \notin overtaken => Decided(job[w])

PhaseDates ==
  [startDate : Nat \cup {None}, endDate : Nat \cup {None},
   durationWeeks : Nat \ {0}, datesPinned : BOOLEAN]
DateTables == [Phases -> PhaseDates]
EditTypes ==
  [startDate : Nat \cup {None}, endDate : Nat \cup {None},
   durationWeeks : (Nat \ {0}) \cup {None}, datesPinned : BOOLEAN \cup {None}]
Span == [startDate : Nat, endDate : Nat]
Spans(r) == \A q \in DOMAIN r : r[q] \in Span

\* What request j carries from its read to its write: an activation has a start
\* and starts phases it read, and so on.
Carries(j, x) ==
  /\ j.op = "activate" => x.startDate \in Nat /\ j.first \subseteq j.phases
  /\ j.op \in {"activate", "resume"} => Spans(x.dates)
  /\ j.op \in {"complete", "update"} => x.startDate \in Nat \cup {None}
  /\ j.op = "update" => x.edit \in EditTypes
  /\ j.op = "refresh" => x.startDate \in Nat
  /\ j.op = "redate" => Spans(x.dates)

Plans ==
  /\ plan = [w \in Workers |-> plan[w]]
  /\ \A w \in Workers : Carries(job[w], plan[w])

\* A pause began in the past.
Clock == schedule.pausedAt # None => schedule.pausedAt <= now

IInv ==
  /\ TypeOK /\ Clock /\ Plans
  /\ UpToDate /\ Distinct /\ Frontier /\ CompletedIsLocked

-----------------------------------------------------------------------------
(* Part 1: the order of the phases and the lock *)

(* Jobs *)

\* The fields of a job, by its operation.
LEMMA JobFields ==
  ASSUME NEW j \in Jobs
  PROVE  /\ j.op \in {"activate", "resume", "reset", "remove"} =>
              j.phases \in SUBSET Phases
         /\ j.op = "activate" => j.first \in SUBSET Phases
         /\ j.op = "complete" => /\ j.phase \in Phases /\ j.index \in Nat
                                 /\ j.locks \in BOOLEAN /\ j.locked \in BOOLEAN
         /\ j.op \in {"update", "refresh"} => j.phase \in Phases
         /\ j.op = "remove" => j.phase \in Phases /\ j.index \in [Phases -> Nat]
         /\ j.op = "reopen" => j.index \in Nat
BY DEF Jobs

LEMMA NoJobIsJob == NoJob \in Jobs /\ NoJob.op = "none" /\ \A x : Carries(NoJob, x)
BY DEF Jobs, NoJob, Carries

\* The requests other than w keep their standing through a write of w.
LEMMA OthersStand ==
  ASSUME TypeOK, UpToDate, NEW w, Overtake(w),
         \A x \in Workers : x # w => job'[x] = job[x]
  PROVE  /\ overtaken' \subseteq Workers \ {w}
         /\ \A x \in overtaken' : job'[x] # NoJob
         /\ \A x \in Workers :
              x # w /\ job'[x] # NoJob /\ x \notin overtaken' => Decided(job[x])'
<1>1. overtaken' = {x \in Workers \ {w} :
                      ~Idle(x) /\ (x \in overtaken \/ Overtakes(x))}
  BY DEF Overtake
<1>2. \A x \in overtaken' : job'[x] # NoJob BY <1>1 DEF Idle
<1>3. ASSUME NEW x \in Workers, x # w, job'[x] # NoJob, x \notin overtaken'
      PROVE  Decided(job[x])'
  <2> DEFINE j == job[x]
  <2>1. job'[x] = j /\ j # NoJob BY <1>3
  <2>2. x \notin overtaken /\ ~Overtakes(x) BY <1>1, <1>3, <2>1 DEF Idle
  <2>3. Decided(j) BY <2>1, <2>2 DEF UpToDate
  <2>4. j \in Jobs BY DEF TypeOK
  <2>5. CASE j.op = "complete"
    <3>1. /\ status'[j.phase] \in {"IN_PROGRESS", "COMPLETED"}
          /\ PriorCompleted(j.index)'
          /\ orderIndex' = orderIndex
          /\ j.locked => timeline'.locked
      BY <2>1, <2>2, <2>5 DEF Overtakes
    <3> QED BY <2>1, <2>3, <2>5, <3>1 DEF Decided
  <2>6. CASE j.op \in {"pause", "unlock"}
    <3>1. timeline' = timeline BY <2>2, <2>6 DEF Overtakes
    <3> QED BY <2>1, <2>3, <2>6, <3>1 DEF Decided
  <2>7. CASE j.op \notin {"complete", "pause", "unlock"}
    <3>1. rows' = rows BY <2>2, <2>7 DEF Overtakes
    <3>2. /\ timeline' = timeline /\ status' = status /\ orderIndex' = orderIndex
          /\ Present' = Present
      BY <3>1 DEF rows, Present
    <3> QED BY <2>1, <2>3, <2>7, <3>2 DEF Decided, First, Before
  <2> QED BY <2>5, <2>6, <2>7
<1> QED BY <1>1, <1>2, <1>3

-----------------------------------------------------------------------------
(* Recalculated dates *)

LEMMA Least ==
  ASSUME NEW T \in SUBSET Nat, T # {}
  PROVE  \E m \in T : \A k \in T : m <= k
<1> DEFINE Less == OpToRel(<, Nat)
<1>1. \A x \in Nat, y \in Nat : x < y => <<x, y>> \in Less
  <2>1. Less = {ss \in Nat \X Nat : ss[1] < ss[2]} BY DEF OpToRel
  <2> HIDE DEF Less
  <2> QED BY <2>1
<1>2. IsWellFoundedOn(Less, Nat) BY NatLessThanWellFounded
<1> HIDE DEF Less
<1>3. PICK m \in T : \A k \in T : ~ (<<k, m>> \in Less) BY <1>2, WFMin
<1>4. \A k \in T : m \in Nat /\ k \in Nat /\ ~(k < m) BY <1>1, <1>3
<1> QED BY <1>4

\* From one position to the next.
LEMMA Stepwise ==
  ASSUME NEW n \in Nat, NEW T,
         \A i \in 1..n : (i = 1 \/ i - 1 \in T) => i \in T
  PROVE  \A i \in 1..n : i \in T
<1> DEFINE U == {i \in 1..n : i \notin T}
<1>1. SUFFICES ASSUME U # {} PROVE FALSE OBVIOUS
<1>2. PICK m \in U : \A k \in U : m <= k
  <2>1. U \in SUBSET Nat OBVIOUS
  <2> HIDE DEF U
  <2> QED BY <1>1, <2>1, Least
<1>3. m \in 1..n /\ m \notin T BY <1>2
<1>4. CASE m = 1 BY <1>3, <1>4
<1>5. CASE m # 1
  <2>1. m - 1 \in 1..n /\ m - 1 \notin U BY <1>2, <1>3, <1>5
  <2> QED BY <1>3, <2>1
<1> QED BY <1>4, <1>5

\* Where the dates of position i start.
Following(g, i, start) == IF i = 1 THEN start ELSE g[i-1].endDate
IsRun(g, d, s, start, n) ==
  g = [i \in 1..n |-> Scheduled(d[s[i]], Following(g, i, start))]

\* The dates of the positions, by phase.
ByPhase(g, s) ==
  [p \in {s[i] : i \in DOMAIN s} |-> g[CHOOSE i \in DOMAIN s : s[i] = p]]

\* The dates of the first n positions, one after the other, are well defined.
LEMMA RunExists ==
  ASSUME NEW d, NEW s, NEW start, NEW n \in Nat
  PROVE  \E g : IsRun(g, d, s, start, n)
<1> DEFINE T == {k \in 0..n : ~\E g : IsRun(g, d, s, start, k)}
<1>1. SUFFICES ASSUME T # {} PROVE FALSE OBVIOUS
<1>2. PICK m \in T : \A k \in T : m <= k
  <2>1. T \in SUBSET Nat OBVIOUS
  <2> HIDE DEF T
  <2> QED BY <1>1, <2>1, Least
<1>3. CASE m = 0
  <2> DEFINE g == [i \in 1..0 |-> start]
  <2>1. IsRun(g, d, s, start, 0) BY DEF IsRun
  <2> QED BY <1>2, <1>3, <2>1
<1>4. CASE m # 0
  <2>1. m \in 1..n /\ m - 1 \in 0..n /\ m - 1 \notin T BY <1>2, <1>4
  <2>2. PICK g : IsRun(g, d, s, start, m - 1) BY <2>1
  <2> DEFINE h == [i \in 1..m |-> Scheduled(d[s[i]], Following(g, i, start))]
  <2>3. ASSUME NEW i \in 1..m PROVE Following(h, i, start) = Following(g, i, start)
    <3>1. CASE i = 1 BY <3>1 DEF Following
    <3>2. CASE i # 1
      <4>1. i - 1 \in 1..(m-1) /\ i - 1 \in 1..m BY <2>1, <3>2
      <4>2. g[i-1] = Scheduled(d[s[i-1]], Following(g, i-1, start))
        BY <2>2, <4>1 DEF IsRun
      <4>3. h[i-1] = g[i-1] BY <4>1, <4>2
      <4> HIDE DEF h
      <4> QED BY <3>2, <4>3 DEF Following
    <3> QED BY <3>1, <3>2
  <2>4. h = [i \in 1..m |-> Scheduled(d[s[i]], Following(h, i, start))]
    <3> HIDE DEF h
    <3>1. h = [i \in 1..m |-> Scheduled(d[s[i]], Following(g, i, start))] BY DEF h
    <3> QED BY <2>3, <3>1
  <2>5. IsRun(h, d, s, start, m) BY <2>4 DEF IsRun
  <2> QED BY <1>2, <2>5
<1> QED BY <1>3, <1>4

\* recalculatePhaseDates goes through the phases in their order.
LEMMA RecalculatedRun ==
  ASSUME NEW d, NEW start, NEW s, DOMAIN s = 1..Cardinality(Present),
         IsFiniteSet(Present)
  PROVE  \E g : /\ IsRun(g, d, s, start, Cardinality(Present))
                /\ Recalculated(d, s, start) = ByPhase(g, s)
<1> DEFINE n == Cardinality(Present)
           g == CHOOSE at : at = [i \in DOMAIN s |->
                  Scheduled(d[s[i]], IF i = 1 THEN start ELSE at[i-1].endDate)]
<1>1. Recalculated(d, s, start) = ByPhase(g, s) BY DEF Recalculated, ByPhase
<1>2. n \in Nat BY FS_CardinalityType
<1>3. PICK h : IsRun(h, d, s, start, n) BY <1>2, RunExists
<1>4. h = [i \in DOMAIN s |->
             Scheduled(d[s[i]], IF i = 1 THEN start ELSE h[i-1].endDate)]
  BY <1>3 DEF IsRun, Following
<1>5. g = [i \in DOMAIN s |->
             Scheduled(d[s[i]], IF i = 1 THEN start ELSE g[i-1].endDate)]
  <2> HIDE DEF n
  <2> QED BY <1>4
<1>6. IsRun(g, d, s, start, n)
  <2> HIDE DEF g
  <2> QED BY <1>5 DEF IsRun, Following
<1> HIDE DEF g
<1> QED BY <1>1, <1>6

LEMMA PresentFinite ==
  /\ Present \subseteq Phases /\ IsFiniteSet(Present)
  /\ Cardinality(Present) \in Nat
BY FS_Subset, FS_CardinalityType DEF Present

LEMMA DatesTyped == IInv => dates \in DateTables
BY DEF IInv, TypeOK, DateTables, PhaseDates

LEMMA ScheduledSpan ==
  ASSUME NEW x \in PhaseDates, NEW from \in Nat
  PROVE  Scheduled(x, from) \in Span
<1>1. CASE Anchored(x) BY <1>1 DEF Anchored, Scheduled, PhaseDates, Span
<1>2. CASE ~Anchored(x) BY <1>2 DEF Scheduled, PhaseDates, Span
<1> QED BY <1>1, <1>2

\* Each phase present gets a start and an end.
LEMMA RecalculatedSpans ==
  ASSUME NEW d \in DateTables, NEW s \in Ordered, NEW start \in Nat
  PROVE  Recalculated(d, s, start) \in [Present -> Span]
<1> DEFINE n == Cardinality(Present)
<1>1. /\ s \in [1..n -> Present] /\ DOMAIN s = 1..n
      /\ \A p \in Present : \E i \in 1..n : s[i] = p
  BY DEF Ordered
<1>2. PICK g : /\ IsRun(g, d, s, start, n)
               /\ Recalculated(d, s, start) = ByPhase(g, s)
  BY <1>1, PresentFinite, RecalculatedRun
<1> DEFINE T == {i \in 1..n : g[i] \in Span}
<1>3. ASSUME NEW i \in 1..n, i = 1 \/ i - 1 \in T PROVE i \in T
  <2>1. Following(g, i, start) \in Nat BY <1>3 DEF Following, Span
  <2>2. d[s[i]] \in PhaseDates BY <1>1, PresentFinite DEF DateTables
  <2>3. g[i] = Scheduled(d[s[i]], Following(g, i, start)) BY <1>2 DEF IsRun
  <2> QED BY <2>1, <2>2, <2>3, ScheduledSpan
<1>4. \A i \in 1..n : i \in T
  <2> HIDE DEF T, n
  <2> QED BY <1>3, PresentFinite, Stepwise DEF n
<1>5. {s[i] : i \in DOMAIN s} = Present BY <1>1
<1>6. ASSUME NEW p \in Present PROVE g[CHOOSE i \in DOMAIN s : s[i] = p] \in Span
  <2>1. (CHOOSE i \in DOMAIN s : s[i] = p) \in 1..n BY <1>1
  <2> QED BY <1>4, <2>1
<1> QED BY <1>2, <1>5, <1>6 DEF ByPhase

\* Dates that are spans can be written.
LEMMA SetDates ==
  ASSUME NEW d \in DateTables, NEW r, Spans(r)
  PROVE  /\ Set(d, r) \in DateTables
         /\ \A q \in Phases :
              /\ Set(d, r)[q].datesPinned = d[q].datesPinned
              /\ Set(d, r)[q].durationWeeks = d[q].durationWeeks
              /\ q \notin DOMAIN r => Set(d, r)[q] = d[q]
              /\ q \in DOMAIN r => /\ Set(d, r)[q].startDate = r[q].startDate
                                   /\ Set(d, r)[q].endDate = r[q].endDate
<1>1. ASSUME NEW q \in Phases
      PROVE  /\ Set(d, r)[q] \in PhaseDates
             /\ Set(d, r)[q].datesPinned = d[q].datesPinned
             /\ Set(d, r)[q].durationWeeks = d[q].durationWeeks
             /\ q \notin DOMAIN r => Set(d, r)[q] = d[q]
             /\ q \in DOMAIN r => /\ Set(d, r)[q].startDate = r[q].startDate
                                  /\ Set(d, r)[q].endDate = r[q].endDate
  <2>1. d[q] \in PhaseDates BY DEF DateTables
  <2>2. CASE q \in DOMAIN r
    <3>1. Set(d, r)[q] = [d[q] EXCEPT !.startDate = r[q].startDate,
                                      !.endDate = r[q].endDate]
      BY <2>2 DEF Set
    <3>2. r[q] \in Span BY <2>2 DEF Spans
    <3> QED BY <2>1, <2>2, <3>1, <3>2 DEF PhaseDates, Span
  <2>3. CASE q \notin DOMAIN r
    <3>1. Set(d, r)[q] = d[q] BY <2>3 DEF Set
    <3> QED BY <2>1, <2>3, <3>1
  <2> QED BY <2>2, <2>3
<1>2. Set(d, r) = [q \in Phases |-> Set(d, r)[q]] BY DEF Set
<1> QED BY <1>1, <1>2 DEF DateTables

LEMMA OnlySpans ==
  ASSUME NEW r, Spans(r), NEW S
  PROVE  /\ Spans(Only(r, S)) /\ DOMAIN Only(r, S) = DOMAIN r \cap S
         /\ \A q \in DOMAIN r \cap S : Only(r, S)[q] = r[q]
BY DEF Spans, Only

LEMMA SpansOf ==
  ASSUME NEW S, NEW r \in [S -> Span]
  PROVE  Spans(r)
BY DEF Spans

-----------------------------------------------------------------------------
(* Reads *)

\* A read keeps the invariant if the request is well formed and what it
\* decided upon is so.
LEMMA NoteInv ==
  ASSUME IInv, NEW w \in Workers, NEW j \in Jobs, NEW d, Note(w, j, d), j # NoJob,
         Decided(j), Carries(j, d)
  PROVE  IInv'
<1>1. /\ job[w] = NoJob /\ job' = [job EXCEPT ![w] = j]
      /\ plan' = [plan EXCEPT ![w] = d]
      /\ begun < MaxRequests /\ begun' = begun + 1
      /\ UNCHANGED <<timeline, status, orderIndex, schedule, dates, now, overtaken, late,
                     edited, shifted>>
  BY DEF Note, Idle, rows
<1>2. job' \in [Workers -> Jobs] /\ job'[w] = j /\ \A x \in Workers : x # w => job'[x] = job[x]
  BY <1>1 DEF IInv, TypeOK
<1>3. TypeOK'
  <2>1. begun' \in 0..MaxRequests BY <1>1 DEF IInv, TypeOK
  <2>2. \A x \in overtaken' : job'[x] # NoJob
    BY <1>1, <1>2 DEF IInv, TypeOK, Idle
  <2> QED BY <1>1, <1>2, <2>1, <2>2 DEF IInv, TypeOK, Idle
<1>4. Plans'
  <2>1. plan = [x \in Workers |-> plan[x]] BY DEF IInv, Plans
  <2>2. plan' = [x \in Workers |-> IF x = w THEN d ELSE plan[x]] BY <1>1, <2>1
  <2>3. plan' = [x \in Workers |-> plan'[x]] BY <2>2
  <2>4. \A x \in Workers : Carries(job[x], plan[x])'
    BY <1>2, <2>2 DEF IInv, Plans, Carries
  <2> QED BY <2>3, <2>4 DEF Plans
<1>5. UpToDate'
  <2>1. \A k : Decided(k)' <=> Decided(k)
    BY <1>1 DEF Decided, Present, First, Before, PriorCompleted
  <2> QED BY <1>1, <1>2, <2>1 DEF IInv, UpToDate
<1>6. Clock' /\ Distinct' /\ Frontier' /\ CompletedIsLocked'
  BY <1>1 DEF IInv, Clock, Distinct, Frontier, InOrder, CompletedIsLocked, Undisturbed,
     Present, InProgress, Before
<1> QED BY <1>3, <1>4, <1>5, <1>6 DEF IInv

\* The phases can be put in order, so one comes first.
LEMMA FirstExists ==
  ASSUME orderIndex \in [Phases -> Nat], NEW s \in Ordered, NEW q \in Present
  PROVE  First(Present) # {}
<1> DEFINE n == Cardinality(Present)
<1>1. n \in Nat BY FS_CardinalityType, FS_Subset DEF Present
<1>2. /\ s \in [1..n -> Present]
      /\ \A p \in Present : \E i \in 1..n : s[i] = p
      /\ \A i, k \in 1..n : i < k => orderIndex[s[i]] <= orderIndex[s[k]]
  BY DEF Ordered
<1>3. PICK m \in 1..n : s[m] = q BY <1>2
<1>4. 1 \in 1..n BY <1>1, <1>3
<1>5. ASSUME NEW p \in Present PROVE orderIndex[s[1]] <= orderIndex[p]
  <2>1. PICK i \in 1..n : s[i] = p BY <1>2
  <2>2. i = 1 \/ 1 < i BY <1>1, <2>1
  <2>3. CASE i = 1 BY <2>1, <2>3 DEF Present
  <2>4. CASE 1 < i BY <1>2, <1>4, <2>1, <2>4
  <2> QED BY <2>2, <2>3, <2>4
<1> QED BY <1>2, <1>4, <1>5 DEF First

LEMMA ActivateReadInv ==
  ASSUME IInv, NEW w \in Workers, NEW start \in 0..MaxTime, ActivateRead(w, start)
  PROVE  IInv'
<1> DEFINE j == [op |-> "activate", phases |-> Present, first |-> First(Present)]
<1>1. timeline.status = "DRAFT" BY DEF ActivateRead
<1>2. PICK s \in Ordered :
        Note(w, j, [startDate |-> start, dates |-> Recalculated(dates, s, start)])
  BY DEF ActivateRead
<1>3. Present \in SUBSET Phases /\ First(Present) \in SUBSET Phases
  BY DEF Present, First
<1>4. j \in Jobs BY <1>3 DEF Jobs
<1>5. Present # {} => First(Present) # {} BY FirstExists DEF IInv, TypeOK
<1>6. j # NoJob /\ Decided(j) BY <1>1, <1>5 DEF NoJob, Decided
<1> DEFINE x == [startDate |-> start, dates |-> Recalculated(dates, s, start)]
<1>7. Carries(j, x)
  <2>1. start \in Nat OBVIOUS
  <2>2. Spans(Recalculated(dates, s, start))
    BY <2>1, DatesTyped, RecalculatedSpans, SpansOf
  <2> QED BY <2>1, <2>2 DEF Carries, First
<1> HIDE DEF j, x
<1> QED BY <1>2, <1>4, <1>6, <1>7, NoteInv DEF x

LEMMA PlainReadInv ==
  ASSUME IInv, NEW w \in Workers,
         PauseRead(w) \/ ResumeRead(w) \/ UnlockRead(w) \/ ResetRead(w)
  PROVE  IInv'
<1>1. CASE PauseRead(w)
  <2> DEFINE j == [op |-> "pause"]
  <2>1. Note(w, j, NoPlan) /\ timeline.status = "ACTIVE" BY <1>1 DEF PauseRead
  <2>2. j \in Jobs /\ j # NoJob /\ Decided(j) /\ Carries(j, NoPlan)
    BY <2>1 DEF Jobs, NoJob, Decided, Carries
  <2> QED BY <2>1, <2>2, NoteInv
<1>2. CASE ResumeRead(w)
  <2> DEFINE j == [op |-> "resume", phases |-> Moving]
  <2> DEFINE paused == now - schedule.pausedAt
             x == [startDate |-> None,
                   dates |-> [p \in Moving |->
                     [startDate |-> dates[p].startDate + paused,
                      endDate |-> dates[p].endDate + paused]]]
  <2>1. timeline.status = "PAUSED" /\ schedule.pausedAt # None /\ Note(w, j, x)
    BY <1>2 DEF ResumeRead
  <2>2. Moving \in SUBSET Phases BY DEF Moving, Present
  <2>3. j \in Jobs /\ j # NoJob /\ Decided(j)
    BY <2>1, <2>2 DEF Jobs, NoJob, Decided
  <2>4. paused \in Nat BY <2>1 DEF IInv, TypeOK, Clock
  <2>5. ASSUME NEW p \in Moving
        PROVE  x.dates[p] \in Span
    <3>1. dates[p].startDate \in Nat /\ dates[p].endDate \in Nat
      BY <2>2 DEF Moving, IInv, TypeOK
    <3> QED BY <2>4, <3>1 DEF Span
  <2>6. Carries(j, x) BY <2>5 DEF Carries, Spans
  <2> HIDE DEF j, x
  <2> QED BY <2>1, <2>3, <2>6, NoteInv
<1>3. CASE UnlockRead(w)
  <2> DEFINE j == [op |-> "unlock"]
  <2>1. Note(w, j, NoPlan) /\ timeline.status # "COMPLETED" BY <1>3 DEF UnlockRead
  <2>2. j \in Jobs /\ j # NoJob /\ Decided(j) /\ Carries(j, NoPlan)
    BY <2>1 DEF Jobs, NoJob, Decided, Carries
  <2> QED BY <2>1, <2>2, NoteInv
<1>4. CASE ResetRead(w)
  <2> DEFINE j == [op |-> "reset", phases |-> Present]
  <2>1. Note(w, j, NoPlan) BY <1>4 DEF ResetRead
  <2>2. Present \in SUBSET Phases BY DEF Present
  <2>3. j \in Jobs /\ j # NoJob /\ Decided(j) /\ Carries(j, NoPlan)
    BY <2>2 DEF Jobs, NoJob, Decided, Carries
  <2> QED BY <2>1, <2>3, NoteInv
<1> QED BY <1>1, <1>2, <1>3, <1>4

LEMMA CompleteReadInv ==
  ASSUME IInv, NEW w \in Workers, NEW p \in Phases, NEW locks \in BOOLEAN,
         CompleteRead(w, p, locks)
  PROVE  IInv'
<1> DEFINE j == [op |-> "complete", phase |-> p, index |-> orderIndex[p],
                 locks |-> locks, locked |-> timeline.locked]
<1>1. PICK x : /\ Note(w, j, x) /\ x.startDate = schedule.startDate
               /\ status[p] = "IN_PROGRESS" /\ PriorCompleted(orderIndex[p])
  BY DEF CompleteRead
<1>2. /\ orderIndex[p] \in Nat /\ timeline.locked \in BOOLEAN
      /\ schedule.startDate \in Nat \cup {None}
  BY DEF IInv, TypeOK
<1>3. j \in Jobs /\ j # NoJob BY <1>2 DEF Jobs, NoJob
<1>4. Decided(j) BY <1>1 DEF Decided
<1>5. Carries(j, x) BY <1>1, <1>2 DEF Carries
<1> QED BY <1>1, <1>3, <1>4, <1>5, NoteInv

LEMMA ReopenReadInv ==
  ASSUME IInv, NEW w \in Workers, NEW p \in Phases, ReopenRead(w, p)
  PROVE  IInv'
<1> DEFINE j == [op |-> "reopen", index |-> orderIndex[p]]
<1>1. Note(w, j, NoPlan) /\ MayReopen /\ status[p] = "COMPLETED" BY DEF ReopenRead
<1>2. orderIndex[p] \in Nat BY DEF IInv, TypeOK
<1>3. j \in Jobs /\ j # NoJob /\ Carries(j, NoPlan) BY <1>2 DEF Jobs, NoJob, Carries
<1>4. p \in Present BY <1>1 DEF Present, PhaseStatuses
<1>5. Decided(j) BY <1>1, <1>4 DEF Decided, MayReopen
<1> QED BY <1>1, <1>3, <1>5, NoteInv

\* What an update e of phase p sets once it is completed.
Edited(p, e) ==
  LET start == IF e.startDate = None THEN dates[p].startDate ELSE e.startDate
      weeks == IF e.durationWeeks = None THEN dates[p].durationWeeks
               ELSE e.durationWeeks
  IN [e EXCEPT
        !.endDate = IF @ # None THEN @
                    ELSE IF start # None
                            /\ (e.startDate # None \/ e.durationWeeks # None)
                    THEN start + weeks ELSE None,
        !.datesPinned = IF e.startDate # None \/ e.endDate # None THEN TRUE
                        ELSE @]

\* An end that is not pinned comes from the start and the duration.
LEMMA EditedType ==
  ASSUME IInv, NEW p \in Phases, NEW e \in Edits
  PROVE  /\ Edited(p, e) \in EditTypes
         /\ Edited(p, e).startDate = e.startDate
         /\ Edited(p, e).durationWeeks = e.durationWeeks
         /\ e.startDate # None =>
              Edited(p, e).endDate # None /\ Edited(p, e).datesPinned = TRUE
         /\ Edited(p, e).endDate # None /\ Edited(p, e).datesPinned # TRUE =>
              /\ dates[p].startDate # None
              /\ Edited(p, e).endDate =
                   dates[p].startDate + Given(dates[p].durationWeeks, e.durationWeeks)
<1>1. e \in EditTypes BY DEF EditTypes
<1>2. dates[p] \in PhaseDates BY DatesTyped DEF DateTables
<1> DEFINE start == IF e.startDate = None THEN dates[p].startDate ELSE e.startDate
           weeks == IF e.durationWeeks = None THEN dates[p].durationWeeks
                    ELSE e.durationWeeks
           end == IF e.endDate # None THEN e.endDate
                  ELSE IF start # None /\ (e.startDate # None \/ e.durationWeeks # None)
                  THEN start + weeks ELSE None
           pinned == IF e.startDate # None \/ e.endDate # None THEN TRUE
                     ELSE e.datesPinned
<1>3. Edited(p, e) = [e EXCEPT !.endDate = end, !.datesPinned = pinned]
  BY DEF Edited
<1>4. start \in Nat \cup {None} /\ weeks \in Nat /\ weeks = Given(dates[p].durationWeeks, e.durationWeeks)
  BY <1>1, <1>2 DEF EditTypes, PhaseDates, Given
<1>5. start # None => start + weeks \in Nat
  <2> HIDE DEF start, weeks
  <2> QED BY <1>4
<1>6. end \in Nat \cup {None} /\ pinned \in BOOLEAN \cup {None}
  <2> HIDE DEF start, weeks
  <2> QED BY <1>1, <1>5 DEF EditTypes
<1>7. /\ e.startDate # None => end # None /\ pinned = TRUE
      /\ end # None /\ pinned # TRUE =>
           dates[p].startDate # None /\ end = dates[p].startDate + weeks
  <2>1. CASE e.startDate # None
    <3>1. start # None BY <2>1
    <3>2. end # None
      <4> HIDE DEF start, weeks
      <4> QED BY <1>5, <2>1, <3>1
    <3> QED BY <2>1, <3>2
  <2>2. CASE e.startDate = None
    <3> HIDE DEF weeks
    <3> QED BY <2>2
  <2> QED BY <2>1, <2>2
<1> HIDE DEF start, weeks, end, pinned
<1>8. /\ Edited(p, e) \in EditTypes
      /\ Edited(p, e).startDate = e.startDate
      /\ Edited(p, e).durationWeeks = e.durationWeeks
      /\ Edited(p, e).endDate = end /\ Edited(p, e).datesPinned = pinned
  BY <1>1, <1>3, <1>6 DEF EditTypes
<1> QED BY <1>4, <1>7, <1>8

LEMMA UpdateReadShape ==
  ASSUME NEW w, NEW p, NEW e, UpdateRead(w, p, e)
  PROVE  /\ p \in Present
         /\ Note(w, [op |-> "update", phase |-> p],
                 [startDate |-> schedule.startDate, edit |-> Edited(p, e)])
BY DEF UpdateRead, Edited

LEMMA UpdateReadInv ==
  ASSUME IInv, NEW w \in Workers, NEW p \in Phases, NEW e \in Edits, UpdateRead(w, p, e)
  PROVE  IInv'
<1> DEFINE j == [op |-> "update", phase |-> p]
           x == [startDate |-> schedule.startDate, edit |-> Edited(p, e)]
<1>1. Note(w, j, x) BY UpdateReadShape
<1>2. j \in Jobs /\ j # NoJob /\ Decided(j)
  BY DEF Jobs, NoJob, Decided
<1>3. Edited(p, e) \in EditTypes BY EditedType
<1>4. schedule.startDate \in Nat \cup {None} BY DEF IInv, TypeOK
<1>5. Carries(j, x) BY <1>3, <1>4 DEF Carries
<1> HIDE DEF j, x
<1> QED BY <1>1, <1>2, <1>5, NoteInv

LEMMA RemoveReadInv ==
  ASSUME IInv, NEW w \in Workers, NEW p \in Phases, RemoveRead(w, p)
  PROVE  IInv'
<1> DEFINE rest == Present \ {p}
<1>1. PICK at \in [rest -> Room(Cardinality(rest))] :
        /\ \A q, r \in rest : /\ Before(q, r) => at[q] < at[r]
                              /\ q # r => at[q] # at[r]
        /\ LET moves == {q \in rest : orderIndex[q] # at[q]} IN
           Note(w, [op |-> "remove", phase |-> p, phases |-> moves,
                    index |-> [q \in Phases |-> IF q \in rest THEN at[q]
                                                ELSE orderIndex[q]]],
                NoPlan)
  BY DEF RemoveRead
<1> DEFINE moves == {q \in rest : orderIndex[q] # at[q]}
           index == [q \in Phases |-> IF q \in rest THEN at[q] ELSE orderIndex[q]]
           j == [op |-> "remove", phase |-> p, phases |-> moves, index |-> index]
<1>2. Note(w, j, NoPlan) BY <1>1
<1>3. index \in [Phases -> Nat]
  <2>1. rest \subseteq Phases /\ IsFiniteSet(rest) BY FS_Subset DEF Present
  <2>2. Cardinality(rest) \in Nat BY <2>1, FS_CardinalityType
  <2>3. \A q \in rest : at[q] \in Nat BY <1>1, <2>2 DEF Room
  <2> QED BY <2>3 DEF IInv, TypeOK
<1>4. moves \in SUBSET Phases BY DEF Present
<1>5. j \in Jobs /\ j # NoJob /\ Carries(j, NoPlan) BY <1>3, <1>4 DEF Jobs, NoJob, Carries
<1>6. ASSUME NEW q \in rest, NEW r \in rest
      PROVE  /\ q \notin moves => index[q] = orderIndex[q]
             /\ Before(q, r) => index[q] < index[r]
             /\ q # r => index[q] # index[r]
  <2>1. q \in Phases /\ r \in Phases BY DEF Present
  <2>2. index[q] = at[q] /\ index[r] = at[r] BY <2>1
  <2> QED BY <1>1, <2>2
<1>7. Decided(j) BY <1>6 DEF Decided
<1> QED BY <1>2, <1>5, <1>7, NoteInv

LEMMA ReadInv ==
  ASSUME IInv, NEW w \in Workers, Read(w)
  PROVE  IInv'
BY ActivateReadInv, PlainReadInv, CompleteReadInv, ReopenReadInv, RemoveReadInv,
   UpdateReadInv DEF Read

-----------------------------------------------------------------------------
(* Writes *)

TimelineStates ==
  [status : {"DRAFT", "ACTIVE", "PAUSED", "COMPLETED"}, locked : BOOLEAN]
PhaseStates == [Phases -> PhaseStatuses \cup {"none", "gone"}]
Schedules == [startDate : Nat \cup {None}, pausedAt : Nat \cup {None}]

\* The dates a request carries stay its own.
LEMMA PlansStay ==
  ASSUME IInv, NEW w \in Workers, NEW j, NEW d, Carries(j, d),
         job' = [job EXCEPT ![w] = j], plan' = [plan EXCEPT ![w] = d]
  PROVE  Plans'
<1>1. plan = [x \in Workers |-> plan[x]] /\ job \in [Workers -> Jobs]
  BY DEF IInv, Plans, TypeOK
<1>2. plan' = [x \in Workers |-> IF x = w THEN d ELSE plan[x]] BY <1>1
<1>3. plan' = [x \in Workers |-> plan'[x]] BY <1>2
<1>4. \A x \in Workers : Carries(job[x], plan[x])'
  BY <1>1, <1>2 DEF IInv, Plans, Carries
<1> QED BY <1>3, <1>4 DEF Plans

\* What every write shares: the types, and the requests that are not this one.
LEMMA WriteShape ==
  ASSUME IInv, NEW w \in Workers, Done(w), job[w].op \in Ops,
         timeline' \in TimelineStates, status' \in PhaseStates,
         orderIndex' \in [Phases -> Nat], schedule' \in Schedules,
         schedule'.pausedAt \in {None, schedule.pausedAt, now},
         dates' \in DateTables, edited' \in BOOLEAN, shifted' \in BOOLEAN
  PROVE  /\ TypeOK' /\ Clock' /\ Plans' /\ UpToDate'
         /\ job'[w] = NoJob
         /\ late' = IF w \in overtaken THEN late \cup {job[w].op} ELSE late
<1>1. /\ job' = [job EXCEPT ![w] = NoJob] /\ plan' = [plan EXCEPT ![w] = NoPlan]
      /\ late' = IF w \in overtaken THEN late \cup {job[w].op} ELSE late
      /\ now' = now /\ begun' = begun /\ Overtake(w)
  BY DEF Done
<1>2. job' \in [Workers -> Jobs] /\ job'[w] = NoJob
      /\ \A x \in Workers : x # w => job'[x] = job[x]
  BY <1>1, NoJobIsJob DEF IInv, TypeOK
<1>3. /\ overtaken' \subseteq Workers \ {w}
      /\ \A x \in overtaken' : job'[x] # NoJob
      /\ \A x \in Workers :
           x # w /\ job'[x] # NoJob /\ x \notin overtaken' => Decided(job[x])'
  BY <1>1, <1>2, OthersStand DEF IInv
<1>4. TypeOK'
  BY <1>1, <1>2, <1>3
  DEF IInv, TypeOK, TimelineStates, PhaseStates, Schedules, Idle, DateTables, PhaseDates
<1>5. UpToDate' BY <1>2, <1>3 DEF UpToDate
<1>6. Plans' BY <1>1, PlansStay, NoJobIsJob
<1>7. Clock' BY <1>1 DEF IInv, TypeOK, Clock
<1> QED BY <1>1, <1>2, <1>4, <1>5, <1>6, <1>7

\* A write that moves no phase keeps the indexes distinct.
LEMMA DistinctStays ==
  ASSUME IInv, Present' = Present, orderIndex' = orderIndex,
         "remove" \in late => "remove" \in late'
  PROVE  Distinct'
BY DEF IInv, Distinct

\* While nothing disturbs the phases, their indexes are distinct numbers.
LEMMA Indexes ==
  ASSUME IInv, Undisturbed
  PROVE  /\ \A p \in Phases : orderIndex[p] \in Nat
         /\ \A p, q \in Present : p # q => orderIndex[p] # orderIndex[q]
         /\ InOrder
BY DEF IInv, TypeOK, Undisturbed, Distinct, Frontier

\* Nothing disturbs the phases after a write only if nothing did before and the
\* write was not overtaken, unless that is harmless.
LEMMA UndisturbedBefore ==
  ASSUME IInv, NEW w \in Workers, Undisturbed', edited => edited',
         late' = IF w \in overtaken THEN late \cup {job[w].op} ELSE late
  PROVE  /\ Undisturbed
         /\ job[w].op \notin {"unlock", "update", "redate"} =>
              w \notin overtaken /\ (job[w] # NoJob => Decided(job[w]))
<1>1. Undisturbed /\ (job[w].op \notin {"unlock", "update", "redate"} =>
                        w \notin overtaken)
  BY DEF Undisturbed, IInv, TypeOK
<1> QED BY <1>1 DEF IInv, UpToDate

LEMMA ActivateInOrder ==
  ASSUME IInv, Undisturbed, NEW w \in Workers, Decided(job[w]), ActivateWrite(w)
  PROVE  InOrder'
<1> DEFINE j == job[w]
<1>1. /\ j.op = "activate"
      /\ status' = [p \in Phases |-> IF p \in j.first THEN "IN_PROGRESS"
                                     ELSE IF p \in j.phases THEN "PENDING"
                                     ELSE status[p]]
      /\ timeline' = [timeline EXCEPT !.status = "ACTIVE"]
      /\ orderIndex' = orderIndex
  BY DEF ActivateWrite
<1>2. /\ j.phases = Present /\ j.first = First(Present)
      /\ Present # {} => First(Present) # {}
  BY <1>1 DEF Decided
<1>3. timeline'.status = "ACTIVE" BY <1>1 DEF IInv, TypeOK
<1>4. Present' = Present BY <1>1, <1>2 DEF Present, PhaseStatuses, First
<1>5. ASSUME Present # {} PROVE \E p \in InProgress' : \A q \in Present :
         /\ Before(q, p) => status'[q] = "COMPLETED"
         /\ Before(p, q) => status'[q] = "PENDING"
  <2>1. PICK p \in Present : \A q \in Present : orderIndex[p] <= orderIndex[q]
    BY <1>2, <1>5 DEF First
  <2>2. p \in Phases /\ p \in InProgress'
    BY <1>1, <1>2, <2>1 DEF First, Present, InProgress
  <2>3. ASSUME NEW q \in Present
        PROVE  /\ ~Before(q, p)
               /\ Before(p, q) => status'[q] = "PENDING"
    <3>1. q \in Phases BY DEF Present
    <3>2. ~Before(q, p) BY <2>1, <2>2, <3>1, Indexes DEF Before
    <3>3. ASSUME Before(p, q) PROVE q \notin First(Present)
      BY <2>1, <2>2, <3>1, <3>3, Indexes DEF Before, First
    <3> QED BY <1>1, <1>2, <3>1, <3>2, <3>3
  <2> QED BY <2>2, <2>3
<1>6. \A p, q : Before(p, q)' <=> Before(p, q) BY <1>1 DEF Before
<1> QED BY <1>3, <1>4, <1>5, <1>6 DEF InOrder

LEMMA ActivateWriteInv ==
  ASSUME IInv, NEW w \in Workers, ActivateWrite(w)
  PROVE  IInv'
<1> DEFINE j == job[w]
<1>1. /\ j.op = "activate" /\ j.phases \subseteq Present /\ Done(w)
      /\ status' = [p \in Phases |-> IF p \in j.first THEN "IN_PROGRESS"
                                     ELSE IF p \in j.phases THEN "PENDING"
                                     ELSE status[p]]
      /\ timeline' = [timeline EXCEPT !.status = "ACTIVE"]
      /\ dates' = Set(dates, plan[w].dates)
      /\ schedule' = [schedule EXCEPT !.startDate = plan[w].startDate]
      /\ shifted' = FALSE
      /\ UNCHANGED <<orderIndex, edited>>
  BY DEF ActivateWrite
<1>2. /\ j.phases \in SUBSET Phases /\ j.first \subseteq j.phases
      /\ plan[w].startDate \in Nat /\ Spans(plan[w].dates)
  BY <1>1, JobFields DEF IInv, TypeOK, Plans, Carries
<1>3. /\ TypeOK' /\ Clock' /\ Plans' /\ UpToDate'
      /\ late' = IF w \in overtaken THEN late \cup {j.op} ELSE late
  <2>1. /\ timeline' \in TimelineStates /\ schedule' \in Schedules
        /\ schedule'.pausedAt = schedule.pausedAt
    BY <1>1, <1>2 DEF IInv, TypeOK, TimelineStates, Schedules
  <2>2. status' \in PhaseStates
    BY <1>1, <1>2 DEF IInv, TypeOK, PhaseStates, PhaseStatuses
  <2>3. j.op \in Ops BY <1>1 DEF Ops
  <2>4. dates' \in DateTables BY <1>1, <1>2, DatesTyped, SetDates
  <2> QED BY <1>1, <2>1, <2>2, <2>3, <2>4, WriteShape DEF IInv, TypeOK
<1>4. CompletedIsLocked' BY <1>1 DEF CompletedIsLocked, IInv, TypeOK
<1>5. Distinct'
  <2>1. Present' = Present BY <1>1, <1>2 DEF Present, PhaseStatuses
  <2> QED BY <1>1, <1>3, <2>1, DistinctStays
<1>6. Frontier'
  <2>1. SUFFICES ASSUME Undisturbed' PROVE InOrder' BY DEF Frontier
  <2>2. j # NoJob /\ j.op \notin {"unlock", "update", "redate"} BY <1>1 DEF NoJob
  <2>3. edited => edited' BY <1>1
  <2>4. Undisturbed /\ Decided(j) BY <1>3, <2>1, <2>2, <2>3, UndisturbedBefore
  <2> QED BY <2>4, ActivateInOrder
<1> QED BY <1>3, <1>4, <1>5, <1>6 DEF IInv

\* A write that leaves the phases as they are, and only pauses or resumes.
LEMMA QuietWrite ==
  ASSUME IInv, NEW w \in Workers, TypeOK', Clock', Plans', UpToDate',
         UNCHANGED <<status, orderIndex>>, edited => edited',
         late' = IF w \in overtaken THEN late \cup {job[w].op} ELSE late,
         \/ timeline'.status = timeline.status
         \/ /\ job[w].op \in {"pause", "resume"}
            /\ timeline'.status \in {"ACTIVE", "PAUSED"}
            /\ Decided(job[w]) => timeline.status \in {"ACTIVE", "PAUSED"},
         CompletedIsLocked'
  PROVE  IInv'
<1>1. Present' = Present /\ InProgress' = InProgress BY DEF Present, InProgress
<1>2. Distinct' BY <1>1, DistinctStays
<1>3. Frontier'
  <2>1. SUFFICES ASSUME Undisturbed' PROVE InOrder' BY DEF Frontier
  <2>2. /\ Undisturbed
        /\ job[w].op \notin {"unlock", "update", "redate"} =>
              w \notin overtaken /\ (job[w] # NoJob => Decided(job[w]))
    BY <2>1, UndisturbedBefore
  <2>3. InOrder BY <2>2, Indexes
  <2>4. \/ timeline'.status = timeline.status
        \/ timeline'.status \in {"ACTIVE", "PAUSED"} /\ timeline.status \in {"ACTIVE", "PAUSED"}
    BY <2>2, NoJobIsJob
  <2> QED BY <1>1, <2>3, <2>4 DEF InOrder, Before
<1> QED BY <1>2, <1>3 DEF IInv

LEMMA PauseWriteInv ==
  ASSUME IInv, NEW w \in Workers, PauseWrite(w)
  PROVE  IInv'
<1>1. /\ job[w].op = "pause" /\ Done(w)
      /\ timeline' = [timeline EXCEPT !.status = "PAUSED"]
      /\ schedule' = [schedule EXCEPT !.pausedAt = now]
      /\ UNCHANGED <<status, orderIndex, dates, edited, shifted>>
  BY DEF PauseWrite
<1>2. /\ TypeOK' /\ Clock' /\ Plans' /\ UpToDate'
      /\ late' = IF w \in overtaken THEN late \cup {job[w].op} ELSE late
  <2>1. /\ timeline' \in TimelineStates /\ schedule' \in Schedules
        /\ schedule'.pausedAt = now
    BY <1>1 DEF IInv, TypeOK, TimelineStates, Schedules
  <2>2. status' \in PhaseStates /\ job[w].op \in Ops
    BY <1>1 DEF IInv, TypeOK, PhaseStates, Ops
  <2> QED BY <1>1, <2>1, <2>2, DatesTyped, WriteShape DEF IInv, TypeOK
<1>3. timeline'.status = "PAUSED" BY <1>1 DEF IInv, TypeOK
<1>4. CompletedIsLocked' BY <1>3 DEF CompletedIsLocked
<1>5. Decided(job[w]) => timeline.status \in {"ACTIVE", "PAUSED"} BY <1>1 DEF Decided
<1>6. edited => edited' BY <1>1
<1> QED BY <1>1, <1>2, <1>3, <1>4, <1>5, <1>6, QuietWrite

LEMMA ResumeWriteInv ==
  ASSUME IInv, NEW w \in Workers, ResumeWrite(w)
  PROVE  IInv'
<1>1. /\ job[w].op = "resume" /\ Done(w)
      /\ dates' = Set(dates, plan[w].dates)
      /\ timeline' = [timeline EXCEPT !.status = "ACTIVE"]
      /\ schedule' = [schedule EXCEPT !.pausedAt = None]
      /\ shifted' = (shifted \/ dates' # dates)
      /\ UNCHANGED <<status, orderIndex, edited>>
  BY DEF ResumeWrite
<1>2. /\ TypeOK' /\ Clock' /\ Plans' /\ UpToDate'
      /\ late' = IF w \in overtaken THEN late \cup {job[w].op} ELSE late
  <2>1. /\ timeline' \in TimelineStates /\ schedule' \in Schedules
        /\ schedule'.pausedAt = None
    BY <1>1 DEF IInv, TypeOK, TimelineStates, Schedules
  <2>2. status' \in PhaseStates /\ job[w].op \in Ops
    BY <1>1 DEF IInv, TypeOK, PhaseStates, Ops
  <2>3. shifted' \in BOOLEAN BY <1>1
  <2>4. Spans(plan[w].dates) BY <1>1 DEF IInv, Plans, Carries
  <2>5. dates' \in DateTables BY <1>1, <2>4, DatesTyped, SetDates
  <2> QED BY <1>1, <2>1, <2>2, <2>3, <2>5, WriteShape DEF IInv, TypeOK
<1>3. timeline'.status = "ACTIVE" BY <1>1 DEF IInv, TypeOK
<1>4. CompletedIsLocked' BY <1>3 DEF CompletedIsLocked
<1>5. Decided(job[w]) => timeline.status \in {"ACTIVE", "PAUSED"} BY <1>1 DEF Decided
<1>6. edited => edited' BY <1>1
<1> QED BY <1>1, <1>2, <1>3, <1>4, <1>5, <1>6, QuietWrite

LEMMA UnlockWriteInv ==
  ASSUME IInv, NEW w \in Workers, UnlockWrite(w)
  PROVE  IInv'
<1>1. /\ job[w].op = "unlock" /\ Done(w)
      /\ timeline' = [timeline EXCEPT !.locked = FALSE]
      /\ UNCHANGED <<status, orderIndex, schedule, dates, edited, shifted>>
  BY DEF UnlockWrite
<1>2. /\ TypeOK' /\ Clock' /\ Plans' /\ UpToDate'
      /\ late' = IF w \in overtaken THEN late \cup {job[w].op} ELSE late
  <2>1. timeline' \in TimelineStates /\ schedule' \in Schedules
    BY <1>1 DEF IInv, TypeOK, TimelineStates, Schedules
  <2>2. status' \in PhaseStates /\ job[w].op \in Ops
    BY <1>1 DEF IInv, TypeOK, PhaseStates, Ops
  <2> QED BY <1>1, <2>1, <2>2, DatesTyped, WriteShape DEF IInv, TypeOK
<1>3. timeline'.status = timeline.status BY <1>1 DEF IInv, TypeOK
<1>4. CompletedIsLocked'
  <2>1. CASE w \in overtaken BY <1>1, <1>2, <2>1 DEF CompletedIsLocked
  <2>2. CASE w \notin overtaken
    <3>1. job[w] # NoJob BY <1>1 DEF NoJob
    <3>2. timeline.status # "COMPLETED"
      BY <1>1, <2>2, <3>1 DEF IInv, UpToDate, Decided
    <3> QED BY <1>3, <3>2 DEF CompletedIsLocked
  <2> QED BY <2>1, <2>2
<1>5. edited => edited' BY <1>1
<1> QED BY <1>1, <1>2, <1>3, <1>4, <1>5, QuietWrite

\* The dates d of a phase once e is written.
Updated(d, e) ==
  [startDate |-> Given(d.startDate, e.startDate),
   endDate |-> Given(d.endDate, e.endDate),
   durationWeeks |-> Given(d.durationWeeks, e.durationWeeks),
   datesPinned |-> Given(d.datesPinned, e.datesPinned)]

LEMMA UpdatedType ==
  ASSUME NEW d \in PhaseDates, NEW e \in EditTypes
  PROVE  Updated(d, e) \in PhaseDates
BY DEF PhaseDates, EditTypes, Updated, Given

LEMMA UpdateWriteInv ==
  ASSUME IInv, NEW w \in Workers, UpdateWrite(w)
  PROVE  IInv'
<1> DEFINE p == job[w].phase
           e == plan[w].edit
           j == [op |-> "refresh", phase |-> p]
           d == [startDate |-> plan[w].startDate, dates |-> <<>>]
<1>1. /\ job[w].op = "update"
      /\ dates' = [dates EXCEPT ![p] = Updated(dates[p], e)]
      /\ shifted' = (shifted \/ Diverges(p, e))
      /\ UNCHANGED <<timeline, status, orderIndex, schedule, edited>>
  BY DEF UpdateWrite, Updated
<1>2. \/ Done(w)
      \/ /\ plan[w].startDate # None
         /\ job' = [job EXCEPT ![w] = j]
         /\ plan' = [plan EXCEPT ![w] = d]
         /\ late' = IF w \in overtaken THEN late \cup {"update"} ELSE late
         /\ UNCHANGED <<now, begun>>
         /\ Overtake(w)
  BY DEF UpdateWrite
<1>3. shifted' \in BOOLEAN BY <1>1
<1>a. dates' \in DateTables
  <2>1. p \in Phases /\ e \in EditTypes
    BY <1>1, JobFields DEF IInv, TypeOK, Plans, Carries
  <2> QED BY <1>1, <2>1, DatesTyped, UpdatedType DEF DateTables
<1>4. /\ TypeOK' /\ Clock' /\ Plans' /\ UpToDate'
      /\ late' = IF w \in overtaken THEN late \cup {job[w].op} ELSE late
  <2>1. CASE Done(w)
    <3>1. timeline' \in TimelineStates /\ schedule' \in Schedules
          /\ status' \in PhaseStates /\ job[w].op \in Ops
      BY <1>1 DEF IInv, TypeOK, TimelineStates, Schedules, PhaseStates, Ops
    <3> QED BY <1>1, <1>3, <1>a, <2>1, <3>1, WriteShape DEF IInv, TypeOK
  <2>2. CASE ~Done(w)
    <3>1. Carries(j, d)
      BY <1>1, <1>2, <2>2 DEF IInv, Plans, Carries
    <3>2. j \in Jobs /\ j.op = "refresh" /\ j # NoJob
      BY <1>1, JobFields DEF Jobs, NoJob, IInv, TypeOK
    <3> HIDE DEF j, d
    <3>3. /\ job' \in [Workers -> Jobs] /\ job'[w] = j
          /\ \A y \in Workers : y # w => job'[y] = job[y]
      BY <1>2, <2>2, <3>2 DEF IInv, TypeOK
    <3>4. /\ overtaken' \subseteq Workers \ {w}
          /\ \A y \in overtaken' : job'[y] # NoJob
          /\ \A y \in Workers :
               y # w /\ job'[y] # NoJob /\ y \notin overtaken' => Decided(job[y])'
      BY <1>2, <2>2, <3>3, OthersStand DEF IInv
    <3>5. TypeOK'
      BY <1>1, <1>2, <1>3, <1>a, <2>2, <3>3, <3>4
      DEF IInv, TypeOK, Idle, Ops, DateTables, PhaseDates
    <3>6. Decided(job[w])' BY <3>2, <3>3 DEF Decided
    <3>7. UpToDate' BY <3>3, <3>4, <3>6 DEF UpToDate
    <3>8. Plans' BY <1>2, <2>2, <3>1, <3>2, PlansStay
    <3>9. Clock' BY <1>1, <1>2, <2>2 DEF IInv, Clock
    <3> QED BY <1>1, <1>2, <2>2, <3>5, <3>7, <3>8, <3>9
  <2> QED BY <2>1, <2>2
<1>5. CompletedIsLocked' BY <1>1, <1>4 DEF CompletedIsLocked, IInv
<1>6. edited => edited' BY <1>1
<1> QED BY <1>1, <1>4, <1>5, <1>6, QuietWrite

LEMMA RewrittenType ==
  ASSUME NEW d \in DateTables, NEW s \in Ordered, NEW start \in Nat, NEW S
  PROVE  Set(d, Only(Recalculated(d, s, start), S)) \in DateTables
<1>1. Spans(Recalculated(d, s, start)) BY RecalculatedSpans, SpansOf
<1>2. Spans(Only(Recalculated(d, s, start), S)) BY <1>1, OnlySpans
<1> QED BY <1>2, SetDates

\* The read of an update's second half: nothing is written.
LEMMA RefreshReadInv ==
  ASSUME IInv, NEW w \in Workers, RefreshRead(w)
  PROVE  IInv'
<1> DEFINE j == [op |-> "redate", index |-> orderIndex]
<1>1. /\ job[w].op = "refresh" /\ job' = [job EXCEPT ![w] = j]
      /\ UNCHANGED <<timeline, status, orderIndex, schedule, dates, now, begun,
                     overtaken, late, edited, shifted>>
  BY DEF RefreshRead, rows
<1>2. PICK s \in Ordered : \E S :
        plan' = [plan EXCEPT ![w] =
                   [startDate |-> plan[w].startDate,
                    dates |-> Only(Recalculated(dates, s, plan[w].startDate), S)]]
  BY DEF RefreshRead
<1>3. PICK S :
        plan' = [plan EXCEPT ![w] =
                   [startDate |-> plan[w].startDate,
                    dates |-> Only(Recalculated(dates, s, plan[w].startDate), S)]]
  BY <1>2
<1> DEFINE d == [startDate |-> plan[w].startDate,
                 dates |-> Only(Recalculated(dates, s, plan[w].startDate), S)]
<1>4. plan[w].startDate \in Nat BY <1>1 DEF IInv, Plans, Carries
<1>5. Spans(d.dates)
  <2>1. Spans(Recalculated(dates, s, plan[w].startDate))
    BY <1>4, DatesTyped, RecalculatedSpans, SpansOf
  <2> QED BY <2>1, OnlySpans
<1>6. j \in Jobs /\ j.op = "redate" /\ j # NoJob
  BY DEF Jobs, NoJob, IInv, TypeOK
<1>7. Carries(j, d) BY <1>5, <1>6 DEF Carries
<1>8. Plans'
  <2> HIDE DEF j, d
  <2> QED BY <1>1, <1>3, <1>7, PlansStay DEF d
<1> HIDE DEF j, d
<1>9. /\ job' \in [Workers -> Jobs] /\ job'[w] = j
      /\ \A x \in Workers : x # w => job'[x] = job[x]
  BY <1>1, <1>6 DEF IInv, TypeOK
<1>10. TypeOK' BY <1>1, <1>6, <1>9 DEF IInv, TypeOK, Idle
<1>11. UpToDate'
  <2>1. \A k : Decided(k)' <=> Decided(k)
    BY <1>1 DEF Decided, Present, First, Before, PriorCompleted
  <2>2. job'[w].op = "redate" BY <1>6, <1>9
  <2>3. Decided(job[w])' BY <2>2 DEF Decided
  <2> QED BY <1>1, <1>9, <2>1, <2>3 DEF IInv, UpToDate
<1>12. Clock' /\ Distinct' /\ Frontier' /\ CompletedIsLocked'
  BY <1>1 DEF IInv, Clock, Distinct, Frontier, InOrder, CompletedIsLocked, Undisturbed,
     Present, InProgress, Before
<1> QED BY <1>8, <1>10, <1>11, <1>12 DEF IInv

\* One of the writes of the dates, and what is left of the plan.
LEMMA RefreshWriteShape ==
  ASSUME IInv, NEW w \in Workers, RefreshWrite(w)
  PROVE  \E q \in DOMAIN plan[w].dates \cap Present :
           LET x == [startDate |-> plan[w].startDate,
                     dates |-> Only(plan[w].dates, DOMAIN plan[w].dates \ {q})]
           IN /\ dates' = Set(dates, Only(plan[w].dates, {q}))
              /\ plan' = [plan EXCEPT ![w] = x]
              /\ Spans(plan[w].dates) /\ Spans(x.dates) /\ Carries(job[w], x)
<1>1. job[w].op = "redate" BY DEF RefreshWrite
<1>2. Spans(plan[w].dates) BY <1>1 DEF IInv, Plans, Carries
<1>3. PICK q \in DOMAIN plan[w].dates \cap Present :
        /\ dates' = Set(dates, Only(plan[w].dates, {q}))
        /\ plan' = [plan EXCEPT ![w] =
                      [startDate |-> plan[w].startDate,
                       dates |-> Only(plan[w].dates, DOMAIN plan[w].dates \ {q})]]
  BY DEF RefreshWrite
<1>4. Spans(Only(plan[w].dates, DOMAIN plan[w].dates \ {q})) BY <1>2, OnlySpans
<1> QED BY <1>1, <1>2, <1>3, <1>4 DEF Carries

LEMMA RefreshWriteInv ==
  ASSUME IInv, NEW w \in Workers, RefreshWrite(w)
  PROVE  IInv'
<1>1. /\ job[w].op = "redate" /\ job' = job /\ OvertakeOthers(w)
      /\ UNCHANGED <<timeline, status, orderIndex, schedule, now, begun, late, edited,
                     shifted>>
  BY DEF RefreshWrite
<1>2. PICK q : LET x == [startDate |-> plan[w].startDate,
                         dates |-> Only(plan[w].dates, DOMAIN plan[w].dates \ {q})]
               IN /\ dates' = Set(dates, Only(plan[w].dates, {q}))
                  /\ plan' = [plan EXCEPT ![w] = x]
                  /\ Spans(plan[w].dates) /\ Carries(job[w], x)
  BY RefreshWriteShape
<1>3. dates' \in DateTables
  <2>1. Spans(Only(plan[w].dates, {q})) BY <1>2, OnlySpans
  <2> QED BY <1>2, <2>1, DatesTyped, SetDates
<1>4. Plans'
  <2>1. job' = [job EXCEPT ![w] = job[w]] BY <1>1 DEF IInv, TypeOK
  <2> QED BY <1>2, <2>1, PlansStay
<1>5. overtaken' = {x \in Workers : \/ x \in overtaken
                                    \/ x # w /\ ~Idle(x) /\ Overtakes(x)}
  BY <1>1 DEF OvertakeOthers
<1>6. TypeOK' BY <1>1, <1>3, <1>5 DEF IInv, TypeOK, Idle, DateTables, PhaseDates
<1>7. UpToDate'
  <2>1. \A k : Decided(k)' <=> Decided(k)
    BY <1>1 DEF Decided, Present, First, Before, PriorCompleted
  <2>2. overtaken \subseteq overtaken' BY <1>5 DEF IInv, TypeOK
  <2> QED BY <1>1, <2>1, <2>2 DEF IInv, UpToDate
<1>8. Clock' /\ Distinct' /\ Frontier' /\ CompletedIsLocked'
  BY <1>1 DEF IInv, Clock, Distinct, Frontier, InOrder, CompletedIsLocked, Undisturbed,
     Present, InProgress, Before
<1> QED BY <1>4, <1>6, <1>7, <1>8 DEF IInv

LEMMA RefreshEndInv ==
  ASSUME IInv, NEW w \in Workers, RefreshEnd(w)
  PROVE  IInv'
<1>1. /\ job[w].op = "redate" /\ Done(w)
      /\ UNCHANGED <<timeline, status, orderIndex, schedule, dates, edited, shifted>>
  BY DEF RefreshEnd, rows
<1>2. /\ TypeOK' /\ Clock' /\ Plans' /\ UpToDate'
      /\ late' = IF w \in overtaken THEN late \cup {job[w].op} ELSE late
  <2>1. timeline' \in TimelineStates /\ schedule' \in Schedules
        /\ status' \in PhaseStates /\ job[w].op \in Ops
    BY <1>1 DEF IInv, TypeOK, TimelineStates, Schedules, PhaseStates, Ops
  <2> QED BY <1>1, <2>1, DatesTyped, WriteShape DEF IInv, TypeOK
<1>3. CompletedIsLocked' BY <1>1, <1>2 DEF CompletedIsLocked, IInv
<1>4. edited => edited' BY <1>1
<1> QED BY <1>1, <1>2, <1>3, <1>4, QuietWrite

LEMMA ResetWriteInv ==
  ASSUME IInv, NEW w \in Workers, ResetWrite(w)
  PROVE  IInv'
<1> DEFINE S == job[w].phases
<1>1. /\ job[w].op = "reset" /\ S \subseteq Present
      /\ status' = [p \in Phases |-> IF p \in S THEN "PENDING" ELSE status[p]]
      /\ timeline' = [status |-> "DRAFT", locked |-> FALSE]
      /\ schedule' = [startDate |-> None, pausedAt |-> None]
      /\ orderIndex' = orderIndex
      /\ job' = [job EXCEPT ![w] = NoJob]
      /\ plan' = [plan EXCEPT ![w] = NoPlan]
      /\ late' = IF w \in overtaken THEN late \cup {"reset"} ELSE late \cap {"remove"}
      /\ edited' = (edited /\ w \in overtaken)
      /\ dates' = [p \in Phases |-> IF p \in S THEN Undated(dates[p].durationWeeks)
                                    ELSE dates[p]]
      /\ UNCHANGED <<now, begun, shifted>> /\ Overtake(w)
  BY DEF ResetWrite
<1>2. /\ job' \in [Workers -> Jobs] /\ job'[w] = NoJob
      /\ \A x \in Workers : x # w => job'[x] = job[x]
  BY <1>1, NoJobIsJob DEF IInv, TypeOK
<1>3. /\ overtaken' \subseteq Workers \ {w}
      /\ \A x \in overtaken' : job'[x] # NoJob
      /\ \A x \in Workers :
           x # w /\ job'[x] # NoJob /\ x \notin overtaken' => Decided(job[x])'
  BY <1>1, <1>2, OthersStand DEF IInv
<1>4. TypeOK'
  <2>1. edited' \in BOOLEAN /\ shifted' \in BOOLEAN BY <1>1 DEF IInv, TypeOK
  <2>2. late' \subseteq Ops BY <1>1 DEF IInv, TypeOK, Ops
  <2>3. /\ status' \in PhaseStates /\ timeline' \in TimelineStates
        /\ schedule' \in Schedules
    BY <1>1 DEF IInv, TypeOK, PhaseStates, PhaseStatuses, TimelineStates, Schedules
  <2>4. dates' \in DateTables
    BY <1>1, DatesTyped DEF DateTables, PhaseDates, Undated
  <2> QED BY <1>1, <1>2, <1>3, <2>1, <2>2, <2>3, <2>4
      DEF IInv, TypeOK, Idle, PhaseStates, TimelineStates, Schedules, DateTables, PhaseDates
<1>5. UpToDate' BY <1>2, <1>3 DEF UpToDate
<1>6. Plans' /\ Clock' BY <1>1, PlansStay, NoJobIsJob DEF Clock
<1>7. CompletedIsLocked' BY <1>1 DEF CompletedIsLocked
<1>8. Present' = Present BY <1>1 DEF Present, PhaseStatuses
<1>9. Distinct' BY <1>1, <1>8, DistinctStays
<1>10. Frontier'
  <2>1. SUFFICES ASSUME Undisturbed' PROVE InOrder' BY DEF Frontier
  <2>2. w \notin overtaken BY <1>1, <2>1 DEF Undisturbed
  <2>3. job[w] # NoJob BY <1>1 DEF NoJob
  <2>4. S = Present BY <1>1, <2>2, <2>3 DEF IInv, UpToDate, Decided
  <2> QED BY <1>1, <1>8, <2>4 DEF InOrder, Present
<1> QED BY <1>4, <1>5, <1>6, <1>7, <1>9, <1>10 DEF IInv

-----------------------------------------------------------------------------
(* Completion and reopening *)

\* The phase in progress is followed by pending ones only.
LEMMA Around ==
  ASSUME IInv, Undisturbed, NEW p \in Present, NEW q \in Present, p # q
  PROVE  Before(p, q) \/ Before(q, p)
BY Indexes DEF Before, Present

LEMMA CompleteInOrder ==
  ASSUME IInv, Undisturbed, NEW w \in Workers, Decided(job[w]), CompleteWrite(w)
  PROVE  InOrder'
<1> DEFINE p == job[w].phase
           st == [status EXCEPT ![p] = "COMPLETED"]
           pending == {q \in Present : st[q] = "PENDING"}
           all == \A q \in Present : st[q] = "COMPLETED"
<1>1. /\ job[w].op = "complete" /\ p \in Present
      /\ timeline'.status = IF all THEN "COMPLETED" ELSE timeline.status
      /\ orderIndex' = orderIndex
  BY DEF CompleteWrite
<1>2. PICK next \in IF pending = {} THEN {None} ELSE First(pending) :
        IF Advances(next, st) THEN status' = [st EXCEPT ![next] = "IN_PROGRESS"]
        ELSE status' = st
  BY DEF CompleteWrite
<1>3. /\ status[p] \in {"IN_PROGRESS", "COMPLETED"}
      /\ \A q \in Present : Before(q, p) => status[q] = "COMPLETED"
  BY <1>1 DEF Decided, PriorCompleted, Before
<1>4. p \in Phases /\ status \in PhaseStates /\ Present \subseteq Phases
  BY <1>1 DEF Present, IInv, TypeOK, PhaseStates
<1>5. st \in PhaseStates /\ st[p] = "COMPLETED"
      /\ \A q \in Phases : q # p => st[q] = status[q]
  BY <1>4 DEF PhaseStates, PhaseStatuses
<1>6. \A q \in Phases : q \in Present <=> st[q] \in PhaseStatuses
  BY <1>1, <1>4, <1>5 DEF Present, PhaseStatuses
<1>7. ASSUME status' = st PROVE Present' = Present
  BY <1>6, <1>7 DEF Present
<1>8. \A q, r : Before(q, r)' <=> Before(q, r) BY <1>1 DEF Before
<1>9. InOrder BY Indexes
<1>10. timeline.status \in {"ACTIVE", "PAUSED", "COMPLETED"}
  BY <1>1, <1>3, <1>9 DEF InOrder, IInv, TypeOK
<1> HIDE DEF st, p
<1>11. CASE timeline.status = "COMPLETED"
  <2>1. \A q \in Present : status[q] = "COMPLETED" BY <1>9, <1>11 DEF InOrder
  <2>2. all BY <1>4, <1>5, <2>1
  <2>3. pending = {} BY <2>2
  <2>4. status' = st BY <1>2, <2>3 DEF Advances
  <2> QED BY <1>1, <1>7, <2>2, <2>4 DEF InOrder
<1>12. CASE timeline.status # "COMPLETED"
  <2>1. PICK x \in InProgress : \A q \in Present :
           /\ Before(q, x) => status[q] = "COMPLETED"
           /\ Before(x, q) => status[q] = "PENDING"
    BY <1>1, <1>9, <1>10, <1>12 DEF InOrder
  <2>2. x \in Present /\ status[x] = "IN_PROGRESS"
    BY <2>1 DEF InProgress, Present, PhaseStatuses
  <2>3. CASE x = p
    <3>1. \A q \in Present : st[q] = "COMPLETED" \/ (Before(p, q) /\ st[q] = "PENDING")
      BY <1>1, <1>4, <1>5, <2>1, <2>3, Around
    <3>2. CASE pending = {}
      <4>1. all BY <3>1, <3>2
      <4>2. status' = st BY <1>2, <3>2 DEF Advances
      <4> QED BY <1>1, <1>7, <4>1, <4>2 DEF InOrder
    <3>3. CASE pending # {}
      <4>1. /\ next \in Present /\ st[next] = "PENDING"
            /\ \A q \in pending : orderIndex[next] <= orderIndex[q]
        BY <1>2, <3>3 DEF First
      <4>2. \A q \in Present : Before(q, next) => st[q] = "COMPLETED"
        <5>1. SUFFICES ASSUME NEW q \in Present, Before(q, next), st[q] = "PENDING"
              PROVE  FALSE
          BY <3>1
        <5>2. q \in pending BY <5>1
        <5> QED BY <1>4, <4>1, <5>1, <5>2, Indexes DEF Before
      <4>3. next # None BY <1>4, <4>1
      <4>4. Advances(next, st) BY <4>2, <4>3 DEF Advances
      <4>5. status' = [st EXCEPT ![next] = "IN_PROGRESS"] BY <1>2, <4>4
      <4>6. next \in Phases /\ status'[next] = "IN_PROGRESS"
            /\ \A q \in Phases : q # next => status'[q] = st[q]
        BY <1>4, <1>5, <4>1, <4>5 DEF PhaseStates
      <4>7. Present' = Present
        BY <1>6, <4>1, <4>6 DEF Present, PhaseStatuses
      <4>8. ASSUME NEW q \in Present
            PROVE  /\ Before(q, next) => status'[q] = "COMPLETED"
                   /\ Before(next, q) => status'[q] = "PENDING"
        <5>1. q \in Phases /\ ~Before(next, next) BY <1>4, <4>6, Indexes DEF Before
        <5>2. Before(q, next) => status'[q] = "COMPLETED"
          BY <4>2, <4>6, <5>1
        <5>3. ASSUME Before(next, q), st[q] = "COMPLETED" PROVE FALSE
          <6>1. ~Before(p, q)
            <7>1. q # p => status[q] = "COMPLETED" BY <1>5, <5>1, <5>3
            <7> QED BY <1>4, <2>1, <2>3, <7>1, <1>1, Indexes DEF Before
          <6>2. Before(p, next) BY <3>1, <4>1
          <6> QED BY <1>4, <4>1, <5>3, <6>1, <6>2, <1>1, Indexes DEF Before
        <5> QED BY <3>1, <4>6, <5>1, <5>2, <5>3
      <4>9. next \in InProgress' BY <4>6 DEF InProgress
      <4>10. ~all BY <4>1
      <4> QED BY <1>1, <1>8, <1>10, <1>12, <4>7, <4>8, <4>9, <4>10 DEF InOrder
    <3> QED BY <3>2, <3>3
  <2>4. CASE x # p
    <3>1. status[p] = "COMPLETED" BY <1>1, <1>3, <2>1, <2>2, <2>4, Around
    <3>2. st = status BY <1>4, <3>1 DEF st, PhaseStates
    <3>3. ~Advances(next, st)
      <4>1. SUFFICES ASSUME Advances(next, st) PROVE FALSE OBVIOUS
      <4>2. next \in Present /\ status[next] = "PENDING"
        BY <1>2, <3>2, <4>1 DEF Advances, First
      <4>3. Before(x, next) BY <2>1, <2>2, <4>2, Around
      <4> QED BY <2>2, <3>2, <4>1, <4>3 DEF Advances
    <3>4. status' = status BY <1>2, <3>2, <3>3
    <3>5. ~all BY <2>2, <3>2
    <3>6. timeline'.status = timeline.status /\ Present' = Present
          /\ x \in InProgress'
      BY <1>1, <1>7, <2>1, <3>2, <3>4, <3>5 DEF InProgress
    <3> QED BY <1>8, <1>10, <1>12, <2>1, <3>4, <3>6 DEF InOrder
  <2> QED BY <2>3, <2>4
<1> QED BY <1>11, <1>12

LEMMA PinnedType ==
  ASSUME IInv, NEW p \in Phases, NEW end
  PROVE  /\ Pinned(p, end) \in DateTables
         /\ \A q \in Phases : q # p => Pinned(p, end)[q] = dates[q]
         /\ Pinned(p, end) = dates \/ Pinned(p, end)[p].datesPinned
<1>1. dates \in DateTables /\ now \in Nat BY DatesTyped DEF IInv, TypeOK
<1>2. [dates[p] EXCEPT !.endDate = now, !.datesPinned = TRUE] \in PhaseDates
  BY <1>1 DEF DateTables, PhaseDates
<1>3. \/ Pinned(p, end) = dates
      \/ Pinned(p, end) = [dates EXCEPT ![p] =
                             [dates[p] EXCEPT !.endDate = now, !.datesPinned = TRUE]]
  BY <1>1 DEF Pinned, DateTables, PhaseDates
<1>4. [dates[p] EXCEPT !.endDate = now, !.datesPinned = TRUE].datesPinned
  BY <1>1 DEF DateTables, PhaseDates
<1> QED BY <1>1, <1>2, <1>3, <1>4 DEF DateTables

LEMMA CompleteWriteInv ==
  ASSUME IInv, NEW w \in Workers, CompleteWrite(w)
  PROVE  IInv'
<1> DEFINE j == job[w]
           p == j.phase
           st == [status EXCEPT ![p] = "COMPLETED"]
           pending == {q \in Present : st[q] = "PENDING"}
           all == \A q \in Present : st[q] = "COMPLETED"
<1>1. /\ j.op = "complete" /\ p \in Present /\ Done(w)
      /\ timeline' = [status |-> IF all THEN "COMPLETED" ELSE timeline.status,
                      locked |-> timeline.locked \/ Locks(j, all)]
      /\ shifted' = (shifted \/ (status[p] = "COMPLETED"
                                 /\ Pinned(p, plan[w].dates[p].endDate) # dates))
      /\ UNCHANGED <<orderIndex, schedule, edited>>
  BY DEF CompleteWrite
<1>2. PICK next \in IF pending = {} THEN {None} ELSE First(pending) :
        IF Advances(next, st) THEN status' = [st EXCEPT ![next] = "IN_PROGRESS"]
        ELSE status' = st
  BY DEF CompleteWrite
<1>3. j \in Jobs /\ j.locked \in BOOLEAN /\ j.locks \in BOOLEAN
  BY <1>1, JobFields DEF IInv, TypeOK
<1>4. Advances(next, st) => next \in Present
  BY <1>2 DEF Advances, First
<1>5. status' \in PhaseStates /\ Present' = Present
  BY <1>1, <1>2, <1>4 DEF IInv, TypeOK, PhaseStates, PhaseStatuses, Present
<1>6. timeline' \in TimelineStates
      /\ (timeline'.status = "COMPLETED" => all \/ timeline.status = "COMPLETED")
  BY <1>1 DEF IInv, TypeOK, TimelineStates
<1>7. /\ TypeOK' /\ Clock' /\ Plans' /\ UpToDate'
      /\ late' = IF w \in overtaken THEN late \cup {j.op} ELSE late
  <2>1. shifted' \in BOOLEAN /\ j.op \in Ops BY <1>1 DEF Ops
  <2>2. Pinned(p, plan[w].dates[p].endDate) \in DateTables
    BY <1>1, PinnedType DEF Present
  <2>3. \/ dates' = Pinned(p, plan[w].dates[p].endDate)
        \/ /\ plan[w].startDate # None
           /\ \E s \in Ordered : \E S :
                dates' = Set(Pinned(p, plan[w].dates[p].endDate),
                             Only(Recalculated(Pinned(p, plan[w].dates[p].endDate), s,
                                               plan[w].startDate), S))
    BY DEF CompleteWrite
  <2>4. plan[w].startDate # None => plan[w].startDate \in Nat
    BY <1>1 DEF IInv, Plans, Carries
  <2>5. dates' \in DateTables BY <2>2, <2>3, <2>4, RewrittenType
  <2> QED BY <1>1, <1>5, <1>6, <2>1, <2>5, WriteShape DEF IInv, TypeOK, Schedules
<1>8. j # NoJob BY <1>1 DEF NoJob
<1>9. CompletedIsLocked'
  <2>1. SUFFICES ASSUME late' \cap {"complete", "unlock"} = {},
                        timeline'.status = "COMPLETED"
        PROVE  timeline'.locked
    BY DEF CompletedIsLocked
  <2>2. w \notin overtaken /\ late' = late BY <1>1, <1>7, <2>1
  <2>3. j.locked => timeline.locked
    BY <1>1, <1>8, <2>2 DEF IInv, UpToDate, Decided
  <2>4. timeline.status = "COMPLETED" => timeline.locked
    BY <2>1, <2>2 DEF IInv, CompletedIsLocked
  <2>5. timeline'.locked = (timeline.locked \/ Locks(j, all)) BY <1>1
  <2> QED BY <1>3, <1>6, <2>1, <2>3, <2>4, <2>5 DEF Locks
<1>10. Distinct' BY <1>1, <1>5, <1>7, DistinctStays
<1>11. Frontier'
  <2>1. SUFFICES ASSUME Undisturbed' PROVE InOrder' BY DEF Frontier
  <2>2. edited => edited' BY <1>1
  <2>3. Undisturbed /\ Decided(j) BY <1>1, <1>7, <1>8, <2>1, <2>2, UndisturbedBefore
  <2> QED BY <2>3, CompleteInOrder
<1> QED BY <1>7, <1>9, <1>10, <1>11 DEF IInv

LEMMA ReopenInOrder ==
  ASSUME IInv, Undisturbed, NEW w \in Workers, Decided(job[w]), ReopenWrite(w)
  PROVE  InOrder'
<1> DEFINE i == job[w].index
           affected == {p \in Present : orderIndex[p] >= i}
<1>1. /\ job[w].op = "reopen"
      /\ timeline' = [timeline EXCEPT !.status = IF @ = "COMPLETED" THEN "ACTIVE" ELSE @]
      /\ orderIndex' = orderIndex
      /\ \/ affected = {}
         \/ \E p \in First(affected) :
              status' = [q \in Phases |-> IF q = p THEN "IN_PROGRESS"
                                          ELSE IF q \in affected THEN "PENDING"
                                          ELSE status[q]]
  BY DEF ReopenWrite
<1>2. timeline.status = "ACTIVE" BY <1>1 DEF Decided
<1>3. PICK c \in Present : status[c] = "COMPLETED" /\ orderIndex[c] = i
  BY <1>1 DEF Decided
<1>4. c \in Phases /\ i \in Nat /\ Present \subseteq Phases
  BY <1>3, Indexes DEF Present
<1>5. c \in affected BY <1>3, <1>4
<1>6. PICK p \in First(affected) :
        status' = [q \in Phases |-> IF q = p THEN "IN_PROGRESS"
                                    ELSE IF q \in affected THEN "PENDING"
                                    ELSE status[q]]
  BY <1>1, <1>5
<1>7. p \in affected /\ p \in Present /\ \A q \in affected : orderIndex[p] <= orderIndex[q]
  BY <1>6 DEF First
<1>8. InOrder BY Indexes
<1>9. PICK x \in InProgress : \A q \in Present :
        /\ Before(q, x) => status[q] = "COMPLETED"
        /\ Before(x, q) => status[q] = "PENDING"
  BY <1>2, <1>3, <1>8 DEF InOrder
<1>10. x \in Present /\ status[x] = "IN_PROGRESS"
  BY <1>9 DEF InProgress, Present, PhaseStatuses
<1>11. Before(c, x) BY <1>3, <1>9, <1>10, Around
<1>12. Present' = Present BY <1>4, <1>6, <1>7 DEF Present, PhaseStatuses
<1>13. timeline'.status = "ACTIVE" BY <1>1, <1>2 DEF IInv, TypeOK
<1>14. ASSUME NEW q \in Present
       PROVE  /\ Before(q, p) => status'[q] = "COMPLETED"
              /\ Before(p, q) => status'[q] = "PENDING"
  <2>1. q \in Phases /\ p \in Phases /\ x \in Phases BY <1>4, <1>7, <1>10
  <2>2. /\ orderIndex[q] \in Nat /\ orderIndex[p] \in Nat
        /\ orderIndex[x] \in Nat /\ orderIndex[c] \in Nat
    BY <1>4, <2>1, Indexes
  <2>3. ASSUME Before(q, p) PROVE q \notin affected
    BY <1>7, <2>2, <2>3 DEF Before
  <2>4. ASSUME Before(q, p) PROVE status[q] = "COMPLETED"
    <3>1. orderIndex[q] < i BY <1>4, <2>2, <2>3, <2>4
    <3>2. Before(q, x) BY <1>3, <1>11, <2>2, <3>1 DEF Before
    <3> QED BY <1>9, <3>2
  <2>5. ASSUME Before(p, q) PROVE q \in affected /\ q # p
    BY <1>4, <1>7, <2>2, <2>5 DEF Before
  <2>6. Before(q, p) => q # p BY <2>2 DEF Before
  <2> QED BY <1>6, <2>1, <2>3, <2>4, <2>5, <2>6
<1>15. p \in InProgress' BY <1>4, <1>6, <1>7 DEF InProgress
<1>16. \A q, r : Before(q, r)' <=> Before(q, r) BY <1>1 DEF Before
<1> QED BY <1>12, <1>13, <1>14, <1>15, <1>16 DEF InOrder

LEMMA ReopenWriteInv ==
  ASSUME IInv, NEW w \in Workers, ReopenWrite(w)
  PROVE  IInv'
<1> DEFINE j == job[w]
           affected == {p \in Present : orderIndex[p] >= j.index}
<1>1. /\ j.op = "reopen" /\ Done(w)
      /\ timeline' = [timeline EXCEPT !.status = IF @ = "COMPLETED" THEN "ACTIVE" ELSE @]
      /\ \/ status' = status
         \/ \E p \in First(affected) :
              status' = [q \in Phases |-> IF q = p THEN "IN_PROGRESS"
                                          ELSE IF q \in affected THEN "PENDING"
                                          ELSE status[q]]
      /\ UNCHANGED <<orderIndex, schedule, dates, edited, shifted>>
  BY DEF ReopenWrite
<1>2. status' \in PhaseStates /\ Present' = Present
  <2>1. CASE status' = status
    BY <2>1 DEF IInv, TypeOK, PhaseStates, Present
  <2>2. CASE status' # status
    <3>1. PICK p \in First(affected) :
            status' = [q \in Phases |-> IF q = p THEN "IN_PROGRESS"
                                        ELSE IF q \in affected THEN "PENDING"
                                        ELSE status[q]]
      BY <1>1, <2>2
    <3>2. p \in Present /\ affected \subseteq Present BY <3>1 DEF First
    <3> HIDE DEF affected
    <3> QED BY <3>1, <3>2 DEF IInv, TypeOK, PhaseStates, PhaseStatuses, Present
  <2> QED BY <2>1, <2>2
<1>3. /\ timeline' \in TimelineStates /\ timeline'.status # "COMPLETED"
  BY <1>1 DEF IInv, TypeOK, TimelineStates
<1>4. /\ TypeOK' /\ Clock' /\ Plans' /\ UpToDate'
      /\ late' = IF w \in overtaken THEN late \cup {j.op} ELSE late
  <2>1. j.op \in Ops BY <1>1 DEF Ops
  <2> QED BY <1>1, <1>2, <1>3, <2>1, DatesTyped, WriteShape DEF IInv, TypeOK, Schedules
<1>5. CompletedIsLocked' BY <1>3 DEF CompletedIsLocked
<1>6. Distinct' BY <1>1, <1>2, <1>4, DistinctStays
<1>7. Frontier'
  <2>1. SUFFICES ASSUME Undisturbed' PROVE InOrder' BY DEF Frontier
  <2>2. j # NoJob /\ j.op \notin {"unlock", "update", "redate"} /\ (edited => edited')
    BY <1>1 DEF NoJob
  <2>3. Undisturbed /\ Decided(j) BY <1>4, <2>1, <2>2, UndisturbedBefore
  <2> QED BY <2>3, ReopenInOrder
<1> QED BY <1>4, <1>5, <1>6, <1>7 DEF IInv

-----------------------------------------------------------------------------
(* Editing of phases *)

LEMMA AddPhaseInv ==
  ASSUME IInv, NEW p \in Phases, NEW index \in 0..Cardinality(Phases),
         NEW weeks \in Durations, AddPhase(p, index, weeks)
  PROVE  IInv'
<1>1. /\ status[p] = "none" /\ begun < MaxRequests /\ begun' = begun + 1
      /\ status' = [status EXCEPT ![p] = "PENDING"]
      /\ orderIndex' = [q \in Phases |->
                          IF q = p THEN index
                          ELSE IF q \in Present /\ orderIndex[q] >= index
                          THEN orderIndex[q] + 1 ELSE orderIndex[q]]
      /\ edited' = \/ edited
                   \/ timeline.status # "DRAFT" /\ InProgress = {}
                   \/ \E q \in Present : orderIndex[q] >= index /\ status[q] # "PENDING"
      /\ dates' = [dates EXCEPT ![p] = Undated(weeks)]
      /\ shifted' = (shifted \/ DatedFrom(index))
      /\ UNCHANGED <<timeline, schedule, now, job, plan, late>>
      /\ Overtake(None)
  BY DEF AddPhase
<1>2. index \in Nat BY FS_CardinalityType
<1>3. /\ overtaken' \subseteq Workers \ {None}
      /\ \A x \in overtaken' : job'[x] # NoJob
      /\ \A x \in Workers :
           x # None /\ job'[x] # NoJob /\ x \notin overtaken' => Decided(job[x])'
  BY <1>1, OthersStand DEF IInv
<1>4. TypeOK'
  <2>1. edited' \in BOOLEAN /\ shifted' \in BOOLEAN BY <1>1
  <2>2. orderIndex' \in [Phases -> Nat] BY <1>1, <1>2 DEF IInv, TypeOK
  <2>3. status' \in PhaseStates BY <1>1 DEF IInv, TypeOK, PhaseStates, PhaseStatuses
  <2>4. begun' \in 0..MaxRequests BY <1>1 DEF IInv, TypeOK
  <2>5. dates' \in DateTables
    BY <1>1, DatesTyped DEF DateTables, PhaseDates, Undated
  <2> QED BY <1>1, <1>3, <2>1, <2>2, <2>3, <2>4, <2>5
      DEF IInv, TypeOK, Idle, PhaseStates, DateTables, PhaseDates
<1>5. UpToDate' BY <1>1, <1>3 DEF UpToDate
<1>6. Plans' /\ Clock' BY <1>1 DEF IInv, Plans, Clock
<1>7. CompletedIsLocked' BY <1>1 DEF IInv, CompletedIsLocked
<1>8. p \notin Present /\ Present' = Present \cup {p} /\ Present \subseteq Phases
  BY <1>1 DEF IInv, TypeOK, Present, PhaseStatuses
<1>9. /\ orderIndex'[p] = index
      /\ \A q \in Present : /\ q # p /\ orderIndex[q] \in Nat
                            /\ orderIndex'[q] = IF orderIndex[q] >= index
                                                THEN orderIndex[q] + 1
                                                ELSE orderIndex[q]
  BY <1>1, <1>8 DEF IInv, TypeOK
<1>10. Distinct'
  <2>1. SUFFICES ASSUME "remove" \notin late, NEW q \in Present', NEW r \in Present',
                        q # r
        PROVE  orderIndex'[q] # orderIndex'[r]
    BY <1>1 DEF Distinct
  <2>2. CASE q # p /\ r # p
    <3>1. orderIndex[q] # orderIndex[r] BY <1>8, <2>1, <2>2 DEF IInv, Distinct
    <3> QED BY <1>2, <1>8, <1>9, <2>2, <3>1
  <2>3. CASE q = p \/ r = p BY <1>2, <1>8, <1>9, <2>1, <2>3
  <2> QED BY <2>2, <2>3
<1>11. Frontier'
  <2>1. SUFFICES ASSUME Undisturbed' PROVE InOrder' BY DEF Frontier
  <2>2. /\ Undisturbed /\ InOrder
        /\ timeline.status # "DRAFT" => InProgress # {}
        /\ \A q \in Present : orderIndex[q] >= index => status[q] = "PENDING"
    <3>1. Undisturbed BY <1>1, <2>1 DEF Undisturbed
    <3> QED BY <1>1, <2>1, <3>1, Indexes DEF Undisturbed
  <2>3. status'[p] = "PENDING" /\ \A q \in Present : status'[q] = status[q]
    BY <1>1, <1>8 DEF IInv, TypeOK
  <2>4. CASE timeline.status = "DRAFT"
    BY <1>1, <1>8, <2>2, <2>3, <2>4 DEF InOrder
  <2>5. CASE timeline.status = "COMPLETED"
    BY <2>2, <2>5 DEF InOrder, InProgress, Present, PhaseStatuses
  <2>6. CASE timeline.status \in {"ACTIVE", "PAUSED"}
    <3>1. Present # {} BY <2>2, <2>6 DEF InProgress, Present, PhaseStatuses
    <3>2. PICK x \in InProgress : \A q \in Present :
            /\ Before(q, x) => status[q] = "COMPLETED"
            /\ Before(x, q) => status[q] = "PENDING"
      BY <2>2, <2>6, <3>1 DEF InOrder
    <3>3. x \in Present /\ status[x] = "IN_PROGRESS"
      BY <3>2 DEF InProgress, Present, PhaseStatuses
    <3>4. ~(orderIndex[x] >= index) BY <2>2, <3>3
    <3>5. orderIndex'[x] = orderIndex[x] /\ orderIndex[x] \in Nat /\ orderIndex[x] < index
      BY <1>2, <1>9, <3>3, <3>4
    <3>6. ASSUME NEW q \in Present'
          PROVE  /\ Before(q, x)' => status'[q] = "COMPLETED"
                 /\ Before(x, q)' => status'[q] = "PENDING"
      <4>1. CASE q = p
        BY <1>2, <1>9, <2>3, <3>5, <4>1 DEF Before
      <4>2. CASE q # p
        <5>1. q \in Present BY <1>8, <4>2
        <5>2. orderIndex[q] \in Nat
              /\ orderIndex'[q] = IF orderIndex[q] >= index THEN orderIndex[q] + 1
                                  ELSE orderIndex[q]
          BY <1>9, <5>1
        <5>3. (Before(q, x)' => Before(q, x)) /\ (Before(x, q)' => Before(x, q))
          BY <1>2, <3>5, <5>2 DEF Before
        <5> QED BY <2>3, <3>2, <5>1, <5>3
      <4> QED BY <4>1, <4>2
    <3>7. x \in InProgress' BY <2>3, <3>2, <3>3 DEF InProgress
    <3> QED BY <1>1, <2>6, <3>6, <3>7 DEF InOrder
  <2> QED BY <2>4, <2>5, <2>6 DEF IInv, TypeOK
<1> QED BY <1>4, <1>5, <1>6, <1>7, <1>10, <1>11 DEF IInv

LEMMA RemoveWriteInv ==
  ASSUME IInv, NEW w \in Workers, RemoveWrite(w)
  PROVE  IInv'
<1> DEFINE j == job[w]
           p == j.phase
<1>1. /\ j.op = "remove" /\ p \in Present /\ j.phases \subseteq Present /\ Done(w)
      /\ status' = [status EXCEPT ![p] = "gone"]
      /\ orderIndex' = [q \in Phases |-> IF q \in j.phases THEN j.index[q]
                                         ELSE orderIndex[q]]
      /\ edited' = (edited \/ status[p] = "IN_PROGRESS")
      /\ shifted' = (shifted \/ DatedFrom(orderIndex[p]))
      /\ UNCHANGED <<timeline, schedule, dates>>
  BY DEF RemoveWrite
<1>2. p \in Phases /\ j.index \in [Phases -> Nat] /\ j.phases \in SUBSET Phases
  BY <1>1, JobFields DEF IInv, TypeOK
<1>3. /\ TypeOK' /\ Clock' /\ Plans' /\ UpToDate'
      /\ late' = IF w \in overtaken THEN late \cup {j.op} ELSE late
  <2>1. edited' \in BOOLEAN /\ shifted' \in BOOLEAN /\ j.op \in Ops BY <1>1 DEF Ops
  <2>2. orderIndex' \in [Phases -> Nat] BY <1>1, <1>2 DEF IInv, TypeOK
  <2>3. status' \in PhaseStates BY <1>1 DEF IInv, TypeOK, PhaseStates
  <2> QED BY <1>1, <2>1, <2>2, <2>3, DatesTyped, WriteShape
      DEF IInv, TypeOK, TimelineStates, Schedules
<1>4. CompletedIsLocked' BY <1>1, <1>3 DEF IInv, CompletedIsLocked
<1>5. /\ Present' = Present \ {p} /\ Present \subseteq Phases
      /\ \A q \in Present : q # p => status'[q] = status[q]
  BY <1>1, <1>2 DEF IInv, TypeOK, Present, PhaseStatuses
<1>6. j # NoJob BY <1>1 DEF NoJob
<1>7. ASSUME w \notin overtaken, NEW q \in Present', NEW r \in Present'
      PROVE  /\ Before(q, r) => Before(q, r)'
             /\ q # r => orderIndex'[q] # orderIndex'[r]
  <2>1. Decided(j) BY <1>6, <1>7 DEF IInv, UpToDate
  <2>2. /\ q \notin j.phases => j.index[q] = orderIndex[q]
        /\ r \notin j.phases => j.index[r] = orderIndex[r]
        /\ Before(q, r) => j.index[q] < j.index[r]
        /\ q # r => j.index[q] # j.index[r]
    BY <1>1, <1>5, <1>7, <2>1 DEF Decided
  <2>3. orderIndex'[q] = j.index[q] /\ orderIndex'[r] = j.index[r]
    BY <1>1, <1>5, <1>7, <2>2
  <2> QED BY <2>2, <2>3 DEF Before
<1>8. Distinct'
  <2>1. SUFFICES ASSUME "remove" \notin late', NEW q \in Present', NEW r \in Present',
                        q # r
        PROVE  orderIndex'[q] # orderIndex'[r]
    BY DEF Distinct
  <2> QED BY <1>1, <1>3, <1>7, <2>1
<1>9. Frontier'
  <2>1. SUFFICES ASSUME Undisturbed' PROVE InOrder' BY DEF Frontier
  <2>2. edited => edited' BY <1>1
  <2>3. Undisturbed /\ w \notin overtaken
    BY <1>1, <1>3, <2>1, <2>2, UndisturbedBefore
  <2>4. InOrder BY <2>3, Indexes
  <2>5. status[p] # "IN_PROGRESS" BY <1>1, <2>1 DEF Undisturbed
  <2>6. CASE timeline.status \in {"DRAFT", "COMPLETED"}
    BY <1>1, <1>5, <2>4, <2>6 DEF InOrder
  <2>7. CASE timeline.status \in {"ACTIVE", "PAUSED"}
    <3>1. PICK x \in InProgress : \A q \in Present :
            /\ Before(q, x) => status[q] = "COMPLETED"
            /\ Before(x, q) => status[q] = "PENDING"
      BY <1>1, <2>4, <2>7 DEF InOrder
    <3>2. x \in Present /\ x # p /\ status[x] = "IN_PROGRESS"
      BY <2>5, <3>1 DEF InProgress, Present, PhaseStatuses
    <3>3. x \in Present' /\ x \in InProgress'
      BY <1>5, <3>1, <3>2 DEF InProgress
    <3>4. ASSUME NEW q \in Present'
          PROVE  /\ Before(q, x)' => status'[q] = "COMPLETED"
                 /\ Before(x, q)' => status'[q] = "PENDING"
      <4>1. q \in Present /\ q # p BY <1>5, <3>4
      <4>2. orderIndex'[q] \in Nat /\ orderIndex'[x] \in Nat
        BY <1>3, <1>5, <3>2, <4>1 DEF TypeOK
      <4>3. CASE q = x BY <4>2, <4>3 DEF Before
      <4>4. CASE q # x
        <5>1. Before(q, x) \/ Before(x, q) BY <2>3, <3>2, <4>1, <4>4, Around DEF IInv
        <5>2. /\ Before(q, x) => Before(q, x)'
              /\ Before(x, q) => Before(x, q)'
          BY <1>7, <2>3, <3>3, <3>4
        <5>3. ~(Before(q, x)' /\ Before(x, q)') BY <4>2 DEF Before
        <5> QED BY <1>5, <3>1, <4>1, <5>1, <5>2, <5>3
      <4> QED BY <4>3, <4>4
    <3> QED BY <1>1, <2>7, <3>3, <3>4 DEF InOrder
  <2> QED BY <2>6, <2>7 DEF IInv, TypeOK
<1> QED BY <1>3, <1>4, <1>8, <1>9 DEF IInv

-----------------------------------------------------------------------------
(* The invariant *)

LEMMA WriteInv ==
  ASSUME IInv, NEW w \in Workers, Write(w)
  PROVE  IInv'
BY ActivateWriteInv, PauseWriteInv, ResumeWriteInv, UnlockWriteInv, ResetWriteInv,
   CompleteWriteInv, ReopenWriteInv, UpdateWriteInv, RefreshReadInv,
   RefreshWriteInv, RefreshEndInv, RemoveWriteInv
   DEF Write

LEMMA AbandonInv ==
  ASSUME IInv, NEW w \in Workers, Abandon(w)
  PROVE  IInv'
<1>1. /\ job' = [job EXCEPT ![w] = NoJob] /\ plan' = [plan EXCEPT ![w] = NoPlan]
      /\ overtaken' = overtaken \ {w}
      /\ shifted' = (shifted \/ job[w].op \in {"refresh", "redate"})
      /\ UNCHANGED <<timeline, status, orderIndex, schedule, dates, now, begun, late,
                     edited>>
  BY DEF Abandon, rows
<1>2. /\ job' \in [Workers -> Jobs] /\ job'[w] = NoJob
      /\ \A x \in Workers : x # w => job'[x] = job[x]
  BY <1>1, NoJobIsJob DEF IInv, TypeOK
<1>3. shifted' \in BOOLEAN BY <1>1
<1>4. TypeOK' BY <1>1, <1>2, <1>3 DEF IInv, TypeOK, Idle
<1>5. Plans' BY <1>1, PlansStay, NoJobIsJob
<1>6. UpToDate'
  <2>1. \A k : Decided(k)' <=> Decided(k)
    BY <1>1 DEF Decided, Present, First, Before, PriorCompleted
  <2> QED BY <1>1, <1>2, <2>1 DEF IInv, UpToDate
<1>7. Clock' /\ Distinct' /\ Frontier' /\ CompletedIsLocked'
  BY <1>1 DEF IInv, Clock, Distinct, Frontier, InOrder, CompletedIsLocked, Undisturbed,
     Present, InProgress, Before
<1> QED BY <1>4, <1>5, <1>6, <1>7 DEF IInv

\* Time, and steps that change nothing.
LEMMA IdleInv ==
  ASSUME IInv, now' \in 0..MaxTime, now' >= now,
         UNCHANGED <<rows, job, plan, begun, overtaken, late, edited, shifted>>
  PROVE  IInv'
<1>1. UNCHANGED <<timeline, status, orderIndex, schedule, dates>> BY DEF rows
<1>2. TypeOK' BY <1>1 DEF IInv, TypeOK, Idle
<1>3. Plans' /\ Clock' BY <1>1 DEF IInv, TypeOK, Plans, Clock
<1>4. UpToDate'
  <2>1. \A k : Decided(k)' <=> Decided(k)
    BY <1>1 DEF Decided, Present, First, Before, PriorCompleted
  <2> QED BY <2>1 DEF IInv, UpToDate
<1>5. Distinct' /\ Frontier' /\ CompletedIsLocked'
  BY <1>1 DEF IInv, Distinct, Frontier, InOrder, CompletedIsLocked, Undisturbed,
     Present, InProgress, Before
<1> QED BY <1>2, <1>3, <1>4, <1>5 DEF IInv

LEMMA InitInv == Init => IInv
<1> SUFFICES ASSUME Init PROVE IInv OBVIOUS
<1> DEFINE Start(n, s, weeks) ==
             /\ \A i, j \in 1..n : i # j => s[i] # s[j]
             /\ timeline = [status |-> "DRAFT", locked |-> FALSE]
             /\ status = [p \in Phases |-> IF \E i \in 1..n : s[i] = p THEN "PENDING"
                                           ELSE "none"]
             /\ orderIndex = [p \in Phases |->
                                IF \E i \in 1..n : s[i] = p
                                THEN (CHOOSE i \in 1..n : s[i] = p) - 1 ELSE 0]
             /\ schedule = [startDate |-> None, pausedAt |-> None]
             /\ dates = [p \in Phases |-> Undated(weeks[p])]
             /\ now = 0
             /\ job = [w \in Workers |-> NoJob]
             /\ plan = [w \in Workers |-> NoPlan]
             /\ begun = 0 /\ overtaken = {}
             /\ late = {} /\ edited = FALSE /\ shifted = FALSE
<1>0. PICK n \in 1..Cardinality(Phases) :
        \E s \in [1..n -> Phases] : \E weeks \in [Phases -> Durations] : Start(n, s, weeks)
  BY DEF Init
<1>a. PICK s \in [1..n -> Phases] : \E weeks \in [Phases -> Durations] : Start(n, s, weeks)
  BY <1>0
<1>1. PICK weeks \in [Phases -> Durations] : Start(n, s, weeks) BY <1>a
<1>2. n \in Nat BY FS_CardinalityType
<1>3. ASSUME NEW p \in Phases, NEW i \in 1..n, s[i] = p
      PROVE  orderIndex[p] = i - 1
  <2>1. \A k \in 1..n : s[k] = p => k = i BY <1>1, <1>3
  <2>2. (CHOOSE k \in 1..n : s[k] = p) = i BY <1>3, <2>1
  <2> QED BY <1>1, <1>3, <2>2
<1>4. ASSUME NEW p \in Phases PROVE orderIndex[p] \in Nat
  <2>1. CASE \E i \in 1..n : s[i] = p
    <3>1. PICK i \in 1..n : s[i] = p BY <2>1
    <3> QED BY <1>2, <1>3, <3>1
  <2>2. CASE ~\E i \in 1..n : s[i] = p BY <1>1, <2>2
  <2> QED BY <2>1, <2>2
<1>5. ASSUME NEW p \in Present
      PROVE  p \in Phases /\ status[p] = "PENDING" /\ \E i \in 1..n : s[i] = p
  BY <1>1 DEF Present, PhaseStatuses
<1>6. TypeOK
  <2>1. orderIndex \in [Phases -> Nat] BY <1>1, <1>4
  <2>2. job \in [Workers -> Jobs] BY <1>1, NoJobIsJob
  <2>3. status \in PhaseStates BY <1>1 DEF PhaseStates, PhaseStatuses
  <2>4. /\ timeline = [status |-> "DRAFT", locked |-> FALSE]
        /\ schedule = [startDate |-> None, pausedAt |-> None]
        /\ now = 0 /\ begun = 0
        /\ overtaken = {} /\ late = {} /\ edited = FALSE /\ shifted = FALSE
    BY <1>1
  <2>6. dates \in DateTables
    <3>1. dates = [p \in Phases |-> Undated(weeks[p])] BY <1>1
    <3> HIDE DEF Start
    <3> QED BY <3>1 DEF DateTables, PhaseDates, Undated
  <2> HIDE DEF Start
  <2>5. now \in 0..MaxTime /\ begun \in 0..MaxRequests BY <2>4
  <2> QED BY <2>1, <2>2, <2>3, <2>4, <2>5, <2>6
      DEF TypeOK, PhaseStates, DateTables, PhaseDates
<1>7. Plans /\ Clock BY <1>1, NoJobIsJob DEF Plans, Clock
<1>8. UpToDate BY <1>1 DEF UpToDate
<1>9. Distinct
  <2>1. SUFFICES ASSUME NEW p \in Present, NEW q \in Present, p # q
        PROVE  orderIndex[p] # orderIndex[q]
    BY DEF Distinct
  <2>2. PICK i \in 1..n : s[i] = p BY <1>5
  <2>3. PICK k \in 1..n : s[k] = q BY <1>5
  <2>4. orderIndex[p] = i - 1 /\ orderIndex[q] = k - 1 /\ i # k
    BY <1>3, <1>5, <2>1, <2>2, <2>3
  <2> QED BY <1>2, <2>4
<1>10. Frontier BY <1>1, <1>5 DEF Frontier, InOrder
<1>11. CompletedIsLocked BY <1>1 DEF CompletedIsLocked
<1> QED BY <1>6, <1>7, <1>8, <1>9, <1>10, <1>11 DEF IInv

LEMMA NextInv == IInv /\ [Next]_vars => IInv'
<1> SUFFICES ASSUME IInv, [Next]_vars PROVE IInv' OBVIOUS
<1>1. CASE \E w \in Workers : Read(w) \/ Write(w) \/ Abandon(w)
  BY <1>1, ReadInv, WriteInv, AbandonInv
<1>2. CASE \E p \in Phases, index \in 0..Cardinality(Phases), weeks \in Durations :
             AddPhase(p, index, weeks)
  BY <1>2, AddPhaseInv
<1>3. CASE Tick
  <2>1. now' \in 0..MaxTime /\ now' >= now BY <1>3 DEF Tick, IInv, TypeOK
  <2> QED BY <1>3, <2>1, IdleInv DEF Tick
<1>4. CASE UNCHANGED vars
  <2>1. now' \in 0..MaxTime /\ now' >= now BY <1>4 DEF vars, IInv, TypeOK
  <2> QED BY <1>4, <2>1, IdleInv DEF vars
<1> QED BY <1>1, <1>2, <1>3, <1>4 DEF Next

LEMMA AlwaysIInv == Spec => []IInv
BY InitInv, NextInv, PTL DEF Spec

\* The state of the timeline, of its phases and of the requests in flight is
\* well typed.
THEOREM TypeCorrect == Spec => []TypeOK
<1>1. IInv => TypeOK BY DEF IInv
<1> QED BY <1>1, AlwaysIInv, PTL

\* One phase is in progress, between the completed and the pending ones, for
\* any number of phases and of requests at once: completePhase looks at the
\* phases again before it starts the next one.
THEOREM FrontierHolds == Spec => []Frontier
<1>1. IInv => Frontier BY DEF IInv
<1> QED BY <1>1, AlwaysIInv, PTL

\* Whoever completes the last phase locks the timeline, unless an unlocking
\* raced with a completion.
THEOREM CompletedStaysLocked == Spec => []CompletedIsLocked
<1>1. IInv => CompletedIsLocked BY DEF IInv
<1> QED BY <1>1, AlwaysIInv, PTL

-----------------------------------------------------------------------------
(* The lock *)

Reverts(p) == /\ timeline.locked /\ timeline.status # "DRAFT"
              /\ status[p] = "COMPLETED" /\ status'[p] \in {"PENDING", "IN_PROGRESS"}

Excused(w) == /\ job[w] # NoJob /\ job'[w] = NoJob
              /\ w \in overtaken \/ job[w].op = "reset"

\* Only an activation, a reset, a completion or a reopening reverts a phase.
LEMMA WriteReverts ==
  ASSUME IInv, NEW w \in Workers, Write(w), NEW p \in Phases, Reverts(p)
  PROVE  Excused(w)
<1>1. status' # status BY DEF Reverts
<1>2. Decided(job[w]) \/ w \in overtaken \/ job[w] = NoJob BY DEF IInv, UpToDate
<1>3. job \in [Workers -> Jobs] BY DEF IInv, TypeOK
<1>4. CASE ActivateWrite(w)
  <2>1. job[w].op = "activate" /\ job' = [job EXCEPT ![w] = NoJob]
    BY <1>4 DEF ActivateWrite, Done
  <2>2. job[w] # NoJob /\ ~Decided(job[w]) BY <2>1 DEF NoJob, Decided, Reverts
  <2> QED BY <1>2, <1>3, <2>1, <2>2 DEF Excused
<1>5. CASE ResetWrite(w)
  <2>1. job[w].op = "reset" /\ job' = [job EXCEPT ![w] = NoJob]
    BY <1>5 DEF ResetWrite
  <2>2. job[w] # NoJob BY <2>1 DEF NoJob
  <2> QED BY <1>3, <2>1, <2>2 DEF Excused
<1>6. CASE ReopenWrite(w)
  <2>1. job[w].op = "reopen" /\ job' = [job EXCEPT ![w] = NoJob]
    BY <1>6 DEF ReopenWrite, Done
  <2>2. job[w] # NoJob /\ ~Decided(job[w]) BY <2>1 DEF NoJob, Decided, Reverts
  <2> QED BY <1>2, <1>3, <2>1, <2>2 DEF Excused
<1>7. CASE CompleteWrite(w)
  <2> DEFINE st == [status EXCEPT ![job[w].phase] = "COMPLETED"]
             pending == {q \in Present : st[q] = "PENDING"}
  <2>1. PICK next \in IF pending = {} THEN {None} ELSE First(pending) :
          IF Advances(next, st) THEN status' = [st EXCEPT ![next] = "IN_PROGRESS"]
          ELSE status' = st
    BY <1>7 DEF CompleteWrite
  <2>2. status \in PhaseStates /\ st[p] = "COMPLETED"
    BY DEF IInv, TypeOK, PhaseStates, Reverts
  <2>3. status'[p] # "COMPLETED" BY DEF Reverts
  <2>4. Advances(next, st) /\ next = p
    BY <2>1, <2>2, <2>3 DEF PhaseStates
  <2>5. next \in pending BY <2>1, <2>4 DEF Advances, First
  <2> QED BY <2>2, <2>4, <2>5
<1>8. CASE RemoveWrite(w)
  <2>1. status' = [status EXCEPT ![job[w].phase] = "gone"] BY <1>8 DEF RemoveWrite
  <2>2. status'[p] = status[p] \/ status'[p] = "gone"
    BY <2>1 DEF IInv, TypeOK
  <2> QED BY <2>2 DEF Reverts
<1> QED BY <1>1, <1>4, <1>5, <1>6, <1>7, <1>8
    DEF Write, PauseWrite, ResumeWrite, UnlockWrite, UpdateWrite, RefreshRead, RefreshWrite,
        RefreshEnd, rows

LEMMA LockStep ==
  ASSUME IInv, [Next]_vars, NEW p \in Phases, Reverts(p)
  PROVE  \E w \in Workers : Excused(w)
<1>1. status' # status BY DEF Reverts
<1>2. CASE \E w \in Workers : Write(w) BY <1>2, WriteReverts
<1>3. ASSUME NEW w \in Workers, Read(w) PROVE FALSE
  BY <1>1, <1>3
  DEF Read, ActivateRead, PauseRead, ResumeRead, UnlockRead, ResetRead, CompleteRead,
      ReopenRead, RemoveRead, UpdateRead, Note, rows
<1>4. ASSUME NEW q \in Phases, NEW index \in 0..Cardinality(Phases),
             NEW weeks \in Durations, AddPhase(q, index, weeks)
      PROVE  FALSE
  <2>1. status[q] = "none" /\ status' = [status EXCEPT ![q] = "PENDING"]
    BY <1>4 DEF AddPhase
  <2> QED BY <2>1 DEF Reverts, IInv, TypeOK
<1> QED BY <1>1, <1>2, <1>3, <1>4 DEF Next, Abandon, Tick, vars, rows

\* What is completed stays so while the timeline is locked, but for a reset or
\* a request that was overtaken: a metric that falls reopens nothing, and no
\* completion undoes another.
THEOREM LockAlwaysHolds == Spec => LockHolds
<1>1. IInv /\ [Next]_vars =>
        [\A p \in Phases :
           /\ timeline.locked /\ timeline.status # "DRAFT"
           /\ status[p] = "COMPLETED" /\ status'[p] \in {"PENDING", "IN_PROGRESS"}
           => \E w \in Workers : /\ job[w] # NoJob /\ job'[w] = NoJob
                                 /\ w \in overtaken \/ job[w].op = "reset"]_vars
  BY LockStep DEF Reverts, Excused
<1> QED BY <1>1, AlwaysIInv, PTL DEF Spec, LockHolds

-----------------------------------------------------------------------------
(* Part 2: the dates *)

Separate == \A p, q \in Present : p # q => orderIndex[p] # orderIndex[q]
Adjacent(p, q) == Before(p, q) /\ ~\E x \in Present : Before(p, x) /\ Before(x, q)

\* r dates the phases of D one after the other, from start on.
Chain(d, r, D, start) ==
  \A q \in D :
    \/ (\A p \in Present : ~Before(p, q)) /\ r[q] = Scheduled(d[q], start)
    \/ \E p \in Present : Adjacent(p, q) /\ r[q] = Scheduled(d[q], r[p].endDate)

Closed(D) == \A q \in D, p \in Present : Before(p, q) => p \in D

\* The recalculation makes a chain.
LEMMA RecalculatedChain ==
  ASSUME orderIndex \in [Phases -> Nat], Separate,
         NEW d, NEW start, NEW s \in Ordered
  PROVE  Chain(d, Recalculated(d, s, start), Present, start)
<1> DEFINE n == Cardinality(Present)
           r == Recalculated(d, s, start)
<1>1. /\ s \in [1..n -> Present] /\ DOMAIN s = 1..n
      /\ \A p \in Present : \E i \in 1..n : s[i] = p
      /\ \A i, k \in 1..n : i < k => orderIndex[s[i]] <= orderIndex[s[k]]
  BY DEF Ordered
<1>2. n \in Nat /\ \A p \in Present : orderIndex[p] \in Nat BY PresentFinite
<1>3. \A i, k \in 1..n : s[i] = s[k] => i = k
  <2>1. IsFiniteSet(1..n) /\ Cardinality(1..n) = n
    <3> HIDE DEF n
    <3> QED BY <1>2, FS_Interval
  <2>2. s \in Surjection(1..n, Present) BY <1>1 DEF Surjection
  <2>3. s \in Injection(1..n, Present) BY <2>1, <2>2, FS_Surjection
  <2> QED BY <2>3 DEF Injection, IsInjective
<1>4. PICK g : IsRun(g, d, s, start, n) /\ r = ByPhase(g, s)
  BY <1>1, PresentFinite, RecalculatedRun
<1>5. ASSUME NEW i \in 1..n PROVE r[s[i]] = g[i]
  <2>1. (CHOOSE k \in DOMAIN s : s[k] = s[i]) = i BY <1>1, <1>3
  <2>2. s[i] \in {s[k] : k \in DOMAIN s} BY <1>1
  <2> HIDE DEF r
  <2> QED BY <1>4, <2>1, <2>2 DEF ByPhase
<1>6. \A i \in 1..n : g[i] = Scheduled(d[s[i]], Following(g, i, start))
  BY <1>4 DEF IsRun
<1> HIDE DEF n, r
<1>7. ASSUME NEW q \in Present
      PROVE  \/ (\A p \in Present : ~Before(p, q)) /\ r[q] = Scheduled(d[q], start)
             \/ \E p \in Present : Adjacent(p, q) /\ r[q] = Scheduled(d[q], r[p].endDate)
  <2>1. PICK i \in 1..n : s[i] = q BY <1>1
  <2>2. r[q] = Scheduled(d[q], Following(g, i, start)) BY <1>5, <1>6, <2>1
  <2>3. CASE i = 1
    <3>1. ASSUME NEW p \in Present PROVE ~Before(p, q)
      <4>1. PICK k \in 1..n : s[k] = p BY <1>1
      <4>2. k = 1 \/ 1 < k BY <1>2, <4>1
      <4> QED BY <1>1, <1>2, <2>1, <2>3, <4>1, <4>2 DEF Before
    <3> QED BY <2>2, <2>3, <3>1 DEF Following
  <2>4. CASE i # 1
    <3>1. i - 1 \in 1..n /\ i - 1 < i BY <1>2, <2>4
    <3> DEFINE p == s[i-1]
    <3>2. p \in Present /\ p # q BY <1>1, <1>3, <2>1, <3>1
    <3>3. Before(p, q) BY <1>1, <1>2, <2>1, <3>1, <3>2 DEF Before, Separate
    <3>4. ASSUME NEW x \in Present, Before(p, x), Before(x, q) PROVE FALSE
      <4>1. PICK k \in 1..n : s[k] = x BY <1>1
      <4>2. ~(k < i - 1) /\ k # i - 1
        BY <1>1, <1>2, <3>1, <3>2, <3>4, <4>1 DEF Before
      <4>3. ~(i < k) /\ i # k BY <1>1, <1>2, <2>1, <3>4, <4>1 DEF Before
      <4> QED BY <1>2, <4>2, <4>3
    <3>5. Adjacent(p, q) BY <3>3, <3>4 DEF Adjacent
    <3>6. r[q] = Scheduled(d[q], r[p].endDate)
      BY <1>5, <2>2, <2>4, <3>1 DEF Following
    <3> QED BY <3>2, <3>5, <3>6
  <2> QED BY <2>3, <2>4
<1> QED BY <1>7 DEF Chain, r

\* Two chains of the same dates agree.
LEMMA ChainsAgree ==
  ASSUME orderIndex \in [Phases -> Nat], Separate,
         NEW d, NEW start, NEW D \in SUBSET Present, Closed(D), NEW r, NEW t,
         Chain(d, r, D, start), Chain(d, t, Present, start)
  PROVE  \A q \in D : r[q] = t[q]
<1> DEFINE Differ == {q \in D : r[q] # t[q]}
           T == {orderIndex[q] : q \in Differ}
<1>1. SUFFICES ASSUME Differ # {} PROVE FALSE OBVIOUS
<1>2. \A q \in Present : orderIndex[q] \in Nat BY PresentFinite
<1>3. T \in SUBSET Nat /\ T # {} BY <1>1, <1>2
<1>4. PICK m \in T : \A k \in T : m <= k
  <2> HIDE DEF T
  <2> QED BY <1>3, Least
<1>5. PICK q \in Differ : orderIndex[q] = m BY <1>4
<1>6. \A p \in D : Before(p, q) => r[p] = t[p]
  BY <1>2, <1>4, <1>5 DEF Before
<1>7. CASE \A p \in Present : ~Before(p, q)
  BY <1>5, <1>7 DEF Chain, Adjacent
<1>8. CASE \E p \in Present : Before(p, q)
  <2>1. PICK a \in Present : Adjacent(a, q) /\ r[q] = Scheduled(d[q], r[a].endDate)
    BY <1>5, <1>8 DEF Chain
  <2>2. PICK b \in Present : Adjacent(b, q) /\ t[q] = Scheduled(d[q], t[b].endDate)
    BY <1>5, <1>8 DEF Chain
  <2>3. a = b BY <1>2, <2>1, <2>2 DEF Adjacent, Before, Separate
  <2>4. a \in D /\ Before(a, q) BY <1>5, <2>1 DEF Adjacent, Closed
  <2> QED BY <1>5, <1>6, <2>1, <2>2, <2>3, <2>4
<1> QED BY <1>7, <1>8

\* Dates that were rewritten give the same chain again.
LEMMA Rescheduled ==
  ASSUME NEW d \in PhaseDates, NEW e \in PhaseDates, NEW from \in Nat,
         e.datesPinned = d.datesPinned, e.durationWeeks = d.durationWeeks,
         \/ e = d
         \/ /\ e.startDate = Scheduled(d, from).startDate
            /\ e.endDate = Scheduled(d, from).endDate
  PROVE  Scheduled(e, from) = Scheduled(d, from)
<1>1. CASE e = d BY <1>1
<1>2. CASE e # d
  <2>1. CASE Anchored(d)
    <3>1. Scheduled(d, from) = [startDate |-> d.startDate, endDate |-> d.endDate]
      BY <2>1 DEF Scheduled
    <3>2. Anchored(e) BY <1>2, <2>1, <3>1 DEF Anchored
    <3> QED BY <1>2, <3>1, <3>2 DEF Scheduled
  <2>2. CASE ~Anchored(d)
    <3>1. Scheduled(d, from) = [startDate |-> from, endDate |-> from + d.durationWeeks]
      BY <2>2 DEF Scheduled
    <3> QED BY <1>2, <3>1 DEF Scheduled
  <2> QED BY <2>1, <2>2
<1> QED BY <1>1, <1>2

-----------------------------------------------------------------------------
(* The invariant of the dates *)

\* The phases that follow the one before them.
Dated == {q \in Present : ~dates[q].datesPinned /\ dates[q].startDate # None}
SpanOf(x) == [startDate |-> x.startDate, endDate |-> x.endDate]

\* There are dates, in a chain from the start of the timeline on, that the
\* phases of S have as far as they are dated; pinned ones anchor it.
Chained(S) ==
  \E D \in SUBSET Present : \E r \in [D -> Span] :
    /\ Closed(D) /\ Chain(dates, r, D, schedule.startDate)
    /\ \A q \in Dated \cap S : q \in D /\ r[q] = SpanOf(dates[q])

Clear == late = {} /\ ~edited /\ ~shifted /\ timeline.status # "DRAFT"
Refreshing == {w \in Workers : job[w].op \in {"refresh", "redate"}}

\* What the refresh after an update of p leaves.
Fixed(p) == {q \in Phases : ~Before(p, q) \/ status[q] = "COMPLETED"}

\* What stays chained until the refresh j, with the dates x, is done: what it is
\* not to write.
Kept(j, x) ==
  \/ j.op = "refresh" /\ Chained(Fixed(j.phase))
  \/ j.op = "redate" /\ Chained(Phases \ DOMAIN x.dates)

\* The dates x are those of the chain that the dates give as they are now.
Follows(x) ==
  \E t \in [Present -> Span] :
    /\ Chain(dates, t, Present, schedule.startDate)
    /\ \A q \in DOMAIN x.dates \cap Present : x.dates[q] = t[q]

\* What request j read of the dates, as long as it is not overtaken.
Based(j, x) ==
  /\ j.op = "activate" => \E s \in Ordered : x.dates = Recalculated(dates, s, x.startDate)
  /\ j.op \in {"complete", "update"} => x.startDate = schedule.startDate
  /\ j.op = "refresh" /\ Clear => x.startDate = schedule.startDate
  /\ j.op = "redate" /\ Clear => Follows(x)
  /\ j.op = "update" =>
       /\ x.edit.startDate # None =>
            x.edit.endDate # None /\ x.edit.datesPinned = TRUE
       /\ x.edit.endDate # None /\ x.edit.datesPinned # TRUE =>
            /\ dates[j.phase].startDate # None
            /\ x.edit.endDate = dates[j.phase].startDate
                                + Given(dates[j.phase].durationWeeks, x.edit.durationWeeks)

Informed ==
  \A w \in Workers : job[w] # NoJob /\ w \notin overtaken => Based(job[w], plan[w])

\* Dates are chained, or will be once an update has refreshed them; a refresh
\* that is overtaken ends the claim, whether it writes or not.
Linked ==
  \/ Refreshing \cap overtaken # {}
  \/ Chained(Phases)
  \/ \E w \in Refreshing \ overtaken : Kept(job[w], plan[w])

InChain == Clear => schedule.startDate \in Nat /\ Linked

DInv == Informed /\ InChain

LEMMA ClearPhases ==
  ASSUME IInv, Clear \/ (late = {} /\ ~edited)
  PROVE  /\ Undisturbed /\ Separate /\ InOrder
         /\ orderIndex \in [Phases -> Nat]
         /\ \A q \in Present : orderIndex[q] \in Nat
         /\ \A p, q \in Present : p # q => Before(p, q) \/ Before(q, p)
<1>1. Undisturbed BY DEF Clear, Undisturbed
<1>2. orderIndex \in [Phases -> Nat] BY DEF IInv, TypeOK
<1>3. \A q \in Present : orderIndex[q] \in Nat BY <1>2, PresentFinite
<1> QED BY <1>1, <1>2, <1>3, Indexes, Around DEF Separate

LEMMA ChainSame ==
  ASSUME UNCHANGED <<status, orderIndex, dates>>
  PROVE  \A t, D, start : Chain(dates, t, D, start) => Chain(dates, t, D, start)'
<1>1. Present' = Present BY DEF Present
<1>2. \A p, q : Before(p, q)' <=> Before(p, q) BY DEF Before
<1> QED BY <1>1, <1>2 DEF Chain, Adjacent

LEMMA ChainedSame ==
  ASSUME UNCHANGED <<status, orderIndex, dates>>,
         schedule'.startDate = schedule.startDate
  PROVE  /\ Chained(Phases) => Chained(Phases)'
         /\ \A k, x : Kept(k, x) => Kept(k, x)'
         /\ \A S : Chained(S) => Chained(S)'
<1>1. Present' = Present BY DEF Present
<1>2. \A p, q : Before(p, q)' <=> Before(p, q) BY DEF Before
<1>3. ASSUME NEW D, NEW r
      PROVE  /\ Closed(D)' <=> Closed(D)
             /\ Chain(dates, r, D, schedule.startDate)'
                  <=> Chain(dates, r, D, schedule.startDate)
  BY <1>1, <1>2 DEF Closed, Chain, Adjacent
<1>4. Dated' = Dated BY <1>1 DEF Dated
<1>5. \A p : Fixed(p)' = Fixed(p) BY <1>2 DEF Fixed
<1>6. \A S : Chained(S) => Chained(S)' BY <1>1, <1>3, <1>4 DEF Chained
<1>7. \A p : Chained(Fixed(p)) => Chained(Fixed(p))' BY <1>5, <1>6
<1> QED BY <1>6, <1>7 DEF Kept

\* How dates come to be chained.
LEMMA ChainedBy ==
  ASSUME NEW D \in SUBSET Present', NEW r \in [D -> Span], Closed(D)',
         Chain(dates, r, D, schedule.startDate)',
         NEW S, \A q \in Dated' \cap S : q \in D /\ r[q] = SpanOf(dates'[q])
  PROVE  Chained(S)'
BY DEF Chained, Chain

\* A recalculation chains the dates, if what it does not write agrees with it.
LEMMA RewriteChains ==
  ASSUME orderIndex \in [Phases -> Nat], Separate,
         NEW d \in DateTables, NEW s \in Ordered, NEW start \in Nat, NEW X,
         dates' = Set(d, Only(Recalculated(d, s, start), X)),
         Present' = Present, orderIndex' = orderIndex, schedule'.startDate = start,
         \A q \in Present \ X : ~d[q].datesPinned /\ d[q].startDate # None =>
           Recalculated(d, s, start)[q] = SpanOf(d[q])
  PROVE  Chained(Phases)'
<1> DEFINE r == Recalculated(d, s, start)
<1>1. r \in [Present -> Span] /\ Chain(d, r, Present, start)
  BY RecalculatedSpans, RecalculatedChain
<1> HIDE DEF r
<1>2. Spans(Only(r, X)) /\ DOMAIN Only(r, X) = Present \cap X
      /\ \A q \in Present \cap X : Only(r, X)[q] = r[q]
  <2>1. Spans(r) /\ DOMAIN r = Present BY <1>1 DEF Spans
  <2> QED BY <2>1, OnlySpans
<1>3. dates' \in DateTables BY <1>2, SetDates DEF r
<1>4. ASSUME NEW q \in Present
      PROVE  /\ dates'[q] \in PhaseDates /\ d[q] \in PhaseDates /\ r[q] \in Span
             /\ dates'[q].datesPinned = d[q].datesPinned
             /\ dates'[q].durationWeeks = d[q].durationWeeks
             /\ q \notin X => dates'[q] = d[q]
             /\ q \in X => /\ dates'[q].startDate = r[q].startDate
                           /\ dates'[q].endDate = r[q].endDate
  <2>1. q \in Phases BY PresentFinite
  <2> QED BY <1>1, <1>2, <1>3, <2>1, SetDates DEF DateTables, r
<1>5. ASSUME NEW q \in Present, NEW from \in Nat, r[q] = Scheduled(d[q], from)
      PROVE  r[q] = Scheduled(dates'[q], from)
  BY <1>4, <1>5, Rescheduled
<1>6. \A p, q : Adjacent(p, q)' <=> Adjacent(p, q) BY DEF Adjacent, Before
<1>7. \A p, q : Before(p, q)' <=> Before(p, q) BY DEF Before
<1>8. Chain(dates, r, Present, schedule.startDate)'
  <2>1. SUFFICES ASSUME NEW q \in Present
        PROVE  \/ (\A p \in Present : ~Before(p, q)) /\ r[q] = Scheduled(dates'[q], start)
               \/ \E p \in Present : Adjacent(p, q)
                                     /\ r[q] = Scheduled(dates'[q], r[p].endDate)
    BY <1>6, <1>7 DEF Chain
  <2>2. \A p \in Present : r[p].endDate \in Nat BY <1>1 DEF Span
  <2> QED BY <1>1, <1>5, <2>2 DEF Chain
<1>9. \A q \in Dated' : q \in Present /\ r[q] = SpanOf(dates'[q])
  <2>1. SUFFICES ASSUME NEW q \in Present, ~dates'[q].datesPinned,
                        dates'[q].startDate # None
        PROVE  r[q] = SpanOf(dates'[q])
    BY DEF Dated
  <2>2. CASE q \in X BY <1>4, <2>2 DEF SpanOf, Span
  <2>3. CASE q \notin X BY <1>4, <2>1, <2>3 DEF r
  <2> QED BY <2>2, <2>3
<1>10. Closed(Present)' BY DEF Closed
<1> QED BY <1>1, <1>8, <1>9, <1>10, ChainedBy

-----------------------------------------------------------------------------
(* What requests read of the dates *)

LEMMA BasedSame ==
  ASSUME rows' = rows, Clear' => Clear
  PROVE  \A j, x : Based(j, x) => Based(j, x)'
<1>1. /\ status' = status /\ orderIndex' = orderIndex /\ schedule' = schedule
      /\ dates' = dates
  BY DEF rows
<1>2. Ordered' = Ordered BY <1>1 DEF Ordered, Present
<1> SUFFICES ASSUME NEW j, NEW x, Based(j, x) PROVE Based(j, x)' OBVIOUS
<1>3. ASSUME NEW s PROVE Recalculated(dates, s, x.startDate)'
                           = Recalculated(dates, s, x.startDate)
  BY <1>1 DEF Recalculated
<1>4. Present' = Present /\ \A p, q : /\ Before(p, q)' <=> Before(p, q)
                                      /\ Adjacent(p, q)' <=> Adjacent(p, q)
  BY <1>1 DEF Present, Before, Adjacent
<1>5. ASSUME NEW t PROVE Chain(dates, t, Present, schedule.startDate)'
                           <=> Chain(dates, t, Present, schedule.startDate)
  BY <1>1, <1>4 DEF Chain
<1>6. Follows(x) => Follows(x)' BY <1>4, <1>5 DEF Follows
<1> QED BY <1>1, <1>2, <1>3, <1>6 DEF Based

LEMMA OthersBased ==
  ASSUME IInv, Informed, NEW w, Overtake(w) \/ OvertakeOthers(w),
         \A x \in Workers : x # w => job'[x] = job[x] /\ plan'[x] = plan[x],
         Clear' => Clear \/ rows' # rows
  PROVE  \A x \in Workers :
           x # w /\ job'[x] # NoJob /\ x \notin overtaken' => Based(job[x], plan[x])'
<1> SUFFICES ASSUME NEW x \in Workers, x # w, job'[x] # NoJob, x \notin overtaken'
             PROVE  Based(job[x], plan[x])'
  OBVIOUS
<1>1. job'[x] = job[x] /\ plan'[x] = plan[x] /\ job[x] # NoJob OBVIOUS
<1>2. x \notin overtaken /\ ~Overtakes(x)
  BY <1>1 DEF Overtake, OvertakeOthers, Idle
<1>3. Based(job[x], plan[x]) BY <1>1, <1>2 DEF Informed
<1>4. CASE job[x].op = "complete"
  <2>1. schedule'.startDate = schedule.startDate BY <1>2, <1>4 DEF Overtakes
  <2> QED BY <1>1, <1>3, <1>4, <2>1 DEF Based
<1>5. CASE job[x].op \in {"pause", "unlock"} BY <1>1, <1>5 DEF Based
<1>6. CASE job[x].op \notin {"complete", "pause", "unlock"}
  <2>1. rows' = rows BY <1>2, <1>6 DEF Overtakes
  <2>2. \A j, k : Based(j, k) => Based(j, k)' BY <2>1, BasedSame
  <2> QED BY <1>1, <1>3, <2>2
<1> QED BY <1>4, <1>5, <1>6

\* A step of w that keeps the dates chained, unless a refresh is under way.
LEMMA LinkStays ==
  ASSUME IInv, Linked, NEW w, Overtake(w), w \notin Refreshing,
         \A x \in Workers : x # w => job'[x] = job[x] /\ plan'[x] = plan[x],
         Chained(Phases) => Linked'
  PROVE  Linked'
<1>1. overtaken' = {x \in Workers \ {w} :
                      ~Idle(x) /\ (x \in overtaken \/ Overtakes(x))}
  BY DEF Overtake
<1>2. \A y \in Refreshing : y \in Workers /\ y # w /\ y \in Refreshing'
                            /\ job'[y] = job[y] /\ plan'[y] = plan[y] /\ ~Idle(y)
                            /\ job[y].op \in {"refresh", "redate"}
  BY NoJobIsJob DEF Refreshing, Idle
<1>3. CASE \E y \in Refreshing : y \in overtaken \/ rows' # rows
  <2>1. PICK y \in Refreshing : y \in overtaken \/ rows' # rows BY <1>3
  <2>2. rows' # rows => Overtakes(y) BY <1>2 DEF Overtakes
  <2>3. y \in overtaken' BY <1>1, <1>2, <2>1, <2>2
  <2> QED BY <1>2, <2>3 DEF Linked
<1>4. CASE Refreshing # {} /\ rows' = rows /\ Refreshing \cap overtaken = {}
  <2>1. CASE Chained(Phases) BY <2>1
  <2>2. CASE \E y \in Refreshing \ overtaken : Kept(job[y], plan[y])
    <3>1. PICK y \in Refreshing : Kept(job[y], plan[y]) BY <2>2
    <3>2. PICK k, x : k = job[y] /\ x = plan[y] OBVIOUS
    <3>3. UNCHANGED <<status, orderIndex, dates, schedule>> BY <1>4 DEF rows
    <3>4. Kept(k, x)' BY <3>1, <3>2, <3>3, ChainedSame
    <3>5. y \in Refreshing' /\ job'[y] = k /\ plan'[y] = x BY <1>2, <3>2
    <3> QED BY <3>4, <3>5 DEF Linked
  <2> QED BY <1>4, <2>1, <2>2 DEF Linked
<1>5. CASE Refreshing = {} BY <1>5 DEF Linked
<1> QED BY <1>3, <1>4, <1>5

\* A read.
LEMMA NoteDInv ==
  ASSUME IInv, DInv, NEW w \in Workers, NEW j \in Jobs, NEW d, Note(w, j, d),
         j.op \notin {"refresh", "redate"}, Based(j, d)
  PROVE  DInv'
<1>1. /\ job[w] = NoJob /\ job' = [job EXCEPT ![w] = j]
      /\ plan' = [plan EXCEPT ![w] = d]
      /\ rows' = rows /\ overtaken' = overtaken
      /\ UNCHANGED <<timeline, status, orderIndex, schedule, dates, late, edited, shifted>>
  BY DEF Note, Idle, rows
<1>2. /\ job'[w] = j /\ plan'[w] = d
      /\ \A x \in Workers : x # w => job'[x] = job[x] /\ plan'[x] = plan[x]
  BY <1>1 DEF IInv, TypeOK, Plans
<1>3. Clear' <=> Clear BY <1>1 DEF Clear
<1>4. \A k, x : Based(k, x) => Based(k, x)' BY <1>1, <1>3, BasedSame
<1>5. Informed'
  BY <1>1, <1>2, <1>4 DEF DInv, Informed
<1>6. Refreshing' = Refreshing BY <1>1, <1>2, NoJobIsJob DEF Refreshing
<1>7. /\ Chained(Phases) => Chained(Phases)'
      /\ \A k, x : Kept(k, x) => Kept(k, x)'
  BY <1>1, ChainedSame
<1>8. Linked => Linked'
  <2>1. ASSUME NEW y \in Refreshing \ overtaken, Kept(job[y], plan[y])
        PROVE  Linked'
    <3>1. PICK k, x : k = job[y] /\ x = plan[y] OBVIOUS
    <3>2. Kept(k, x)' BY <1>7, <2>1, <3>1
    <3>3. y \in Refreshing' \ overtaken' /\ job'[y] = k /\ plan'[y] = x
      BY <1>1, <1>2, <1>6, <2>1, <3>1, NoJobIsJob DEF Refreshing
    <3> QED BY <3>2, <3>3 DEF Linked
  <2> QED BY <1>1, <1>6, <1>7, <2>1 DEF Linked
<1> QED BY <1>1, <1>3, <1>5, <1>8 DEF DInv, InChain

LEMMA ReadDInv ==
  ASSUME IInv, DInv, NEW w \in Workers, Read(w)
  PROVE  DInv'
<1>1. CASE \E start \in 0..MaxTime : ActivateRead(w, start)
  <2>1. PICK start \in 0..MaxTime : ActivateRead(w, start) BY <1>1
  <2> DEFINE j == [op |-> "activate", phases |-> Present, first |-> First(Present)]
  <2>2. PICK s \in Ordered :
          Note(w, j, [startDate |-> start, dates |-> Recalculated(dates, s, start)])
    BY <2>1 DEF ActivateRead
  <2> DEFINE x == [startDate |-> start, dates |-> Recalculated(dates, s, start)]
  <2>3. Present \in SUBSET Phases /\ First(Present) \in SUBSET Phases
    BY DEF Present, First
  <2>4. j \in Jobs /\ j.op = "activate" BY <2>3 DEF Jobs
  <2>5. Based(j, x) BY <2>4 DEF Based
  <2> HIDE DEF j, x
  <2> QED BY <2>2, <2>4, <2>5, NoteDInv DEF x
<1>2. CASE PauseRead(w) \/ ResumeRead(w) \/ UnlockRead(w) \/ ResetRead(w)
  <2>1. PICK j, x : Note(w, j, x) /\ j \in Jobs
                    /\ j.op \in {"pause", "resume", "unlock", "reset"}
    <3>1. Moving \in SUBSET Phases /\ Present \in SUBSET Phases BY DEF Moving, Present
    <3>2. /\ [op |-> "pause"] \in Jobs /\ [op |-> "unlock"] \in Jobs
          /\ [op |-> "resume", phases |-> Moving] \in Jobs
          /\ [op |-> "reset", phases |-> Present] \in Jobs
      BY <3>1 DEF Jobs
    <3> QED BY <1>2, <3>2 DEF PauseRead, ResumeRead, UnlockRead, ResetRead
  <2>2. Based(j, x) BY <2>1 DEF Based
  <2> QED BY <2>1, <2>2, NoteDInv
<1>3. ASSUME NEW p \in Phases, NEW locks \in BOOLEAN, CompleteRead(w, p, locks)
      PROVE  DInv'
  <2> DEFINE j == [op |-> "complete", phase |-> p, index |-> orderIndex[p],
                   locks |-> locks, locked |-> timeline.locked]
  <2>1. PICK x : Note(w, j, x) /\ x.startDate = schedule.startDate
    BY <1>3 DEF CompleteRead
  <2>2. orderIndex[p] \in Nat /\ timeline.locked \in BOOLEAN BY DEF IInv, TypeOK
  <2>3. j \in Jobs /\ Based(j, x) BY <2>1, <2>2 DEF Jobs, Based
  <2> QED BY <2>1, <2>3, NoteDInv
<1>4. ASSUME NEW p \in Phases, ReopenRead(w, p) PROVE DInv'
  <2> DEFINE j == [op |-> "reopen", index |-> orderIndex[p]]
  <2>1. Note(w, j, NoPlan) BY <1>4 DEF ReopenRead
  <2>2. orderIndex[p] \in Nat BY DEF IInv, TypeOK
  <2>3. j \in Jobs /\ Based(j, NoPlan) BY <2>2 DEF Jobs, Based
  <2> QED BY <2>1, <2>3, NoteDInv
<1>5. ASSUME NEW p \in Phases, RemoveRead(w, p) PROVE DInv'
  <2>1. PICK j : Note(w, j, NoPlan) /\ j.op = "remove"
    BY <1>5 DEF RemoveRead
  <2>2. Based(j, NoPlan) BY <2>1 DEF Based
  <2>3. j \in Jobs
    <3>1. IInv' BY ReadInv
    <3>2. job'[w] = j BY <2>1 DEF Note, IInv, TypeOK
    <3> QED BY <3>1, <3>2 DEF IInv, TypeOK
  <2> QED BY <2>1, <2>2, <2>3, NoteDInv
<1>6. ASSUME NEW p \in Phases, NEW e \in Edits, UpdateRead(w, p, e) PROVE DInv'
  <2> DEFINE j == [op |-> "update", phase |-> p]
             x == [startDate |-> schedule.startDate, edit |-> Edited(p, e)]
  <2>1. Note(w, j, x) BY <1>6, UpdateReadShape
  <2>2. j \in Jobs /\ j.op = "update" /\ j.phase = p BY DEF Jobs
  <2>3. Based(j, x) BY <2>2, EditedType DEF Based
  <2> HIDE DEF j, x
  <2> QED BY <2>1, <2>2, <2>3, NoteDInv
<1> QED BY <1>1, <1>2, <1>3, <1>4, <1>5, <1>6 DEF Read

LEMMA AbandonDInv ==
  ASSUME IInv, DInv, NEW w \in Workers, Abandon(w)
  PROVE  DInv'
<1>1. /\ job' = [job EXCEPT ![w] = NoJob] /\ plan' = [plan EXCEPT ![w] = NoPlan]
      /\ overtaken' = overtaken \ {w} /\ rows' = rows
      /\ shifted' = (shifted \/ job[w].op \in {"refresh", "redate"})
      /\ UNCHANGED <<timeline, status, orderIndex, schedule, dates, late, edited>>
  BY DEF Abandon, rows
<1>2. /\ job'[w] = NoJob
      /\ \A x \in Workers : x # w => job'[x] = job[x] /\ plan'[x] = plan[x]
  BY <1>1 DEF IInv, TypeOK, Plans
<1>3. Clear' => Clear /\ w \notin Refreshing BY <1>1 DEF Clear, Refreshing
<1>4. \A k, x : Based(k, x) => Based(k, x)' BY <1>1, <1>3, BasedSame
<1>5. Informed' BY <1>1, <1>2, <1>4 DEF DInv, Informed
<1>6. w \notin Refreshing => Refreshing' = Refreshing
  BY <1>2, NoJobIsJob DEF Refreshing
<1>7. /\ Chained(Phases) => Chained(Phases)'
      /\ \A k, x : Kept(k, x) => Kept(k, x)'
  BY <1>1, ChainedSame
<1>8. ASSUME Linked, w \notin Refreshing PROVE Linked'
  <2>1. ASSUME NEW y \in Refreshing \ overtaken, Kept(job[y], plan[y])
        PROVE  Linked'
    <3>1. PICK k, x : k = job[y] /\ x = plan[y] OBVIOUS
    <3>2. Kept(k, x)' BY <1>7, <2>1, <3>1
    <3>3. y \in Refreshing' \ overtaken' /\ job'[y] = k /\ plan'[y] = x
      BY <1>1, <1>2, <1>6, <1>8, <2>1, <3>1 DEF Refreshing
    <3> QED BY <3>2, <3>3 DEF Linked
  <2>2. Refreshing \cap overtaken = Refreshing' \cap overtaken'
    BY <1>1, <1>6, <1>8
  <2> QED BY <1>7, <1>8, <2>1, <2>2 DEF Linked
<1> QED BY <1>1, <1>3, <1>5, <1>8 DEF DInv, InChain

LEMMA IdleDInv ==
  ASSUME IInv, DInv,
         UNCHANGED <<rows, job, plan, overtaken, late, edited, shifted>>
  PROVE  DInv'
<1>1. rows' = rows /\ UNCHANGED <<timeline, status, orderIndex, schedule, dates>>
  BY DEF rows
<1>2. Clear' <=> Clear BY <1>1 DEF Clear
<1>3. \A k, x : Based(k, x) => Based(k, x)' BY <1>1, <1>2, BasedSame
<1>4. Informed' BY <1>1, <1>3 DEF DInv, Informed
<1>5. Refreshing' = Refreshing BY DEF Refreshing
<1>6. /\ Chained(Phases) => Chained(Phases)'
      /\ \A k, x : Kept(k, x) => Kept(k, x)'
  BY <1>1, ChainedSame
<1>7. Linked => Linked' BY <1>5, <1>6 DEF Linked
<1> QED BY <1>1, <1>2, <1>4, <1>7 DEF DInv, InChain

-----------------------------------------------------------------------------
(* Writes of the dates *)

\* The claim holds after a write only if that was not overtaken.
LEMMA WriteClear ==
  ASSUME IInv, NEW w \in Workers, Clear', ~ResetWrite(w), job[w] # NoJob,
         late' = IF w \in overtaken THEN late \cup {job[w].op} ELSE late
  PROVE  late = {} /\ w \notin overtaken /\ Decided(job[w])
BY DEF Clear, IInv, UpToDate

\* A write, but for a refresh and an update that is to be followed by one.
LEMMA DoneDInv ==
  ASSUME IInv, DInv, NEW w \in Workers, Done(w), w \notin Refreshing,
         Clear' => Clear \/ rows' # rows,
         Clear' => schedule'.startDate \in Nat,
         Clear' => Chained(Phases)' \/ (Clear /\ (Chained(Phases) => Chained(Phases)'))
  PROVE  DInv'
<1>1. /\ job' = [job EXCEPT ![w] = NoJob] /\ plan' = [plan EXCEPT ![w] = NoPlan]
      /\ Overtake(w)
  BY DEF Done
<1>2. /\ job'[w] = NoJob
      /\ \A x \in Workers : x # w => job'[x] = job[x] /\ plan'[x] = plan[x]
  BY <1>1 DEF IInv, TypeOK, Plans
<1>3. Informed' BY <1>1, <1>2, OthersBased DEF DInv, Informed
<1>4. ASSUME Clear' PROVE Linked'
  <2>1. CASE Chained(Phases)' BY <2>1 DEF Linked
  <2>2. CASE Clear /\ (Chained(Phases) => Chained(Phases)')
    <3>1. Linked /\ (Chained(Phases) => Linked') BY <2>2 DEF DInv, InChain, Linked
    <3> QED BY <1>1, <1>2, <3>1, LinkStays
  <2> QED BY <1>4, <2>1, <2>2
<1> QED BY <1>3, <1>4 DEF DInv, InChain

LEMMA ActivateDInv ==
  ASSUME IInv, DInv, NEW w \in Workers, ActivateWrite(w)
  PROVE  DInv'
<1>1. /\ job[w].op = "activate" /\ Done(w)
      /\ dates' = Set(dates, plan[w].dates)
      /\ schedule'.startDate = plan[w].startDate
      /\ timeline'.status = "ACTIVE"
      /\ orderIndex' = orderIndex /\ edited' = edited
      /\ late' = IF w \in overtaken THEN late \cup {job[w].op} ELSE late
  BY DEF ActivateWrite, Done, IInv, TypeOK
<1>2. plan[w].startDate \in Nat BY <1>1 DEF IInv, Plans, Carries
<1>3. ASSUME Clear' PROVE rows' # rows /\ Chained(Phases)'
  <2>1. job[w] # NoJob /\ ~ResetWrite(w) BY <1>1 DEF NoJob, ResetWrite
  <2>2. late = {} /\ w \notin overtaken /\ Decided(job[w]) BY <1>1, <1>3, <2>1, WriteClear
  <2>3. timeline.status = "DRAFT" BY <1>1, <2>2 DEF Decided
  <2>4. rows' # rows BY <1>1, <2>3 DEF rows
  <2>5. ~edited BY <1>1, <1>3 DEF Clear
  <2>6. Separate /\ orderIndex \in [Phases -> Nat] BY <2>2, <2>5, ClearPhases
  <2>7. PICK s \in Ordered : plan[w].dates = Recalculated(dates, s, plan[w].startDate)
    BY <1>1, <2>1, <2>2 DEF DInv, Informed, Based
  <2> DEFINE start == plan[w].startDate
             r == Recalculated(dates, s, start)
  <2>8. r \in [Present -> Span] BY <1>2, DatesTyped, RecalculatedSpans
  <2>9. Only(r, Phases) = r
    <3> HIDE DEF r
    <3> QED BY <2>8, PresentFinite DEF Only
  <2>10. dates' = Set(dates, Only(r, Phases)) BY <1>1, <2>7, <2>9
  <2>11. Present' = Present
    BY <1>1, <2>1, <2>2 DEF ActivateWrite, Decided, Present, PhaseStatuses, First
  <2>12. \A q \in Present \ Phases : FALSE BY PresentFinite
  <2>13. \A q \in Present \ Phases :
           ~dates[q].datesPinned /\ dates[q].startDate # None => r[q] = SpanOf(dates[q])
    BY <2>12
  <2>14. Chained(Phases)'
    BY <1>1, <1>2, <2>6, <2>10, <2>11, <2>13, DatesTyped, RewriteChains
  <2> QED BY <2>4, <2>14
<1> QED BY <1>1, <1>2, <1>3, DoneDInv DEF Refreshing

\* A write that leaves the dates, the phases and the start of the timeline.
LEMMA DatesKept ==
  ASSUME IInv, DInv, NEW w \in Workers, Done(w), w \notin Refreshing,
         UNCHANGED <<orderIndex, edited>>, Present' = Present,
         schedule'.startDate = schedule.startDate,
         Clear' => dates' = dates /\ ~shifted /\ timeline.status # "DRAFT"
  PROVE  DInv'
<1>1. late' = IF w \in overtaken THEN late \cup {job[w].op} ELSE late BY DEF Done
<1>2. ASSUME Clear' PROVE Clear BY <1>1, <1>2 DEF Clear
<1>3. Clear' => schedule'.startDate \in Nat BY <1>2 DEF DInv, InChain
<1>4. ASSUME Clear', Chained(Phases) PROVE Chained(Phases)'
  <2>1. dates' = dates BY <1>4
  <2>2. PICK D \in SUBSET Present : \E r \in [D -> Span] :
          /\ Closed(D) /\ Chain(dates, r, D, schedule.startDate)
          /\ \A q \in Dated \cap Phases : q \in D /\ r[q] = SpanOf(dates[q])
    BY <1>4 DEF Chained
  <2>3. PICK r \in [D -> Span] :
          /\ Closed(D) /\ Chain(dates, r, D, schedule.startDate)
          /\ \A q \in Dated \cap Phases : q \in D /\ r[q] = SpanOf(dates[q])
    BY <2>2
  <2>4. Closed(D)' /\ Chain(dates, r, D, schedule.startDate)'
    BY <2>1, <2>3 DEF Closed, Chain, Adjacent, Before
  <2>5. Dated' = Dated BY <2>1 DEF Dated
  <2> QED BY <2>1, <2>3, <2>4, <2>5, ChainedBy
<1> QED BY <1>2, <1>3, <1>4, DoneDInv

LEMMA LifeDInv ==
  ASSUME IInv, DInv, NEW w \in Workers,
         \/ PauseWrite(w) \/ ResumeWrite(w) \/ UnlockWrite(w) \/ ReopenWrite(w)
  PROVE  DInv'
<1>1. /\ Done(w) /\ job[w].op \in {"pause", "resume", "unlock", "reopen"}
      /\ UNCHANGED <<orderIndex, edited>>
      /\ schedule'.startDate = schedule.startDate
      /\ dates' = dates \/ shifted'
      /\ shifted => shifted'
  BY DEF PauseWrite, ResumeWrite, UnlockWrite, ReopenWrite, IInv, TypeOK
<1>2. Present' = Present
  <2>1. CASE ReopenWrite(w)
    <3> DEFINE affected == {p \in Present : orderIndex[p] >= job[w].index}
    <3>1. \/ status' = status
          \/ \E p \in First(affected) :
               status' = [q \in Phases |-> IF q = p THEN "IN_PROGRESS"
                                           ELSE IF q \in affected THEN "PENDING"
                                           ELSE status[q]]
      BY <2>1 DEF ReopenWrite
    <3>2. First(affected) \subseteq affected /\ affected \subseteq Present BY DEF First
    <3> HIDE DEF affected
    <3> QED BY <3>1, <3>2 DEF Present, PhaseStatuses
  <2>2. CASE ~ReopenWrite(w)
    BY <2>2 DEF PauseWrite, ResumeWrite, UnlockWrite, Present
  <2> QED BY <2>1, <2>2
<1>3. ASSUME Clear' PROVE dates' = dates /\ ~shifted /\ timeline.status # "DRAFT"
  <2>1. dates' = dates /\ ~shifted BY <1>1, <1>3 DEF Clear
  <2>2. late' = IF w \in overtaken THEN late \cup {job[w].op} ELSE late BY <1>1 DEF Done
  <2>3. job[w] # NoJob /\ ~ResetWrite(w) BY <1>1 DEF NoJob, ResetWrite
  <2>4. Decided(job[w]) BY <1>3, <2>2, <2>3, WriteClear
  <2>5. CASE job[w].op = "unlock"
    <3>1. timeline'.status = timeline.status
      BY <1>1, <2>5 DEF PauseWrite, ResumeWrite, UnlockWrite, ReopenWrite, IInv, TypeOK
    <3> QED BY <1>3, <2>1, <3>1 DEF Clear
  <2> QED BY <1>1, <2>1, <2>4, <2>5 DEF Decided
<1> QED BY <1>1, <1>2, <1>3, DatesKept DEF Refreshing

LEMMA ResetDInv ==
  ASSUME IInv, DInv, NEW w \in Workers, ResetWrite(w)
  PROVE  DInv'
<1>1. /\ job' = [job EXCEPT ![w] = NoJob] /\ plan' = [plan EXCEPT ![w] = NoPlan]
      /\ Overtake(w) /\ timeline'.status = "DRAFT"
  BY DEF ResetWrite
<1>2. /\ job'[w] = NoJob
      /\ \A x \in Workers : x # w => job'[x] = job[x] /\ plan'[x] = plan[x]
  BY <1>1 DEF IInv, TypeOK, Plans
<1>3. ~Clear' BY <1>1 DEF Clear
<1>4. Informed' BY <1>1, <1>2, <1>3, OthersBased DEF DInv, Informed
<1> QED BY <1>3, <1>4 DEF DInv, InChain

\* The dates before a phase stay chained when only it and those after it change.
Part(r, E) == [q \in E |-> r[q]]

LEMMA BeforeStays ==
  ASSUME orderIndex \in [Phases -> Nat],
         NEW D \in SUBSET Present, NEW r \in [D -> Span],
         Closed(D), Chain(dates, r, D, schedule.startDate),
         NEW p \in Present, NEW E, E = {q \in D : Before(q, p)},
         NEW d, \A q \in E : d[q] = dates[q]
  PROVE  /\ E \in SUBSET Present /\ Closed(E)
         /\ Chain(d, r, E, schedule.startDate)
         /\ Part(r, E) \in [E -> Span] /\ \A q \in E : Part(r, E)[q] = r[q]
         /\ Chain(d, Part(r, E), E, schedule.startDate)
<1>1. \A q \in Present : orderIndex[q] \in Nat BY PresentFinite
<1>2. Closed(E)
  <2>1. SUFFICES ASSUME NEW q \in E, NEW x \in Present, Before(x, q) PROVE x \in E
    BY DEF Closed
  <2> QED BY <1>1, <2>1 DEF Closed, Before
<1>3. Chain(d, r, E, schedule.startDate) BY DEF Chain
<1> DEFINE t == Part(r, E)
<1>4. t \in [E -> Span] /\ \A q \in E : t[q] = r[q] BY DEF Part
<1> HIDE DEF t
<1>5. Chain(d, t, E, schedule.startDate)
  <2>1. SUFFICES ASSUME NEW q \in E
        PROVE  \/ (\A x \in Present : ~Before(x, q)) /\ t[q] = Scheduled(d[q], schedule.startDate)
               \/ \E x \in Present : Adjacent(x, q) /\ t[q] = Scheduled(d[q], t[x].endDate)
    BY DEF Chain
  <2>2. CASE (\A x \in Present : ~Before(x, q)) /\ r[q] = Scheduled(d[q], schedule.startDate)
    BY <1>4, <2>2
  <2>3. CASE \E x \in Present : Adjacent(x, q) /\ r[q] = Scheduled(d[q], r[x].endDate)
    <3>1. PICK x \in Present : Adjacent(x, q) /\ r[q] = Scheduled(d[q], r[x].endDate)
      BY <2>3
    <3>2. x \in E BY <1>2, <3>1 DEF Adjacent, Closed
    <3> QED BY <1>4, <3>1, <3>2
  <2> QED BY <1>3, <2>2, <2>3 DEF Chain
<1> QED BY <1>2, <1>3, <1>4, <1>5 DEF t

LEMMA ChainedMeans ==
  ASSUME NEW S, Chained(S)
  PROVE  \E D \in SUBSET Present : \E r \in [D -> Span] :
           /\ Closed(D) /\ Chain(dates, r, D, schedule.startDate)
           /\ \A q \in Dated \cap S : q \in D /\ r[q] = SpanOf(dates[q])
BY DEF Chained

\* The last phase in progress is followed by no other.
LEMMA NoneAfter ==
  ASSUME IInv, Undisturbed, NEW w \in Workers, Decided(job[w]), NEW p \in Present,
         job[w].op = "complete", job[w].phase = p, status[p] = "IN_PROGRESS",
         NEW st, st = [status EXCEPT ![p] = "COMPLETED"],
         NEW pending, pending = {q \in Present : st[q] = "PENDING"},
         NEW next \in IF pending = {} THEN {None} ELSE First(pending),
         ~Advances(next, st)
  PROVE  \A q \in Present : ~Before(p, q)
<1>1. \A q \in Present : orderIndex[q] \in Nat BY PresentFinite DEF IInv, TypeOK
<1>2. /\ p \in Phases /\ Present \subseteq Phases /\ st[p] = "COMPLETED"
      /\ \A q \in Present : q # p => st[q] = status[q]
  BY PresentFinite DEF IInv, TypeOK
<1>3. InOrder BY Indexes
<1>4. timeline.status \in {"ACTIVE", "PAUSED"} BY <1>3 DEF InOrder, IInv, TypeOK
<1>5. PICK x \in InProgress : \A q \in Present :
         /\ Before(q, x) => status[q] = "COMPLETED"
         /\ Before(x, q) => status[q] = "PENDING"
  BY <1>3, <1>4 DEF InOrder
<1>6. x \in Present BY <1>5 DEF InProgress, Present, PhaseStatuses
<1>7. x = p BY <1>5, <1>6, Around
<1>8. SUFFICES ASSUME NEW y \in Present, Before(p, y) PROVE FALSE OBVIOUS
<1>9. y \in pending BY <1>1, <1>2, <1>5, <1>7, <1>8 DEF Before
<1>10. next \in pending /\ \A q \in pending : orderIndex[next] <= orderIndex[q]
  BY <1>9 DEF First
<1>11. next # None BY <1>2, <1>10
<1>12. ASSUME NEW q \in Present, Before(q, next) PROVE st[q] = "COMPLETED"
  <2>1. CASE q = p BY <1>2, <2>1
  <2>2. CASE q # p /\ Before(q, p) BY <1>2, <1>5, <1>7, <2>2
  <2>3. CASE q # p /\ Before(p, q)
    <3>1. q \in pending BY <1>2, <1>5, <1>7, <2>3
    <3> QED BY <1>1, <1>10, <1>12, <3>1 DEF Before
  <2> QED BY <2>1, <2>2, <2>3, Around
<1> QED BY <1>11, <1>12 DEF Advances

LEMMA CompleteDInv ==
  ASSUME IInv, DInv, NEW w \in Workers, CompleteWrite(w)
  PROVE  DInv'
<1> DEFINE j == job[w]
           p == j.phase
           start == plan[w].startDate
           st == [status EXCEPT ![p] = "COMPLETED"]
           pending == {q \in Present : st[q] = "PENDING"}
           all == \A q \in Present : st[q] = "COMPLETED"
           d == Pinned(p, plan[w].dates[p].endDate)
           later == {q \in Phases : orderIndex[q] > j.index}
<1>1. /\ j.op = "complete" /\ p \in Present /\ Done(w)
      /\ timeline'.status = IF all THEN "COMPLETED" ELSE timeline.status
      /\ shifted' = (shifted \/ (status[p] = "COMPLETED" /\ d # dates))
      /\ UNCHANGED <<orderIndex, schedule, edited>>
  BY DEF CompleteWrite
<1>2. PICK next \in IF pending = {} THEN {None} ELSE First(pending) :
        IF Advances(next, st)
        THEN /\ status' = [st EXCEPT ![next] = "IN_PROGRESS"]
             /\ \E s \in Ordered :
                  dates' = IF start = None THEN d
                           ELSE Set(d, Only(Recalculated(d, s, start), later))
        ELSE status' = st /\ dates' = d
  BY DEF CompleteWrite
<1>3. Advances(next, st) => next \in Present BY <1>2 DEF Advances, First
<1>4. Present' = Present
  BY <1>1, <1>2, <1>3 DEF IInv, TypeOK, PhaseStatuses, Present
<1>5. late' = IF w \in overtaken THEN late \cup {j.op} ELSE late BY <1>1 DEF Done
<1>6. j # NoJob /\ ~ResetWrite(w) BY <1>1 DEF NoJob, ResetWrite
<1>7. ASSUME Clear'
      PROVE  Clear /\ w \notin overtaken /\ Decided(j)
  <2>1. late = {} /\ w \notin overtaken /\ Decided(j) BY <1>5, <1>6, <1>7, WriteClear
  <2>2. ~edited /\ ~shifted BY <1>1, <1>7 DEF Clear
  <2>3. status[p] \in {"IN_PROGRESS", "COMPLETED"} BY <1>1, <2>1 DEF Decided
  <2>4. timeline.status # "DRAFT"
    <3>1. InOrder BY <2>1, <2>2, ClearPhases
    <3> QED BY <1>1, <2>3, <3>1 DEF InOrder
  <2> QED BY <2>1, <2>2, <2>4 DEF Clear
<1>8. ASSUME Clear', Chained(Phases) PROVE Chained(Phases)'
  <2>1. Clear /\ Decided(j) /\ Based(j, plan[w])
    BY <1>6, <1>7, <1>8 DEF DInv, Informed
  <2>2. start = schedule.startDate /\ start \in Nat
    BY <1>1, <2>1 DEF Based, DInv, InChain
  <2>3. /\ Undisturbed /\ Separate /\ orderIndex \in [Phases -> Nat]
        /\ \A q \in Present : orderIndex[q] \in Nat
        /\ \A x, q \in Present : x # q => Before(x, q) \/ Before(q, x)
    BY <2>1, ClearPhases
  <2>4. j.index = orderIndex[p] /\ status[p] \in {"IN_PROGRESS", "COMPLETED"}
    BY <1>1, <2>1 DEF Decided
  <2>5. d = dates \/ status[p] = "IN_PROGRESS" BY <1>1, <1>8, <2>4 DEF Clear
  <2>6. /\ p \in Phases /\ d \in DateTables
        /\ \A q \in Phases : q # p => d[q] = dates[q]
        /\ d = dates \/ d[p].datesPinned
    <3>1. p \in Phases BY <1>1, PresentFinite
    <3> QED BY <3>1, PinnedType
  <2>7. PICK D \in SUBSET Present : \E r \in [D -> Span] :
          /\ Closed(D) /\ Chain(dates, r, D, schedule.startDate)
          /\ \A q \in Dated \cap Phases : q \in D /\ r[q] = SpanOf(dates[q])
    BY <1>8, ChainedMeans
  <2>8. PICK r \in [D -> Span] :
          /\ Closed(D) /\ Chain(dates, r, D, start)
          /\ \A q \in Dated : q \in D /\ r[q] = SpanOf(dates[q])
    BY <2>2, <2>7, PresentFinite DEF Dated
  <2> DEFINE E == {q \in D : Before(q, p)}
  <2> HIDE DEF d, start, st, pending, later, E, p
  <2>9. /\ E \in SUBSET Present /\ Closed(E) /\ Chain(d, r, E, start)
        /\ Part(r, E) \in [E -> Span] /\ \A q \in E : Part(r, E)[q] = r[q]
        /\ Chain(d, Part(r, E), E, start)
    <3>1. \A q \in E : d[q] = dates[q]
      BY <2>3, <2>6, PresentFinite DEF E, Before
    <3>2. E = {q \in D : Before(q, p)} BY DEF E
    <3>3. Closed(D) /\ Chain(dates, r, D, schedule.startDate) BY <2>2, <2>8
    <3>4. /\ E \in SUBSET Present /\ Closed(E) /\ Chain(d, r, E, schedule.startDate)
          /\ Part(r, E) \in [E -> Span] /\ \A q \in E : Part(r, E)[q] = r[q]
          /\ Chain(d, Part(r, E), E, schedule.startDate)
      BY <1>1, <2>3, <3>1, <3>2, <3>3, BeforeStays
    <3> QED BY <2>2, <3>4
  <2>10. CASE Advances(next, st)
    <3>1. PICK s \in Ordered : dates' = Set(d, Only(Recalculated(d, s, start), later))
      BY <1>2, <2>2, <2>10
    <3> DEFINE t == Recalculated(d, s, start)
    <3>2. Chain(d, t, Present, start) BY <2>3, RecalculatedChain
    <3> HIDE DEF t
    <3>3. ASSUME NEW q \in Present \ later, ~d[q].datesPinned, d[q].startDate # None
          PROVE  t[q] = SpanOf(d[q])
      <4>1. q \in Phases /\ (q = p \/ Before(q, p))
        BY <1>1, <2>3, <2>4, PresentFinite DEF later, Before
      <4>2. CASE d = dates
        <5>1. q \in Dated BY <3>3, <4>2 DEF Dated
        <5>2. r[q] = t[q] BY <2>3, <2>8, <3>2, <4>2, <5>1, ChainsAgree
        <5> QED BY <2>8, <4>2, <5>1, <5>2
      <4>3. CASE d # dates
        <5>1. q # p /\ Before(q, p) /\ d[q] = dates[q] BY <2>6, <3>3, <4>1, <4>3
        <5>2. q \in Dated BY <3>3, <5>1 DEF Dated
        <5>3. q \in E BY <2>8, <5>1, <5>2 DEF E
        <5>4. r[q] = t[q] BY <2>3, <2>9, <3>2, <5>3, ChainsAgree
        <5> QED BY <2>8, <5>1, <5>2, <5>4
      <4> QED BY <4>2, <4>3
    <3> QED BY <1>1, <1>4, <2>2, <2>3, <2>6, <3>1, <3>3, RewriteChains DEF t
  <2>11. CASE ~Advances(next, st)
    <3>1. dates' = d BY <1>2, <2>11
    <3>2. CASE d = dates
      <4>1. Closed(D)' /\ Chain(dates, r, D, schedule.startDate)'
        BY <1>1, <1>4, <2>2, <2>8, <3>1, <3>2 DEF Closed, Chain, Adjacent, Before
      <4>2. Dated' = Dated BY <1>4, <3>1, <3>2 DEF Dated
      <4> QED BY <1>4, <2>8, <3>1, <3>2, <4>1, <4>2, ChainedBy
    <3>3. CASE d # dates
      <4>1. \A q \in Present : ~Before(p, q)
        <5>1. st = [status EXCEPT ![p] = "COMPLETED"] BY DEF st, p
        <5>2. pending = {q \in Present : st[q] = "PENDING"} BY DEF pending
        <5>3. status[p] = "IN_PROGRESS" /\ job[w].phase = p BY <2>5, <3>3 DEF p
        <5>4. Undisturbed /\ Decided(job[w]) /\ job[w].op = "complete" /\ p \in Present
          BY <1>1, <2>1, <2>3
        <5> QED BY <1>2, <2>11, <5>1, <5>2, <5>3, <5>4, NoneAfter
      <4>2. PICK F : F = E OBVIOUS
      <4>3. PICK t : t = Part(r, E) OBVIOUS
      <4>4. /\ F \in SUBSET Present /\ t \in [F -> Span] /\ Closed(F)
            /\ Chain(dates', t, F, start) /\ \A q \in F : t[q] = r[q]
        BY <2>9, <3>1, <4>2, <4>3
      <4>5. Closed(F)' /\ Chain(dates, t, F, schedule.startDate)'
        BY <1>1, <1>4, <2>2, <4>4 DEF Closed, Chain, Adjacent, Before
      <4>6. ASSUME NEW q \in Dated' PROVE q \in F /\ t[q] = SpanOf(dates'[q])
        <5>1. q \in Present /\ ~d[q].datesPinned /\ d[q].startDate # None
          BY <1>4, <3>1, <4>6 DEF Dated
        <5>2. q # p /\ Before(q, p) BY <1>1, <2>3, <2>6, <3>3, <4>1, <5>1
        <5>3. d[q] = dates[q] BY <2>6, <5>1, <5>2, PresentFinite
        <5>4. q \in Dated BY <5>1, <5>3 DEF Dated
        <5>5. q \in E BY <2>8, <5>2, <5>4 DEF E
        <5> QED BY <2>8, <3>1, <4>2, <4>4, <5>3, <5>4, <5>5
      <4> QED BY <1>4, <4>4, <4>5, <4>6, ChainedBy
    <3> QED BY <3>2, <3>3
  <2> QED BY <2>10, <2>11
<1>9. Clear' => schedule'.startDate \in Nat
  BY <1>1, <1>7 DEF DInv, InChain
<1> HIDE DEF j
<1>10. w \notin Refreshing BY DEF Refreshing, CompleteWrite
<1> QED BY <1>1, <1>7, <1>8, <1>9, <1>10, DoneDInv DEF j

-----------------------------------------------------------------------------
(* Edits of phases and the dates *)

\* The first phases keep their order and their dates, and no other is dated.
LEMMA PrefixChains ==
  ASSUME NEW D \in SUBSET Present, NEW r \in [D -> Span],
         Chain(dates, r, D, schedule.startDate),
         \A q \in Dated : q \in D /\ r[q] = SpanOf(dates[q]),
         NEW F \in SUBSET D, F \subseteq Present',
         \A q \in F : dates'[q] = dates[q],
         \A q \in F, x \in Present' : Before(x, q)' => x \in F /\ Before(x, q),
         \A q \in F, x \in Present : Before(x, q) => x \in F /\ Before(x, q)',
         schedule'.startDate = schedule.startDate,
         \A q \in Dated' : q \in F /\ q \in Dated
  PROVE  Chained(Phases)'
<1>1. PICK t : t = Part(r, F) OBVIOUS
<1>2. t \in [F -> Span] /\ \A q \in F : t[q] = r[q] BY <1>1 DEF Part
<1>3. ASSUME NEW q \in F
      PROVE  \/ (\A x \in Present' : ~Before(x, q)')
                /\ t[q] = Scheduled(dates'[q], schedule'.startDate)
             \/ \E x \in Present' : Adjacent(x, q)'
                                    /\ t[q] = Scheduled(dates'[q], t[x].endDate)
  <2>1. CASE (\A x \in Present : ~Before(x, q))
             /\ r[q] = Scheduled(dates[q], schedule.startDate)
    BY <1>2, <2>1
  <2>2. CASE \E x \in Present : Adjacent(x, q) /\ r[q] = Scheduled(dates[q], r[x].endDate)
    <3>1. PICK x \in Present : Adjacent(x, q) /\ r[q] = Scheduled(dates[q], r[x].endDate)
      BY <2>2
    <3>2. x \in F /\ Before(x, q)' BY <3>1 DEF Adjacent
    <3>3. ASSUME NEW y \in Present', Before(x, y)', Before(y, q)' PROVE FALSE
      <4>1. y \in F /\ Before(y, q) BY <3>3
      <4>2. Before(x, y) BY <3>2, <3>3, <4>1
      <4> QED BY <3>1, <4>1, <4>2 DEF Adjacent
    <3>4. Adjacent(x, q)' BY <3>2, <3>3 DEF Adjacent
    <3> QED BY <1>2, <3>1, <3>2, <3>4
  <2> QED BY <2>1, <2>2 DEF Chain
<1>4. Chain(dates, t, F, schedule.startDate)' BY <1>3 DEF Chain
<1>5. Closed(F)' BY DEF Closed
<1>6. \A q \in Dated' \cap Phases : q \in F /\ t[q] = SpanOf(dates'[q]) BY <1>2
<1> QED BY <1>2, <1>4, <1>5, <1>6, ChainedBy

LEMMA AddPhaseDInv ==
  ASSUME IInv, DInv, NEW p \in Phases, NEW index \in 0..Cardinality(Phases),
         NEW weeks \in Durations, AddPhase(p, index, weeks)
  PROVE  DInv'
<1>1. /\ status[p] = "none" /\ status' = [status EXCEPT ![p] = "PENDING"]
      /\ orderIndex' = [q \in Phases |->
                          IF q = p THEN index
                          ELSE IF q \in Present /\ orderIndex[q] >= index
                          THEN orderIndex[q] + 1 ELSE orderIndex[q]]
      /\ dates' = [dates EXCEPT ![p] = Undated(weeks)]
      /\ edited => edited'
      /\ shifted' = (shifted \/ DatedFrom(index))
      /\ UNCHANGED <<timeline, schedule, job, plan, late>>
      /\ Overtake(None)
  BY DEF AddPhase
<1>2. index \in Nat BY FS_CardinalityType
<1>3. Clear' => Clear /\ ~DatedFrom(index) BY <1>1 DEF Clear
<1>4. Informed' BY <1>1, <1>3, OthersBased DEF DInv, Informed
<1>5. ASSUME Clear', Chained(Phases) PROVE Chained(Phases)'
  <2>1. PICK D \in SUBSET Present : \E r \in [D -> Span] :
          /\ Closed(D) /\ Chain(dates, r, D, schedule.startDate)
          /\ \A q \in Dated \cap Phases : q \in D /\ r[q] = SpanOf(dates[q])
    BY <1>5, ChainedMeans
  <2>2. PICK r \in [D -> Span] :
          /\ Closed(D) /\ Chain(dates, r, D, schedule.startDate)
          /\ \A q \in Dated : q \in D /\ r[q] = SpanOf(dates[q])
    BY <2>1, PresentFinite DEF Dated
  <2>3. PICK F : F = {q \in D : orderIndex[q] < index} OBVIOUS
  <2>4. /\ p \notin Present /\ Present' = Present \cup {p} /\ Present \subseteq Phases
        /\ orderIndex'[p] = index
        /\ \A q \in Present : /\ q # p /\ orderIndex[q] \in Nat
                              /\ dates'[q] = dates[q]
                              /\ orderIndex'[q] = IF orderIndex[q] >= index
                                                  THEN orderIndex[q] + 1
                                                  ELSE orderIndex[q]
    BY <1>1 DEF IInv, TypeOK, Present, PhaseStatuses
  <2>5. ASSUME NEW q \in F, NEW x \in Present', Before(x, q)'
        PROVE  x \in F /\ Before(x, q)
    <3>1. q \in Present /\ orderIndex'[q] = orderIndex[q] /\ orderIndex[q] < index
      BY <1>2, <2>3, <2>4
    <3>2. x \in Present /\ orderIndex'[x] = orderIndex[x] /\ orderIndex[x] \in Nat
      BY <1>2, <2>4, <2>5, <3>1 DEF Before
    <3>3. Before(x, q) BY <2>5, <3>1, <3>2 DEF Before
    <3> QED BY <1>2, <2>2, <2>3, <2>4, <3>1, <3>2, <3>3 DEF Closed, Before
  <2>6. ASSUME NEW q \in F, NEW x \in Present, Before(x, q)
        PROVE  x \in F /\ Before(x, q)'
    BY <1>2, <2>2, <2>3, <2>4, <2>6 DEF Closed, Before
  <2>7. ASSUME NEW q \in Dated' PROVE q \in F /\ q \in Dated
    <3>1. dates'[p].startDate = None BY <1>1, DatesTyped DEF Undated, DateTables
    <3>2. q \in Dated BY <2>4, <2>7, <3>1 DEF Dated
    <3>3. ~(orderIndex[q] >= index) BY <1>3, <1>5, <3>2 DEF DatedFrom, Dated
    <3> QED BY <1>2, <2>2, <2>3, <2>4, <3>2, <3>3 DEF Dated
  <2> QED BY <1>1, <2>2, <2>3, <2>4, <2>5, <2>6, <2>7, PrefixChains
<1>6. ASSUME Clear' PROVE Linked'
  <2>1. Linked BY <1>3, <1>6 DEF DInv, InChain
  <2>2. Chained(Phases) => Linked' BY <1>5, <1>6 DEF Linked
  <2>3. None \notin Refreshing BY TimelineAssumption DEF Refreshing
  <2> QED BY <1>1, <2>1, <2>2, <2>3, LinkStays
<1> QED BY <1>1, <1>3, <1>4, <1>6 DEF DInv, InChain

\* A removal that is not overtaken keeps the order of the others.
LEMMA RemoveOrder ==
  ASSUME IInv, NEW w \in Workers, RemoveWrite(w), w \notin overtaken, Separate,
         NEW p, p = job[w].phase
  PROVE  /\ p \in Present /\ Present' = Present \ {p}
         /\ \A q, x \in Present \ {p} : Before(q, x)' <=> Before(q, x)
<1> DEFINE j == job[w]
<1>1. /\ j.op = "remove" /\ p \in Present /\ j.phases \subseteq Present
      /\ status' = [status EXCEPT ![p] = "gone"]
      /\ orderIndex' = [q \in Phases |-> IF q \in j.phases THEN j.index[q]
                                         ELSE orderIndex[q]]
  BY DEF RemoveWrite
<1>2. Present' = Present \ {p} /\ p \in Phases
  BY <1>1, PresentFinite DEF IInv, TypeOK, Present, PhaseStatuses
<1>3. Decided(j) BY <1>1 DEF IInv, UpToDate, NoJob
<1>4. j.index \in [Phases -> Nat] BY <1>1, JobFields DEF IInv, TypeOK
<1>5. ASSUME NEW q \in Present \ {p}, NEW x \in Present \ {p}
      PROVE  Before(q, x)' <=> Before(q, x)
  <2>1. /\ Before(q, x) => j.index[q] < j.index[x]
        /\ Before(x, q) => j.index[x] < j.index[q]
        /\ q \notin j.phases => j.index[q] = orderIndex[q]
        /\ x \notin j.phases => j.index[x] = orderIndex[x]
    BY <1>1, <1>3 DEF Decided
  <2>2. q \in Phases /\ x \in Phases BY PresentFinite
  <2>3. orderIndex'[q] = j.index[q] /\ orderIndex'[x] = j.index[x]
    BY <1>1, <2>1, <2>2
  <2>4. /\ j.index[q] \in Nat /\ j.index[x] \in Nat
        /\ orderIndex[q] \in Nat /\ orderIndex[x] \in Nat
    BY <1>4, <2>2 DEF IInv, TypeOK
  <2>5. q = x \/ Before(q, x) \/ Before(x, q) BY <2>4 DEF Separate, Before
  <2> QED BY <2>1, <2>3, <2>4, <2>5 DEF Before
<1> QED BY <1>1, <1>2, <1>5

LEMMA RemoveDInv ==
  ASSUME IInv, DInv, NEW w \in Workers, RemoveWrite(w)
  PROVE  DInv'
<1>1. PICK p : p = job[w].phase OBVIOUS
<1>2. /\ job[w].op = "remove" /\ Done(w)
      /\ edited => edited'
      /\ shifted' = (shifted \/ DatedFrom(orderIndex[p]))
      /\ UNCHANGED <<timeline, schedule, dates>>
  BY <1>1 DEF RemoveWrite
<1>3. late' = IF w \in overtaken THEN late \cup {job[w].op} ELSE late BY <1>2 DEF Done
<1>4. ASSUME Clear' PROVE Clear /\ w \notin overtaken /\ ~DatedFrom(orderIndex[p])
  <2>1. job[w] # NoJob /\ ~ResetWrite(w) BY <1>2 DEF NoJob, ResetWrite
  <2>2. late = {} /\ w \notin overtaken BY <1>3, <1>4, <2>1, WriteClear
  <2> QED BY <1>2, <1>4, <2>2 DEF Clear
<1>5. ASSUME Clear', Chained(Phases) PROVE Chained(Phases)'
  <2>1. PICK D \in SUBSET Present : \E r \in [D -> Span] :
          /\ Closed(D) /\ Chain(dates, r, D, schedule.startDate)
          /\ \A q \in Dated \cap Phases : q \in D /\ r[q] = SpanOf(dates[q])
    BY <1>5, ChainedMeans
  <2>2. PICK r \in [D -> Span] :
          /\ Closed(D) /\ Chain(dates, r, D, schedule.startDate)
          /\ \A q \in Dated : q \in D /\ r[q] = SpanOf(dates[q])
    BY <2>1, PresentFinite DEF Dated
  <2>3. PICK F : F = {q \in D : Before(q, p)} OBVIOUS
  <2>4. /\ Clear /\ w \notin overtaken /\ Separate
        /\ \A q \in Present : orderIndex[q] \in Nat
    BY <1>4, <1>5, ClearPhases
  <2>5. /\ p \in Present /\ Present' = Present \ {p}
        /\ \A q, x \in Present \ {p} : Before(q, x)' <=> Before(q, x)
    BY <1>1, <2>4, RemoveOrder
  <2>6. p \notin F /\ F \subseteq Present' BY <2>3, <2>4, <2>5 DEF Before
  <2>7. ASSUME NEW q \in F, NEW x \in Present, Before(x, q) PROVE x \in F /\ x # p
    BY <2>2, <2>3, <2>4, <2>5, <2>7 DEF Closed, Before
  <2>8. ASSUME NEW q \in F, NEW x \in Present', Before(x, q)'
        PROVE  x \in F /\ Before(x, q)
    BY <2>5, <2>6, <2>7, <2>8
  <2>9. ASSUME NEW q \in F, NEW x \in Present, Before(x, q)
        PROVE  x \in F /\ Before(x, q)'
    <3>1. x \in F /\ x # p BY <2>7, <2>9
    <3> QED BY <2>5, <2>6, <2>9, <3>1
  <2>10. ASSUME NEW q \in Dated' PROVE q \in F /\ q \in Dated
    <3>1. q \in Dated /\ q \in Present BY <1>2, <2>5, <2>10 DEF Dated
    <3>2. ~(orderIndex[q] >= orderIndex[p])
      BY <1>4, <1>5, <3>1 DEF DatedFrom, Dated
    <3> QED BY <2>2, <2>3, <2>4, <2>5, <3>1, <3>2 DEF Before
  <2> QED BY <1>2, <2>2, <2>3, <2>6, <2>8, <2>9, <2>10, PrefixChains
<1>6. Clear' => schedule'.startDate \in Nat BY <1>2, <1>4 DEF DInv, InChain
<1> QED BY <1>1, <1>2, <1>4, <1>5, <1>6, DoneDInv DEF Refreshing

-----------------------------------------------------------------------------
(* Updates of phases and the dates *)

\* Dates that give the same schedule keep the chain.
LEMMA ScheduledAgain ==
  ASSUME NEW D \in SUBSET Present, NEW r \in [D -> Span], Closed(D),
         NEW start \in Nat, Chain(dates, r, D, start),
         UNCHANGED orderIndex, Present' = Present, schedule'.startDate = start,
         \A q \in D : \A from \in Nat :
           r[q] = Scheduled(dates[q], from) => r[q] = Scheduled(dates'[q], from)
  PROVE  Closed(D)' /\ Chain(dates, r, D, schedule.startDate)'
<1>1. \A x, q : Before(x, q)' <=> Before(x, q) BY DEF Before
<1>2. Closed(D)' BY <1>1 DEF Closed
<1>3. \A x, q : Adjacent(x, q)' <=> Adjacent(x, q) BY <1>1 DEF Adjacent
<1>4. ASSUME NEW q \in D
      PROVE  \/ (\A x \in Present : ~Before(x, q)) /\ r[q] = Scheduled(dates'[q], start)
             \/ \E x \in Present : Adjacent(x, q)
                                   /\ r[q] = Scheduled(dates'[q], r[x].endDate)
  <2>1. CASE (\A x \in Present : ~Before(x, q)) /\ r[q] = Scheduled(dates[q], start)
    BY <2>1
  <2>2. CASE \E x \in Present : Adjacent(x, q) /\ r[q] = Scheduled(dates[q], r[x].endDate)
    <3>1. PICK x \in Present : Adjacent(x, q) /\ r[q] = Scheduled(dates[q], r[x].endDate)
      BY <2>2
    <3>2. x \in D BY <3>1 DEF Adjacent, Closed
    <3>3. r[x].endDate \in Nat BY <3>2 DEF Span
    <3> QED BY <3>1, <3>3
  <2> QED BY <2>1, <2>2 DEF Chain
<1> QED BY <1>1, <1>2, <1>3, <1>4 DEF Chain

\* Pinning the dates a phase has got leaves its schedule.
LEMMA PinScheduled ==
  ASSUME NEW d \in PhaseDates, NEW e \in PhaseDates, NEW from \in Nat,
         e.startDate = d.startDate, e.endDate = d.endDate,
         e.durationWeeks = d.durationWeeks,
         \/ e.datesPinned = d.datesPinned
         \/ ~d.datesPinned /\ (d.startDate # None => Scheduled(d, from) = SpanOf(d))
  PROVE  Scheduled(e, from) = Scheduled(d, from)
<1>1. CASE e.datesPinned = d.datesPinned BY <1>1 DEF Scheduled, Anchored
<1>2. CASE ~d.datesPinned /\ (d.startDate # None => Scheduled(d, from) = SpanOf(d))
  <2>1. Scheduled(d, from) = [startDate |-> from, endDate |-> from + d.durationWeeks]
    BY <1>2 DEF Scheduled, Anchored
  <2>2. CASE Anchored(e) BY <1>2, <2>2 DEF Anchored, Scheduled, SpanOf
  <2>3. CASE ~Anchored(e) BY <2>1, <2>3 DEF Scheduled
  <2> QED BY <2>2, <2>3
<1> QED BY <1>1, <1>2

\* An update that sets no date may only pin them.
LEMMA PinChains ==
  ASSUME IInv, NEW p \in Present, NEW e \in EditTypes,
         dates' = [dates EXCEPT ![p] = Updated(dates[p], e)],
         UNCHANGED <<status, orderIndex, schedule>>, schedule.startDate \in Nat,
         e.startDate = None, e.endDate = None, e.durationWeeks = None,
         e.datesPinned # FALSE, Chained(Phases)
  PROVE  Chained(Phases)'
<1>1. PICK D \in SUBSET Present : \E r \in [D -> Span] :
        /\ Closed(D) /\ Chain(dates, r, D, schedule.startDate)
        /\ \A q \in Dated \cap Phases : q \in D /\ r[q] = SpanOf(dates[q])
  BY ChainedMeans
<1>2. PICK r \in [D -> Span] :
        /\ Closed(D) /\ Chain(dates, r, D, schedule.startDate)
        /\ \A q \in Dated : q \in D /\ r[q] = SpanOf(dates[q])
  BY <1>1, PresentFinite DEF Dated
<1>3. /\ p \in Phases /\ Present \subseteq Phases /\ dates \in DateTables
      /\ dates[p] \in PhaseDates /\ Present' = Present
  BY PresentFinite, DatesTyped DEF DateTables, Present
<1>4. /\ \A q \in Present : q # p => dates'[q] = dates[q]
      /\ dates'[p] = Updated(dates[p], e) /\ dates'[p] \in PhaseDates
  BY <1>3, UpdatedType DEF DateTables
<1>5. /\ dates'[p].startDate = dates[p].startDate
      /\ dates'[p].endDate = dates[p].endDate
      /\ dates'[p].durationWeeks = dates[p].durationWeeks
      /\ dates'[p].datesPinned \/ dates'[p].datesPinned = dates[p].datesPinned
  <2>1. e.datesPinned = None \/ e.datesPinned = TRUE BY DEF EditTypes
  <2> QED BY <1>3, <1>4, <2>1 DEF Updated, Given
<1>6. ASSUME NEW q \in D, NEW from \in Nat, r[q] = Scheduled(dates[q], from)
      PROVE  r[q] = Scheduled(dates'[q], from)
  <2>1. CASE q # p BY <1>4, <1>6, <2>1
  <2>2. CASE q = p
    <3>1. \/ dates'[p].datesPinned = dates[p].datesPinned
          \/ ~dates[p].datesPinned
               /\ (dates[p].startDate # None => Scheduled(dates[p], from) = SpanOf(dates[p]))
      BY <1>2, <1>3, <1>4, <1>5, <1>6, <2>2 DEF Dated, PhaseDates
    <3> QED BY <1>3, <1>4, <1>5, <1>6, <2>2, <3>1, PinScheduled
  <2> QED BY <2>1, <2>2
<1>7. Closed(D)' /\ Chain(dates, r, D, schedule.startDate)'
  BY <1>2, <1>3, <1>6, ScheduledAgain
<1>8. \A q \in Dated' : q \in D /\ r[q] = SpanOf(dates'[q])
  <2>1. SUFFICES ASSUME NEW q \in Present, ~dates'[q].datesPinned,
                        dates'[q].startDate # None
        PROVE  q \in D /\ r[q] = SpanOf(dates'[q])
    BY <1>3 DEF Dated
  <2>2. /\ ~dates[q].datesPinned /\ dates[q].startDate # None
        /\ SpanOf(dates'[q]) = SpanOf(dates[q])
    BY <1>3, <1>4, <1>5, <2>1 DEF SpanOf, PhaseDates
  <2> QED BY <1>2, <2>1, <2>2 DEF Dated
<1>9. \A q \in Dated' \cap Phases : q \in D /\ r[q] = SpanOf(dates'[q]) BY <1>8
<1>10. D \in SUBSET Present' BY <1>3
<1> QED BY <1>7, <1>9, <1>10, ChainedBy

\* An update that sets dates chains those that the refresh is to leave, when it
\* pins the dates of its phase.
LEMMA PinnedFixes ==
  ASSUME IInv, Separate, NEW p \in Present, NEW e,
         \A q \in Phases : q # p => dates'[q] = dates[q], dates'[p].datesPinned,
         UNCHANGED <<status, orderIndex, schedule>>, schedule.startDate \in Nat,
         e.endDate # None, ~Diverges(p, e), Chained(Phases)
  PROVE  Chained(Fixed(p))'
<1>1. PICK D \in SUBSET Present : \E r \in [D -> Span] :
        /\ Closed(D) /\ Chain(dates, r, D, schedule.startDate)
        /\ \A q \in Dated \cap Phases : q \in D /\ r[q] = SpanOf(dates[q])
  BY ChainedMeans
<1>2. PICK r \in [D -> Span] :
        /\ Closed(D) /\ Chain(dates, r, D, schedule.startDate)
        /\ \A q \in Dated : q \in D /\ r[q] = SpanOf(dates[q])
  BY <1>1, PresentFinite DEF Dated
<1>3. /\ Present \subseteq Phases /\ Present' = Present
      /\ orderIndex \in [Phases -> Nat]
      /\ \A q \in Present : orderIndex[q] \in Nat
  BY PresentFinite DEF Present, IInv, TypeOK
<1>4. PICK F : F = {q \in D : Before(q, p)} OBVIOUS
<1>5. PICK t : t = Part(r, F) OBVIOUS
<1>6. \A q \in F : dates'[q] = dates[q] BY <1>3, <1>4 DEF Before
<1>7. /\ F \in SUBSET Present /\ Closed(F)
      /\ t \in [F -> Span] /\ \A q \in F : t[q] = r[q]
      /\ Chain(dates', t, F, schedule.startDate)
  BY <1>2, <1>3, <1>4, <1>5, <1>6, BeforeStays
<1>8. Closed(F)' /\ Chain(dates, t, F, schedule.startDate)'
  BY <1>3, <1>7 DEF Closed, Chain, Adjacent, Before
<1>9. \A q \in Dated' \cap Fixed(p)' : q \in F /\ t[q] = SpanOf(dates'[q])
  <2>1. SUFFICES ASSUME NEW q \in Present, ~dates'[q].datesPinned,
                        dates'[q].startDate # None,
                        ~Before(p, q) \/ status[q] = "COMPLETED"
        PROVE  q \in F /\ t[q] = SpanOf(dates'[q])
    BY <1>3 DEF Dated, Fixed, Before
  <2>2. q # p /\ dates'[q] = dates[q] BY <1>3, <2>1
  <2>3. ~Before(p, q) BY <2>1, <2>2 DEF Diverges
  <2>4. Before(q, p) BY <1>3, <2>2, <2>3 DEF Separate, Before
  <2> QED BY <1>2, <1>4, <1>7, <2>1, <2>2, <2>4 DEF Dated
<1>10. F \in SUBSET Present' BY <1>3, <1>7
<1> QED BY <1>7, <1>8, <1>9, <1>10, ChainedBy

\* And when only its end moves, with its duration.
LEMMA MovedFixes ==
  ASSUME IInv, Separate, NEW p \in Present, NEW e,
         \A q \in Phases : q # p => dates'[q] = dates[q], dates' \in DateTables,
         ~dates'[p].datesPinned, ~dates[p].datesPinned,
         dates'[p].startDate = dates[p].startDate, dates[p].startDate # None,
         dates'[p].endDate = dates[p].startDate + dates'[p].durationWeeks,
         UNCHANGED <<status, orderIndex, schedule>>, schedule.startDate \in Nat,
         e.endDate # None, ~Diverges(p, e), Chained(Phases)
  PROVE  Chained(Fixed(p))'
<1>1. PICK D \in SUBSET Present : \E r \in [D -> Span] :
        /\ Closed(D) /\ Chain(dates, r, D, schedule.startDate)
        /\ \A q \in Dated \cap Phases : q \in D /\ r[q] = SpanOf(dates[q])
  BY ChainedMeans
<1>2. PICK r \in [D -> Span] :
        /\ Closed(D) /\ Chain(dates, r, D, schedule.startDate)
        /\ \A q \in Dated : q \in D /\ r[q] = SpanOf(dates[q])
  BY <1>1, PresentFinite DEF Dated
<1>3. /\ Present \subseteq Phases /\ Present' = Present
      /\ orderIndex \in [Phases -> Nat]
      /\ \A q \in Present : orderIndex[q] \in Nat
  BY PresentFinite DEF Present, IInv, TypeOK
<1>4. PICK E : E = {q \in D : Before(q, p)} OBVIOUS
<1>5. PICK u : u = Part(r, E) OBVIOUS
<1>6. \A q \in E : dates'[q] = dates[q] BY <1>3, <1>4 DEF Before
<1>7. /\ E \in SUBSET Present /\ Closed(E)
      /\ u \in [E -> Span] /\ \A q \in E : u[q] = r[q]
      /\ Chain(dates', u, E, schedule.startDate)
  BY <1>2, <1>3, <1>4, <1>5, <1>6, BeforeStays
<1>8. p \in D /\ r[p] = SpanOf(dates[p]) /\ p \notin E
  BY <1>2, <1>3, <1>4 DEF Dated, Before
<1>9. PICK v : v = SpanOf(dates'[p]) OBVIOUS
<1>10. /\ v \in Span /\ ~Anchored(dates'[p])
       /\ v = Scheduled(dates'[p], dates[p].startDate)
  <2>1. dates'[p] \in PhaseDates /\ dates[p] \in PhaseDates
    BY <1>3, DatesTyped DEF DateTables
  <2>2. dates[p].startDate \in Nat /\ dates'[p].durationWeeks \in Nat
    BY <2>1 DEF PhaseDates
  <2> QED BY <1>9, <2>2 DEF SpanOf, Span, Anchored, Scheduled
<1>11. PICK t : t = [q \in E \cup {p} |-> IF q = p THEN v ELSE u[q]] OBVIOUS
<1>12. PICK F : F = E \cup {p} OBVIOUS
<1>13. t \in [F -> Span] /\ t[p] = v /\ \A q \in E : t[q] = u[q]
  BY <1>7, <1>8, <1>10, <1>11, <1>12
<1>14. F \in SUBSET Present' /\ Closed(F)'
  <2>1. F \in SUBSET Present BY <1>7, <1>12
  <2>2. ASSUME NEW q \in F, NEW x \in Present, Before(x, q) PROVE x \in F
    BY <1>2, <1>4, <1>7, <1>8, <1>12, <2>2 DEF Closed
  <2> QED BY <1>3, <2>1, <2>2 DEF Closed, Before
<1>15. ASSUME NEW q \in F
       PROVE  \/ (\A x \in Present : ~Before(x, q))
                   /\ t[q] = Scheduled(dates'[q], schedule.startDate)
              \/ \E x \in Present : Adjacent(x, q)
                                    /\ t[q] = Scheduled(dates'[q], t[x].endDate)
  <2>1. CASE q \in E
    <3>1. CASE (\A x \in Present : ~Before(x, q))
               /\ u[q] = Scheduled(dates'[q], schedule.startDate)
      BY <1>13, <2>1, <3>1
    <3>2. CASE \E x \in Present : Adjacent(x, q)
                                  /\ u[q] = Scheduled(dates'[q], u[x].endDate)
      <4>1. PICK x \in Present : Adjacent(x, q)
                                 /\ u[q] = Scheduled(dates'[q], u[x].endDate)
        BY <3>2
      <4>2. x \in E BY <1>7, <2>1, <4>1 DEF Adjacent, Closed
      <4> QED BY <1>13, <2>1, <4>1, <4>2
    <3> QED BY <1>7, <2>1, <3>1, <3>2 DEF Chain
  <2>2. CASE q = p
    <3>1. \A from : r[p] = Scheduled(dates[p], from) => dates[p].startDate = from
      BY <1>8 DEF Scheduled, Anchored, SpanOf
    <3>2. CASE (\A x \in Present : ~Before(x, p))
               /\ r[p] = Scheduled(dates[p], schedule.startDate)
      BY <1>10, <1>13, <2>2, <3>1, <3>2
    <3>3. CASE \E x \in Present : Adjacent(x, p) /\ r[p] = Scheduled(dates[p], r[x].endDate)
      <4>1. PICK x \in Present : Adjacent(x, p) /\ r[p] = Scheduled(dates[p], r[x].endDate)
        BY <3>3
      <4>2. x \in E BY <1>2, <1>4, <1>8, <4>1 DEF Adjacent, Closed
      <4>3. t[x].endDate = dates[p].startDate BY <1>7, <1>13, <3>1, <4>1, <4>2
      <4> QED BY <1>10, <1>13, <2>2, <4>1, <4>3
    <3> QED BY <1>2, <1>8, <3>2, <3>3 DEF Chain
  <2> QED BY <1>12, <2>1, <2>2
<1>16. Chain(dates, t, F, schedule.startDate)'
  <2>1. \A x, q : Before(x, q)' <=> Before(x, q) BY DEF Before
  <2>2. \A x, q : Adjacent(x, q)' <=> Adjacent(x, q) BY <1>3, <2>1 DEF Adjacent
  <2> QED BY <1>3, <1>15, <2>1, <2>2 DEF Chain
<1>17. \A q \in Dated' \cap Fixed(p)' : q \in F /\ t[q] = SpanOf(dates'[q])
  <2>1. SUFFICES ASSUME NEW q \in Present, ~dates'[q].datesPinned,
                        dates'[q].startDate # None,
                        ~Before(p, q) \/ status[q] = "COMPLETED"
        PROVE  q \in F /\ t[q] = SpanOf(dates'[q])
    BY <1>3 DEF Dated, Fixed, Before
  <2>2. CASE q = p BY <1>9, <1>12, <1>13, <2>2
  <2>3. CASE q # p
    <3>1. dates'[q] = dates[q] BY <1>3, <2>3
    <3>2. ~Before(p, q) BY <2>1, <3>1 DEF Diverges
    <3>3. Before(q, p) BY <1>3, <2>3, <3>2 DEF Separate, Before
    <3>4. q \in E /\ r[q] = SpanOf(dates[q])
      BY <1>2, <1>4, <2>1, <3>1, <3>3 DEF Dated
    <3> QED BY <1>7, <1>12, <1>13, <3>1, <3>4
  <2> QED BY <2>2, <2>3
<1> QED BY <1>13, <1>14, <1>16, <1>17, ChainedBy

LEMMA UpdateDInv ==
  ASSUME IInv, DInv, NEW w \in Workers, UpdateWrite(w)
  PROVE  DInv'
<1>1. PICK p : p = job[w].phase OBVIOUS
<1>2. PICK e : e = plan[w].edit OBVIOUS
<1> DEFINE j == [op |-> "refresh", phase |-> p]
           x == [startDate |-> plan[w].startDate, dates |-> <<>>]
<1>3. /\ job[w].op = "update" /\ p \in Present
      /\ dates' = [dates EXCEPT ![p] = Updated(dates[p], e)]
      /\ shifted' = (shifted \/ Diverges(p, e))
      /\ UNCHANGED <<timeline, status, orderIndex, schedule, edited>>
      /\ IF e.endDate # None /\ plan[w].startDate # None
         THEN /\ job' = [job EXCEPT ![w] = j] /\ plan' = [plan EXCEPT ![w] = x]
              /\ late' = IF w \in overtaken THEN late \cup {"update"} ELSE late
              /\ Overtake(w)
         ELSE Done(w)
  BY <1>1, <1>2 DEF UpdateWrite, Updated
<1>4. late' = IF w \in overtaken THEN late \cup {job[w].op} ELSE late
  BY <1>3 DEF Done
<1>5. job[w] # NoJob /\ ~ResetWrite(w) BY <1>3 DEF NoJob, ResetWrite
<1>6. ASSUME Clear'
      PROVE  /\ Clear /\ ~Diverges(p, e)
             /\ schedule.startDate \in Nat /\ plan[w].startDate = schedule.startDate
             /\ e.startDate # None => e.endDate # None /\ e.datesPinned = TRUE
             /\ e.endDate # None /\ e.datesPinned # TRUE =>
                  /\ dates[p].startDate # None
                  /\ e.endDate = dates[p].startDate
                                 + Given(dates[p].durationWeeks, e.durationWeeks)
  <2>1. late = {} /\ w \notin overtaken BY <1>4, <1>5, <1>6, WriteClear
  <2>2. Clear /\ ~Diverges(p, e) BY <1>3, <1>6, <2>1 DEF Clear
  <2>3. Based(job[w], plan[w]) BY <1>5, <2>1 DEF DInv, Informed
  <2> QED BY <1>1, <1>2, <1>3, <2>2, <2>3 DEF Based, DInv, InChain
<1>7. /\ e \in EditTypes /\ Present \subseteq Phases /\ dates \in DateTables
      /\ dates' = [dates EXCEPT ![p] = Updated(dates[p], e)]
  BY <1>2, <1>3, PresentFinite, DatesTyped DEF IInv, Plans, Carries
<1>8. /\ \A q \in Phases : q # p => dates'[q] = dates[q]
      /\ dates'[p] = Updated(dates[p], e) /\ p \in Phases
      /\ dates[p] \in PhaseDates /\ dates' \in DateTables
  BY <1>3, <1>7, UpdatedType DEF DateTables
<1>9. CASE e.endDate # None /\ plan[w].startDate # None
  <2>1. /\ job'[w] = j /\ plan'[w] = x /\ Overtake(w)
        /\ \A y \in Workers : y # w => job'[y] = job[y] /\ plan'[y] = plan[y]
    BY <1>3, <1>9 DEF IInv, TypeOK, Plans
  <2>2. \A y \in Workers :
          y # w /\ job'[y] # NoJob /\ y \notin overtaken' => Based(job[y], plan[y])'
    BY <1>6, <2>1, OthersBased DEF DInv
  <2>3. Based(job[w], plan[w])'
    <3>1. job'[w].op = "refresh" /\ plan'[w].startDate = plan[w].startDate BY <2>1
    <3>2. Clear' => plan'[w].startDate = schedule'.startDate BY <1>3, <1>6, <3>1
    <3> HIDE DEF j, x
    <3> QED BY <3>1, <3>2 DEF Based
  <2>4. Informed' BY <2>2, <2>3 DEF Informed
  <2>5. w \in Refreshing' \ overtaken' /\ job'[w].phase = p
    BY <2>1 DEF Refreshing, Overtake
  <2>6. ASSUME Clear', Chained(Phases) PROVE Chained(Fixed(p))'
    <3>1. Separate BY <1>6, <2>6, ClearPhases
    <3>2. CASE dates'[p].datesPinned
      <4> HIDE DEF j, x
      <4> QED BY <1>3, <1>6, <1>8, <1>9, <2>6, <3>1, <3>2, PinnedFixes
    <3>3. CASE ~dates'[p].datesPinned
      <4>1. e.datesPinned = None /\ ~dates[p].datesPinned
        <5>1. e.datesPinned # FALSE BY <1>6, <2>6 DEF Diverges
        <5>2. dates'[p].datesPinned = Given(dates[p].datesPinned, e.datesPinned)
          BY <1>8 DEF Updated
        <5>3. e.datesPinned # TRUE BY <3>3, <5>2 DEF Given
        <5>4. e.datesPinned = None BY <1>7, <5>1, <5>3 DEF EditTypes
        <5> QED BY <3>3, <5>2, <5>4 DEF Given
      <4>2. e.startDate = None /\ dates[p].startDate # None
            /\ e.endDate = dates[p].startDate
                           + Given(dates[p].durationWeeks, e.durationWeeks)
        BY <1>6, <1>9, <2>6, <4>1
      <4>3. /\ dates'[p].startDate = dates[p].startDate
            /\ dates'[p].endDate = dates[p].startDate + dates'[p].durationWeeks
        BY <1>8, <1>9, <4>2 DEF Updated, Given
      <4> HIDE DEF j, x
      <4> QED BY <1>3, <1>6, <1>8, <1>9, <2>6, <3>1, <3>3, <4>1, <4>2, <4>3, MovedFixes
    <3> QED BY <3>2, <3>3
  <2>7. ASSUME Clear' PROVE Linked'
    <3>1. Linked BY <1>6, <2>7 DEF DInv, InChain
    <3>2. Chained(Phases) => Linked'
      <4>1. job'[w].op = "refresh" BY <2>1
      <4> HIDE DEF j, x
      <4> QED BY <2>5, <2>6, <2>7, <4>1 DEF Linked, Kept
    <3>3. w \notin Refreshing BY <1>3 DEF Refreshing
    <3> QED BY <2>1, <3>1, <3>2, <3>3, LinkStays
  <2> QED BY <1>3, <1>6, <2>4, <2>7 DEF DInv, InChain
<1>10. CASE ~(e.endDate # None /\ plan[w].startDate # None)
  <2>1. Done(w) /\ w \notin Refreshing BY <1>3, <1>10 DEF Refreshing
  <2>2. ASSUME Clear', Chained(Phases) PROVE Chained(Phases)'
    <3>1. e.endDate = None BY <1>6, <1>10, <2>2
    <3>2. e.startDate = None /\ e.durationWeeks = None /\ e.datesPinned # FALSE
      BY <1>6, <2>2, <3>1 DEF Diverges
    <3> HIDE DEF j, x
    <3> QED BY <1>3, <1>6, <1>7, <2>2, <3>1, <3>2, PinChains
  <2> HIDE DEF j, x
  <2> QED BY <1>3, <1>6, <2>1, <2>2, DoneDInv
<1> QED BY <1>9, <1>10

LEMMA FewerChained ==
  ASSUME NEW S, NEW T, S \subseteq T, Chained(T)
  PROVE  Chained(S)
BY DEF Chained

\* The read of a refresh: what it is not to write is chained already.
LEMMA RefreshChains ==
  ASSUME IInv, NEW p, Chained(Fixed(p)), NEW E,
         NEW X, X = {q \in Phases \ {p} : ~dates[q].datesPinned /\ status[q] # "COMPLETED"},
         E = Present \cap X
  PROVE  Chained(Phases \ E)
<1>1. \A q \in Present : orderIndex[q] \in Nat /\ q \in Phases
  BY PresentFinite DEF IInv, TypeOK
<1>2. \A q \in Dated \cap (Phases \ E) : q \in Dated \cap Fixed(p)
  BY <1>1 DEF Dated, Fixed, Before
<1> QED BY <1>2 DEF Chained

LEMMA RefreshReadDInv ==
  ASSUME IInv, DInv, NEW w \in Workers, RefreshRead(w)
  PROVE  DInv'
<1>1. PICK p : p = job[w].phase OBVIOUS
<1>2. PICK start : start = plan[w].startDate OBVIOUS
<1>3. PICK X : X = {q \in Phases \ {p} : ~dates[q].datesPinned
                                         /\ status[q] # "COMPLETED"}
  OBVIOUS
<1>4. PICK s \in Ordered :
        plan' = [plan EXCEPT ![w] = [startDate |-> start,
                                     dates |-> Only(Recalculated(dates, s, start), X)]]
  BY <1>1, <1>2, <1>3 DEF RefreshRead
<1>5. /\ job[w].op = "refresh"
      /\ job' = [job EXCEPT ![w] = [op |-> "redate", index |-> orderIndex]]
      /\ rows' = rows
      /\ UNCHANGED <<overtaken, late, edited, shifted>>
      /\ UNCHANGED <<timeline, status, orderIndex, schedule, dates>>
  BY DEF RefreshRead, rows
<1> DEFINE t == Recalculated(dates, s, start)
<1>6. start \in Nat /\ dates \in DateTables
      /\ orderIndex \in [Phases -> Nat]
  BY <1>2, <1>5, DatesTyped DEF IInv, TypeOK, Plans, Carries
<1>7. /\ t \in [Present -> Span]
      /\ Clear => Chain(dates, t, Present, start)
  <2>1. t \in [Present -> Span] BY <1>6, RecalculatedSpans
  <2>2. Clear => Separate BY ClearPhases
  <2> QED BY <1>6, <2>1, <2>2, RecalculatedChain
<1> HIDE DEF t
<1>8. PICK x : x = [startDate |-> start, dates |-> Only(t, X)] OBVIOUS
<1>9. /\ job'[w].op = "redate" /\ plan'[w] = x
      /\ \A y \in Workers : y # w => job'[y] = job[y] /\ plan'[y] = plan[y]
  BY <1>4, <1>5, <1>8 DEF IInv, TypeOK, Plans, t
<1>10. DOMAIN x.dates = Present \cap X /\ \A q \in Present \cap X : x.dates[q] = t[q]
  BY <1>7, <1>8 DEF Only
<1>11. Clear' <=> Clear BY <1>5 DEF Clear
<1>12. \A k, y : Based(k, y) => Based(k, y)' BY <1>5, <1>11, BasedSame
<1>13. ASSUME Clear, w \notin overtaken PROVE start = schedule.startDate
  <2>1. job[w] # NoJob BY <1>5 DEF NoJob
  <2> QED BY <1>2, <1>5, <1>13, <2>1 DEF DInv, Informed, Based
<1>14. /\ Chained(Phases) => Chained(Phases)'
       /\ \A k, y : Kept(k, y) => Kept(k, y)'
       /\ \A S : Chained(S) => Chained(S)'
  BY <1>5, ChainedSame
<1>15. ASSUME w \notin overtaken PROVE Based(job[w], plan[w])'
  <2>1. Present' = Present /\ dates' = dates BY <1>5 DEF Present
  <2>2. ASSUME Clear' PROVE Follows(plan[w])'
    <3>1. start = schedule'.startDate BY <1>5, <1>11, <1>13, <1>15, <2>2
    <3>2. PICK u : u = t OBVIOUS
    <3>3. PICK D : D = Present OBVIOUS
    <3>4. Chain(dates, u, D, start) BY <1>7, <1>11, <2>2, <3>2, <3>3
    <3>5. Chain(dates, u, D, start)' BY <1>5, <3>4, ChainSame
    <3>6. \A q \in DOMAIN x.dates \cap Present' : x.dates[q] = u[q]
      BY <1>10, <2>1, <3>2
    <3>7. u \in [Present' -> Span] /\ D = Present' BY <1>7, <2>1, <3>2, <3>3
    <3> QED BY <1>9, <3>1, <3>5, <3>6, <3>7 DEF Follows
  <2> QED BY <1>9, <2>2 DEF Based
<1>16. Informed' BY <1>5, <1>9, <1>12, <1>15 DEF DInv, Informed
<1>17. w \in Refreshing' BY <1>9 DEF Refreshing
<1>18. ASSUME Linked PROVE Linked'
  <2>1. CASE Refreshing \cap overtaken # {}
    <3>1. PICK y \in Refreshing : y \in overtaken BY <2>1
    <3>2. y \in Refreshing' BY <1>9, <1>17, <3>1 DEF Refreshing
    <3> QED BY <1>5, <3>1, <3>2 DEF Linked
  <2>2. CASE Chained(Phases) BY <1>14, <2>2 DEF Linked
  <2>3. CASE \E y \in Refreshing \ overtaken : y # w /\ Kept(job[y], plan[y])
    <3>1. PICK y \in Refreshing \ overtaken : y # w /\ Kept(job[y], plan[y]) BY <2>3
    <3>2. PICK k, v : k = job[y] /\ v = plan[y] OBVIOUS
    <3>3. Kept(k, v)' BY <1>14, <3>1, <3>2
    <3>4. y \in Refreshing' \ overtaken' /\ job'[y] = k /\ plan'[y] = v
      BY <1>5, <1>9, <3>1, <3>2 DEF Refreshing
    <3> QED BY <3>3, <3>4 DEF Linked
  <2>4. CASE w \notin overtaken /\ Kept(job[w], plan[w])
    <3>1. PICK E : E = Present \cap X OBVIOUS
    <3>2. Chained(Fixed(p)) BY <1>1, <1>5, <2>4 DEF Kept
    <3>3. Chained(Phases \ E) BY <1>3, <3>1, <3>2, RefreshChains
    <3>4. PICK S : S = Phases \ E OBVIOUS
    <3>5. Chained(S)' BY <1>14, <3>3, <3>4
    <3>6. S = Phases \ DOMAIN plan'[w].dates BY <1>9, <1>10, <3>1, <3>4
    <3>7. Kept(job[w], plan[w])' BY <1>9, <3>5, <3>6 DEF Kept
    <3> QED BY <1>5, <1>17, <2>4, <3>7 DEF Linked
  <2> QED BY <1>18, <2>1, <2>2, <2>3, <2>4 DEF Linked
<1> QED BY <1>5, <1>11, <1>16, <1>18 DEF DInv, InChain

\* One write of a refresh: the phase written joins those that are chained.
LEMMA OneWritten ==
  ASSUME IInv, orderIndex \in [Phases -> Nat], Separate,
         NEW start, start = schedule.startDate, start \in Nat,
         NEW t \in [Present -> Span], Chain(dates, t, Present, start),
         NEW x \in Present, NEW r, DOMAIN r = {x}, r[x] = t[x],
         dates' = Set(dates, r), UNCHANGED <<status, orderIndex, schedule>>
  PROVE  /\ Chain(dates, t, Present, schedule.startDate)'
         /\ \A S : Chained(S) => Chained(S \cup {x})'
<1>1. Present' = Present /\ dates \in DateTables /\ Spans(r)
      /\ Present \subseteq Phases
  BY DatesTyped, PresentFinite DEF Present, Spans
<1>2. ASSUME NEW q \in Present
      PROVE  /\ dates'[q] \in PhaseDates /\ dates[q] \in PhaseDates
             /\ dates'[q].datesPinned = dates[q].datesPinned
             /\ dates'[q].durationWeeks = dates[q].durationWeeks
             /\ q # x => dates'[q] = dates[q]
             /\ q = x => /\ dates'[q].startDate = t[q].startDate
                         /\ dates'[q].endDate = t[q].endDate
  <2>1. q \in Phases BY <1>1
  <2>2. dates' \in DateTables BY <1>1, SetDates
  <2> QED BY <1>1, <2>1, <2>2, SetDates DEF DateTables
<1>3. ASSUME NEW q \in Present, NEW from \in Nat, t[q] = Scheduled(dates[q], from)
      PROVE  t[q] = Scheduled(dates'[q], from)
  BY <1>2, <1>3, Rescheduled
<1>4. /\ \A p, q : Adjacent(p, q)' <=> Adjacent(p, q)
      /\ \A p, q : Before(p, q)' <=> Before(p, q)
  BY <1>1 DEF Adjacent, Before
<1>5. Chain(dates, t, Present, schedule.startDate)'
  <2>1. SUFFICES ASSUME NEW q \in Present
        PROVE  \/ (\A p \in Present : ~Before(p, q)) /\ t[q] = Scheduled(dates'[q], start)
               \/ \E p \in Present : Adjacent(p, q)
                                     /\ t[q] = Scheduled(dates'[q], t[p].endDate)
    BY <1>1, <1>4 DEF Chain
  <2>2. \A p \in Present : t[p].endDate \in Nat BY DEF Span
  <2> QED BY <1>3, <2>2 DEF Chain
<1>6. ASSUME NEW S, Chained(S) PROVE Chained(S \cup {x})'
  <2>1. PICK D \in SUBSET Present : \E u \in [D -> Span] :
          /\ Closed(D) /\ Chain(dates, u, D, schedule.startDate)
          /\ \A q \in Dated \cap S : q \in D /\ u[q] = SpanOf(dates[q])
    BY <1>6, ChainedMeans
  <2>2. PICK u \in [D -> Span] :
          /\ Closed(D) /\ Chain(dates, u, D, start)
          /\ \A q \in Dated \cap S : q \in D /\ u[q] = SpanOf(dates[q])
    BY <2>1
  <2>3. \A q \in D : u[q] = t[q] BY <2>2, ChainsAgree
  <2>4. ASSUME NEW q \in Dated', q \in S \cup {x}
        PROVE  q \in Present' /\ t[q] = SpanOf(dates'[q])
    <3>1. q \in Present BY <1>1, <2>4 DEF Dated
    <3>2. CASE q = x BY <1>1, <1>2, <3>1, <3>2 DEF SpanOf, Span
    <3>3. CASE q # x
      <4>1. q \in Dated \cap S BY <1>2, <2>4, <3>1, <3>3 DEF Dated
      <4> QED BY <1>1, <1>2, <2>2, <2>3, <3>1, <3>3, <4>1
    <3> QED BY <3>2, <3>3
  <2>5. Closed(Present)' BY DEF Closed
  <2>6. t \in [Present' -> Span] BY <1>1
  <2>7. PICK E : E = Present' OBVIOUS
  <2>8. E \in SUBSET Present' /\ t \in [E -> Span] BY <2>6, <2>7
  <2>9. Closed(E)' /\ Chain(dates, t, E, schedule.startDate)'
    BY <1>1, <1>5, <2>5, <2>7 DEF Closed, Chain
  <2>10. \A q \in Dated' \cap (S \cup {x}) : q \in E /\ t[q] = SpanOf(dates'[q])
    BY <2>4, <2>7
  <2> QED BY <2>8, <2>9, <2>10, ChainedBy
<1> QED BY <1>5, <1>6

LEMMA RefreshWriteDInv ==
  ASSUME IInv, DInv, NEW w \in Workers, RefreshWrite(w)
  PROVE  DInv'
<1>1. /\ job[w].op = "redate" /\ job' = job /\ OvertakeOthers(w)
      /\ UNCHANGED <<timeline, status, orderIndex, schedule, late, edited, shifted>>
  BY DEF RefreshWrite
<1>2. PICK old : old = plan[w].dates OBVIOUS
<1>3. PICK x \in DOMAIN old \cap Present :
        /\ dates' = Set(dates, Only(old, {x}))
        /\ plan' = [plan EXCEPT ![w] = [startDate |-> plan[w].startDate,
                                        dates |-> Only(old, DOMAIN old \ {x})]]
  BY <1>2 DEF RefreshWrite
<1>4. PICK new : new = [startDate |-> plan[w].startDate,
                        dates |-> Only(old, DOMAIN old \ {x})]
  OBVIOUS
<1>5. /\ plan'[w] = new
      /\ \A y \in Workers : y # w => job'[y] = job[y] /\ plan'[y] = plan[y]
  BY <1>1, <1>3, <1>4 DEF IInv, Plans
<1>6. /\ DOMAIN new.dates = DOMAIN old \ {x}
      /\ \A q \in DOMAIN old \ {x} : new.dates[q] = old[q]
  BY <1>4 DEF Only
<1>7. PICK r : r = Only(old, {x}) OBVIOUS
<1>8. DOMAIN r = {x} /\ r[x] = old[x] /\ dates' = Set(dates, r)
  BY <1>3, <1>7 DEF Only
<1>9. Clear' <=> Clear BY <1>1 DEF Clear
<1>10. Present' = Present /\ job[w] # NoJob BY <1>1 DEF Present, NoJob
<1>11. overtaken' = {y \in Workers : \/ y \in overtaken
                                     \/ y # w /\ ~Idle(y) /\ Overtakes(y)}
  BY <1>1 DEF OvertakeOthers
<1>12. w \in overtaken' <=> w \in overtaken BY <1>11
<1>13. ASSUME Clear, w \notin overtaken
       PROVE  /\ Follows(plan[w])'
              /\ \A S : Chained(S) => Chained(S \cup {x})'
  <2>1. Follows(plan[w]) BY <1>1, <1>10, <1>13 DEF DInv, Informed, Based
  <2>2. PICK start : start = schedule.startDate OBVIOUS
  <2>3. PICK t \in [Present -> Span] :
          /\ Chain(dates, t, Present, start)
          /\ \A q \in DOMAIN old \cap Present : old[q] = t[q]
    BY <1>2, <2>1, <2>2 DEF Follows
  <2>4. Separate /\ orderIndex \in [Phases -> Nat] BY <1>13, ClearPhases
  <2>5. start \in Nat BY <1>13, <2>2 DEF DInv, InChain
  <2>6. r[x] = t[x] BY <1>8, <2>3
  <2>7. UNCHANGED <<status, orderIndex, schedule>> BY <1>1
  <2>8. /\ Chain(dates, t, Present, schedule.startDate)'
        /\ \A S : Chained(S) => Chained(S \cup {x})'
    BY <1>8, <2>2, <2>3, <2>4, <2>5, <2>6, <2>7, OneWritten
  <2>9. \A q \in DOMAIN new.dates \cap Present' : new.dates[q] = t[q]
    BY <1>6, <1>10, <2>3
  <2>10. t \in [Present' -> Span] BY <1>10
  <2>11. Follows(plan[w])' BY <1>5, <2>8, <2>9, <2>10 DEF Follows
  <2> QED BY <2>8, <2>11
<1>14. \A y \in Workers :
         y # w /\ job'[y] # NoJob /\ y \notin overtaken' => Based(job[y], plan[y])'
  BY <1>1, <1>5, <1>9, OthersBased DEF DInv
<1>15. w \notin overtaken => Based(job[w], plan[w])' BY <1>1, <1>9, <1>13 DEF Based
<1>16. Informed' BY <1>12, <1>14, <1>15 DEF Informed
<1>17. \A y : y \in Refreshing' <=> y \in Refreshing BY <1>1 DEF Refreshing
<1>18. ASSUME Clear' PROVE Linked'
  <2>1. Linked BY <1>9, <1>18 DEF DInv, InChain
  <2>2. CASE \E y \in Refreshing : y \in overtaken'
    BY <1>17, <2>2 DEF Linked
  <2>3. CASE ~\E y \in Refreshing : y \in overtaken'
    <3>1. w \in Refreshing BY <1>1 DEF Refreshing
    <3>2. w \notin overtaken BY <1>12, <2>3, <3>1
    <3>3. \A S : Chained(S) => Chained(S \cup {x})' BY <1>9, <1>13, <1>18, <3>2
    <3>4. Refreshing \cap overtaken = {} BY <1>11, <2>3 DEF Refreshing
    <3>5. CASE Chained(Phases)
      <4>1. Phases \cup {x} = Phases BY <1>3, PresentFinite
      <4> QED BY <3>3, <3>5, <4>1 DEF Linked
    <3>6. CASE Kept(job[w], plan[w])
      <4>1. Chained(Phases \ DOMAIN old) BY <1>1, <1>2, <3>6 DEF Kept
      <4>2. PICK S : S = Phases \ DOMAIN old OBVIOUS
      <4>3. Chained(S \cup {x})' BY <3>3, <4>1, <4>2
      <4>4. S \cup {x} = Phases \ DOMAIN plan'[w].dates
        BY <1>3, <1>5, <1>6, <4>2, PresentFinite
      <4>5. Kept(job[w], plan[w])' BY <1>1, <4>3, <4>4 DEF Kept
      <4> QED BY <1>12, <1>17, <3>1, <3>2, <4>5 DEF Linked
    <3>7. CASE \E y \in Refreshing \ overtaken : y # w /\ Kept(job[y], plan[y])
      <4>1. PICK y \in Refreshing \ overtaken : y # w /\ Kept(job[y], plan[y])
        BY <3>7
      <4>2. y \in Workers /\ ~Idle(y) /\ job[y].op \in {"refresh", "redate"}
        BY <4>1 DEF Refreshing, Idle, NoJob
      <4>3. ~Overtakes(y) /\ y \notin overtaken' BY <1>11, <2>3, <4>1, <4>2
      <4>4. rows' = rows BY <4>2, <4>3 DEF Overtakes
      <4>5. PICK k, v : k = job[y] /\ v = plan[y] OBVIOUS
      <4>6. UNCHANGED <<status, orderIndex, dates, schedule>> BY <4>4 DEF rows
      <4>7. Kept(k, v)' BY <4>1, <4>5, <4>6, ChainedSame
      <4>8. y \in Refreshing' \ overtaken' /\ job'[y] = k /\ plan'[y] = v
        BY <1>5, <1>17, <4>1, <4>2, <4>3, <4>5
      <4> QED BY <4>7, <4>8 DEF Linked
    <3> QED BY <2>1, <3>4, <3>5, <3>6, <3>7 DEF Linked
  <2> QED BY <2>2, <2>3
<1> QED BY <1>1, <1>9, <1>16, <1>18 DEF DInv, InChain

\* So the dates are chained once the last refresh is done, and the claim stays
\* open while another one is under way.
LEMMA RefreshEndDInv ==
  ASSUME IInv, DInv, NEW w \in Workers, RefreshEnd(w)
  PROVE  DInv'
<1>1. /\ job[w].op = "redate" /\ Done(w) /\ Overtake(w)
      /\ DOMAIN plan[w].dates = {} /\ rows' = rows
      /\ UNCHANGED <<timeline, status, orderIndex, schedule, dates, edited, shifted>>
      /\ job' = [job EXCEPT ![w] = NoJob] /\ plan' = [plan EXCEPT ![w] = NoPlan]
  BY DEF RefreshEnd, Done, rows
<1>2. /\ job'[w] = NoJob
      /\ \A y \in Workers : y # w => job'[y] = job[y] /\ plan'[y] = plan[y]
  BY <1>1 DEF IInv, TypeOK, Plans
<1>3. late' = IF w \in overtaken THEN late \cup {job[w].op} ELSE late BY <1>1 DEF Done
<1>4. job[w] # NoJob /\ ~ResetWrite(w) BY <1>1 DEF NoJob, ResetWrite
<1>5. ASSUME Clear' PROVE Clear /\ w \notin overtaken
  <2>1. late = {} /\ w \notin overtaken BY <1>3, <1>4, <1>5, WriteClear
  <2> QED BY <1>1, <1>5, <2>1 DEF Clear
<1>6. Informed' BY <1>1, <1>2, <1>5, OthersBased DEF DInv, Informed
<1>7. /\ Chained(Phases) => Chained(Phases)'
      /\ \A k, x : Kept(k, x) => Kept(k, x)'
  BY <1>1, ChainedSame
<1>8. ASSUME Clear' PROVE Linked'
  <2>1. Linked BY <1>5, <1>8 DEF DInv, InChain
  <2>2. ASSUME NEW y \in Refreshing, y # w
        PROVE  /\ y \in Refreshing' /\ job'[y] = job[y] /\ plan'[y] = plan[y]
               /\ y \in overtaken => y \in overtaken'
               /\ y \notin overtaken => y \notin overtaken'
    <3>1. y \in Workers /\ job[y] # NoJob /\ job[y].op \in {"refresh", "redate"}
      BY <2>2 DEF Refreshing, NoJob
    <3>2. ~Overtakes(y) BY <1>1, <3>1 DEF Overtakes
    <3> QED BY <1>1, <1>2, <2>2, <3>1, <3>2 DEF Refreshing, Overtake, Idle
  <2>3. CASE \E y \in Refreshing : y \in overtaken
    <3>1. PICK y \in Refreshing : y \in overtaken BY <2>3
    <3>2. y \in Refreshing' /\ y \in overtaken' BY <1>5, <1>8, <2>2, <3>1
    <3> QED BY <3>2 DEF Linked
  <2>4. CASE Chained(Phases) BY <1>7, <2>4 DEF Linked
  <2>5. CASE Kept(job[w], plan[w])
    <3>1. Chained(Phases \ DOMAIN plan[w].dates) BY <1>1, <2>5 DEF Kept
    <3>2. Phases \ DOMAIN plan[w].dates = Phases BY <1>1
    <3>3. Chained(Phases) BY <3>1, <3>2
    <3> QED BY <1>7, <3>3 DEF Linked
  <2>6. CASE \E y \in Refreshing \ overtaken : y # w /\ Kept(job[y], plan[y])
    <3>1. PICK y \in Refreshing \ overtaken : y # w /\ Kept(job[y], plan[y]) BY <2>6
    <3>2. PICK k, x : k = job[y] /\ x = plan[y] OBVIOUS
    <3>3. Kept(k, x)' BY <1>7, <3>1, <3>2
    <3>4. y \in Refreshing' \ overtaken' /\ job'[y] = k /\ plan'[y] = x
      BY <2>2, <3>1, <3>2
    <3> QED BY <3>3, <3>4 DEF Linked
  <2> QED BY <2>1, <2>3, <2>4, <2>5, <2>6 DEF Linked
<1> QED BY <1>1, <1>5, <1>6, <1>8 DEF DInv, InChain

-----------------------------------------------------------------------------
LEMMA WriteDInv ==
  ASSUME IInv, DInv, NEW w \in Workers, Write(w)
  PROVE  DInv'
<1>1. CASE ActivateWrite(w) BY <1>1, ActivateDInv
<1>2. CASE PauseWrite(w) \/ ResumeWrite(w) \/ UnlockWrite(w) \/ ReopenWrite(w)
  BY <1>2, LifeDInv
<1>3. CASE ResetWrite(w) BY <1>3, ResetDInv
<1>4. CASE CompleteWrite(w) BY <1>4, CompleteDInv
<1>5. CASE UpdateWrite(w) BY <1>5, UpdateDInv
<1>6. CASE RefreshRead(w) \/ RefreshWrite(w) \/ RefreshEnd(w)
  BY <1>6, RefreshReadDInv, RefreshWriteDInv, RefreshEndDInv
<1>7. CASE RemoveWrite(w) BY <1>7, RemoveDInv
<1> QED BY <1>1, <1>2, <1>3, <1>4, <1>5, <1>6, <1>7 DEF Write

LEMMA InitDInv == Init => DInv
<1> SUFFICES ASSUME Init PROVE DInv OBVIOUS
<1>1. timeline.status = "DRAFT" /\ job = [w \in Workers |-> NoJob] BY DEF Init
<1>2. ~Clear BY <1>1 DEF Clear
<1>3. Informed BY <1>1 DEF Informed
<1> QED BY <1>2, <1>3 DEF DInv, InChain

LEMMA NextDInv == IInv /\ DInv /\ [Next]_vars => DInv'
<1> SUFFICES ASSUME IInv, DInv, [Next]_vars PROVE DInv' OBVIOUS
<1>1. ASSUME NEW w \in Workers, Read(w) PROVE DInv' BY <1>1, ReadDInv
<1>2. ASSUME NEW w \in Workers, Write(w) PROVE DInv' BY <1>2, WriteDInv
<1>3. ASSUME NEW w \in Workers, Abandon(w) PROVE DInv' BY <1>3, AbandonDInv
<1>4. ASSUME NEW p \in Phases, NEW index \in 0..Cardinality(Phases),
             NEW weeks \in Durations, AddPhase(p, index, weeks)
      PROVE  DInv'
  BY <1>4, AddPhaseDInv
<1>5. CASE Tick \/ UNCHANGED vars
  <2>1. UNCHANGED <<rows, job, plan, overtaken, late, edited, shifted>>
    BY <1>5 DEF Tick, vars
  <2> QED BY <2>1, IdleDInv
<1> QED BY <1>1, <1>2, <1>3, <1>4, <1>5 DEF Next

LEMMA DInvChains == IInv /\ DInv => DatesChained
<1> SUFFICES ASSUME IInv, DInv, Clear,
                    \A w \in Workers : job[w].op \notin {"refresh", "redate"},
                    NEW p \in Present, NEW q \in Present, Adjacent(p, q),
                    dates[p].startDate # None, dates[p].endDate # None,
                    dates[q].startDate # None, ~dates[q].datesPinned
             PROVE  dates[q].startDate = dates[p].endDate
  BY DEF DatesChained, Clear, Adjacent
<1>1. Refreshing = {} BY DEF Refreshing
<1>2. Chained(Phases) BY <1>1 DEF DInv, InChain, Linked
<1>3. PICK D \in SUBSET Present : \E r \in [D -> Span] :
        /\ Closed(D) /\ Chain(dates, r, D, schedule.startDate)
        /\ \A x \in Dated \cap Phases : x \in D /\ r[x] = SpanOf(dates[x])
  BY <1>2, ChainedMeans
<1>4. PICK r \in [D -> Span] :
        /\ Closed(D) /\ Chain(dates, r, D, schedule.startDate)
        /\ \A x \in Dated : x \in D /\ r[x] = SpanOf(dates[x])
  BY <1>3, PresentFinite DEF Dated
<1>5. Separate /\ \A x \in Present : orderIndex[x] \in Nat BY ClearPhases
<1>6. q \in D /\ r[q] = SpanOf(dates[q]) /\ p \in D
  BY <1>4 DEF Dated, Closed, Adjacent
<1>7. PICK x \in Present : Adjacent(x, q) /\ r[q] = Scheduled(dates[q], r[x].endDate)
  BY <1>4, <1>6 DEF Chain, Adjacent
<1>8. x = p BY <1>5, <1>7 DEF Adjacent, Before, Separate
<1>9. dates[q].startDate = r[p].endDate
  BY <1>6, <1>7, <1>8 DEF Scheduled, Anchored, SpanOf
<1>10. r[p].endDate = dates[p].endDate
  <2>1. CASE dates[p].datesPinned
    <3>1. \A from : Scheduled(dates[p], from) = SpanOf(dates[p])
      BY <2>1 DEF Scheduled, Anchored, SpanOf
    <3> QED BY <1>4, <1>6, <3>1 DEF Chain, SpanOf
  <2>2. CASE ~dates[p].datesPinned
    <3>1. p \in Dated BY <2>2 DEF Dated
    <3>2. r[p] = SpanOf(dates[p]) BY <1>4, <3>1
    <3> QED BY <3>2 DEF SpanOf
  <2> QED BY <2>1, <2>2
<1> QED BY <1>9, <1>10

LEMMA AlwaysDInv == Spec => [](IInv /\ DInv)
<1>1. Init => IInv /\ DInv BY InitInv, InitDInv
<1>2. IInv /\ DInv /\ [Next]_vars => (IInv /\ DInv)' BY NextInv, NextDInv
<1> QED BY <1>1, <1>2, PTL DEF Spec

\* A phase whose dates are not pinned starts when the one before it ends, for
\* any number of phases and of requests at once, whatever a request read before
\* the others wrote, as long as none of them wrote what it should not have, and
\* after every recalculation (recalculatePhaseDates) and update of a phase.
THEOREM DatesStayChained == Spec => []DatesChained
<1>1. IInv /\ DInv => DatesChained BY DInvChains
<1> QED BY <1>1, AlwaysDInv, PTL
=============================================================================
