------------------------ MODULE PolicyApproval_proofs ------------------------
(***************************************************************************)
(* Proofs about PolicyApproval, for any versions, contents, people and     *)
(* requests.                                                               *)
(***************************************************************************)
EXTENDS PolicyApproval, TLAPS

USE NullsAssumption, BoundAssumption

Version == Contents \cup {None, Gone}

\* What a version can be pointed to by: the current version exists (a foreign
\* key), pending and submitted ones have existed.
Refs ==
  /\ policy.current # None => Exists(policy.current)
  /\ policy.pending # None => versions[policy.pending] # None
  /\ \A w \in Workers : job[w].op = "submit" => versions[job[w].version] # None

\* What request j decided upon, as long as it is not overtaken.
Decided(j) ==
  /\ j.op = "patch" =>
       /\ j.content # None => policy.status = "draft"
       /\ j.clear <=> (j.status = "published" /\ policy.status # "published")
  /\ j.op = "review" => policy.status = "published"
  /\ j.op = "edit" => /\ j.version # policy.pending
                      /\ j.version = policy.current => policy.status = "draft"
  /\ j.op = "delete" => /\ Exists(j.version)
                        /\ j.version # policy.current /\ j.version # policy.pending
  /\ j.op = "submit" => Exists(j.version)
  /\ j.op = "publish" => policy.pending = None \/ policy.approver = None
  /\ j.op = "deny" /\ j.status = "draft" => ~policy.everPublished
  /\ j.op \in {"view", "complete"} => policy.status = "published" /\ j.content = InForce
  /\ j.op = "complete" => j.signed = policy.signed \cup {j.who}

UpToDate ==
  \A w \in Workers : job[w] # NoJob /\ w \notin overtaken => Decided(job[w])

\* An approver can only be found alone after a PATCH.
Heals == \A w \in Workers : job[w].op = "heal" => patched

\* A denial publishes only what was published before.
Denials ==
  \A w \in Workers :
    job[w].op = "deny" /\ job[w].status = "published" => policy.everPublished

\* Signatures wait out a review, and there are none on a draft that a denial
\* could publish.
Signatures ==
  ~tainted =>
    /\ \/ policy.status = "published"
       \/ policy.status = "needs_review" /\ policy.everPublished
       => \A e \in policy.signed : signedFor[e] = InForce
    /\ policy.status = "draft" /\ policy.everPublished => policy.signed = {}

IInv ==
  /\ TypeOK /\ Refs /\ UpToDate /\ Heals /\ Denials
  /\ ApprovalFieldsTogether /\ VersionsKept /\ Signatures

-----------------------------------------------------------------------------
(* Jobs and writes *)

\* The fields of a job, by its operation.
LEMMA JobFields ==
  ASSUME NEW j \in Jobs
  PROVE  /\ j.op = "patch" =>
              /\ j.status \in Statuses \cup {None} /\ j.content \in Contents \cup {None}
              /\ j.approver \in Approvers \cup {None, "keep"} /\ j.clear \in BOOLEAN
         /\ j.op = "create" => j.content \in Contents
         /\ j.op \in {"edit", "activate", "accept"} =>
              j.version \in Ids /\ j.content \in Contents
         /\ j.op = "delete" => j.version \in Ids
         /\ j.op = "publish" => j.active \in BOOLEAN /\ j.content \in Contents
         /\ j.op = "submit" => j.version \in Ids /\ j.approver \in Approvers
         /\ j.op = "deny" => j.status \in {"draft", "published"}
         /\ j.op = "regenerate" => j.content \in Contents /\ j.replace \in BOOLEAN
         /\ j.op = "view" => j.who \in Employees /\ j.content \in Contents
         /\ j.op = "complete" => /\ j.who \in Employees /\ j.content \in Contents
                                 /\ j.signed \in SUBSET Employees
BY DEF Jobs

LEMMA NoJobIsJob == NoJob \in Jobs /\ NoJob.op = "none"
BY DEF Jobs, NoJob

\* A write is well typed, ends its request only, and leaves those up to date
\* whose decision it does not touch.
LEMMA CommitInv ==
  ASSUME TypeOK, Refs, UpToDate, NEW w \in Workers, NEW p \in Policy,
         NEW vs \in [Ids -> Version], Commit(w, p, vs)
  PROVE  /\ policy' = p /\ versions' = vs /\ begun' = begun
         /\ job' \in [Workers -> Jobs] /\ job'[w] = NoJob
         /\ \A x \in Workers : x # w => job'[x] = job[x]
         /\ overtaken' \subseteq Workers /\ \A x \in overtaken' : job'[x] # NoJob
         /\ UpToDate'
<1>1. /\ policy' = p /\ versions' = vs /\ begun' = begun
      /\ job' = [job EXCEPT ![w] = NoJob]
      /\ overtaken' = {x \in Workers \ {w} :
                         ~Idle(x) /\ (x \in overtaken \/ Overtakes(p, vs, x))}
  BY DEF Commit
<1>2. /\ job' \in [Workers -> Jobs] /\ job'[w] = NoJob
      /\ \A x \in Workers : x # w => job'[x] = job[x]
  BY <1>1, NoJobIsJob DEF TypeOK
<1>3. overtaken' \subseteq Workers /\ \A x \in overtaken' : job'[x] # NoJob
  BY <1>1, <1>2 DEF Idle
<1>4. ASSUME NEW x \in Workers, job'[x] # NoJob, x \notin overtaken'
      PROVE  Decided(job[x])'
  <2>1. x # w /\ job'[x] = job[x] /\ job[x] # NoJob BY <1>2, <1>4
  <2>2. x \notin overtaken /\ ~Overtakes(p, vs, x) BY <1>1, <1>4, <2>1 DEF Idle
  <2>3. Decided(job[x]) BY <2>1, <2>2 DEF UpToDate
  <2>4. \A v \in Ids : versions[v] # None => vs[v] = versions[v]
    BY <2>2 DEF Overtakes
  <2>5. /\ p.status = policy.status /\ p.current = policy.current
        /\ p.pending = policy.pending /\ p.approver = policy.approver
        /\ p.content = policy.content /\ p.everPublished = policy.everPublished
        /\ job[x].op = "complete" => p.signed = policy.signed
    <3>1. CASE job[x].op = "complete" BY <2>2, <3>1 DEF Overtakes
    <3>2. CASE job[x].op # "complete"
      <4>1. [p EXCEPT !.signed = policy.signed] = policy
        BY <2>2, <3>2 DEF Overtakes
      <4>2. /\ [p EXCEPT !.signed = policy.signed].status = p.status
            /\ [p EXCEPT !.signed = policy.signed].current = p.current
            /\ [p EXCEPT !.signed = policy.signed].pending = p.pending
            /\ [p EXCEPT !.signed = policy.signed].approver = p.approver
            /\ [p EXCEPT !.signed = policy.signed].content = p.content
            /\ [p EXCEPT !.signed = policy.signed].everPublished = p.everPublished
        BY DEF Policy
      <4> QED BY <3>2, <4>1, <4>2
    <3> QED BY <3>1, <3>2
  <2>6. InForce' = InForce
    <3>1. policy.current \in Ids \cup {None} BY DEF TypeOK, Policy
    <3>2. policy.current # None => vs[policy.current] = versions[policy.current]
      BY <2>4, <3>1 DEF Refs, Exists
    <3> QED BY <1>1, <2>5, <3>2 DEF InForce, Shown
  <2>7. \A v \in Ids : Exists(v) => Exists(v)' BY <1>1, <2>4 DEF Exists
  <2>8. job[x] \in Jobs BY DEF TypeOK
  <2>9. (job[x].op \in {"delete", "submit"}) => job[x].version \in Ids
    BY <2>8, JobFields
  <2> QED
    BY <1>1, <2>1, <2>3, <2>5, <2>6, <2>7, <2>9 DEF Decided
<1>5. UpToDate' BY <1>4, <1>2 DEF UpToDate
<1> QED BY <1>1, <1>2, <1>3, <1>5

-----------------------------------------------------------------------------
(* Reads *)

\* A read keeps the invariant if the request is well formed and what it
\* decided upon is so.
LEMMA NoteInv ==
  ASSUME IInv, NEW w \in Workers, NEW j \in Jobs, Note(w, j), j # NoJob, Decided(j),
         j.op = "submit" => versions[j.version] # None,
         j.op = "heal" => patched,
         j.op = "deny" /\ j.status = "published" => policy.everPublished
  PROVE  IInv'
<1>1. /\ job[w] = NoJob /\ job' = [job EXCEPT ![w] = j]
      /\ begun < MaxRequests /\ begun' = begun + 1
      /\ UNCHANGED <<policy, versions, overtaken, signedFor, tainted, patched, dangling>>
  BY DEF Note, Idle, history
<1>2. job' \in [Workers -> Jobs] /\ job'[w] = j /\ \A x \in Workers \ {w} : job'[x] = job[x]
  BY <1>1 DEF IInv, TypeOK
<1>3. TypeOK'
  <2>1. begun' \in 0..MaxRequests BY <1>1 DEF IInv, TypeOK
  <2>2. \A x \in overtaken' : job'[x] # NoJob
    BY <1>1, <1>2 DEF IInv, TypeOK, Idle
  <2> QED BY <1>1, <1>2, <2>1, <2>2 DEF IInv, TypeOK, Idle
<1>4. Refs' BY <1>1, <1>2 DEF IInv, Refs, Exists
<1>5. UpToDate'
  <2>1. \A k : Decided(k)' <=> Decided(k) BY <1>1 DEF Decided, Exists, InForce, Shown
  <2> QED BY <1>1, <1>2, <2>1 DEF IInv, UpToDate
<1>6. Heals' /\ Denials' BY <1>1, <1>2 DEF IInv, Heals, Denials
<1>7. ApprovalFieldsTogether' /\ VersionsKept' /\ Signatures'
  BY <1>1 DEF IInv, ApprovalFieldsTogether, VersionsKept, Signatures, Exists, InForce, Shown
<1> QED BY <1>3, <1>4, <1>5, <1>6, <1>7 DEF IInv

LEMMA PatchReadInv ==
  ASSUME IInv, NEW w \in Workers, NEW s \in Statuses \cup {None},
         NEW c \in Contents \cup {None}, NEW a \in Approvers \cup {None, "keep"},
         PatchRead(w, s, c, a)
  PROVE  IInv'
<1> DEFINE j == [op |-> "patch", status |-> s, content |-> c, approver |-> a,
                 clear |-> Clears(s)]
<1>1. Note(w, j) /\ (c # None => policy.status = "draft") BY DEF PatchRead
<1>2. Clears(s) \in BOOLEAN /\ (Clears(s) <=> s = "published" /\ policy.status # "published")
  BY DEF Clears
<1>3. j \in Jobs BY <1>2 DEF Jobs
<1>4. j # NoJob BY DEF NoJob
<1>5. Decided(j) BY <1>1, <1>2 DEF Decided
<1> QED BY <1>1, <1>3, <1>4, <1>5, NoteInv

LEMMA PlainReadInv ==
  ASSUME IInv, NEW w \in Workers, PublishAllRead(w) \/ ReviewRead(w) \/ HealRead(w)
  PROVE  IInv'
<1>1. CASE PublishAllRead(w)
  <2> DEFINE j == [op |-> "publish_all"]
  <2>1. Note(w, j) BY <1>1 DEF PublishAllRead
  <2>2. j \in Jobs /\ j # NoJob /\ Decided(j) BY DEF Jobs, NoJob, Decided
  <2> QED BY <2>1, <2>2, NoteInv
<1>2. CASE ReviewRead(w)
  <2> DEFINE j == [op |-> "review"]
  <2>1. Note(w, j) /\ policy.status = "published" BY <1>2 DEF ReviewRead
  <2>2. j \in Jobs /\ j # NoJob /\ Decided(j) BY <2>1 DEF Jobs, NoJob, Decided
  <2> QED BY <2>1, <2>2, NoteInv
<1>3. CASE HealRead(w)
  <2> DEFINE j == [op |-> "heal"]
  <2>1. Note(w, j) /\ policy.pending = None /\ policy.approver # None
    BY <1>3 DEF HealRead
  <2>2. j \in Jobs /\ j # NoJob /\ Decided(j) BY DEF Jobs, NoJob, Decided
  <2>3. patched BY <2>1 DEF IInv, ApprovalFieldsTogether, TypeOK
  <2> QED BY <2>1, <2>2, <2>3, NoteInv
<1> QED BY <1>1, <1>2, <1>3

LEMMA CreateReadInv ==
  ASSUME IInv, NEW w \in Workers, CreateRead(w)
  PROVE  IInv'
<1>1. PICK c \in {versions[v] : v \in {i \in Ids : Exists(i)}}
                   \cup (IF policy.current = None THEN {policy.content} ELSE {}) :
        Note(w, [op |-> "create", content |-> c])
  BY DEF CreateRead
<1> DEFINE j == [op |-> "create", content |-> c]
<1>2. c \in Contents BY <1>1 DEF Exists, IInv, TypeOK, Policy
<1>3. j \in Jobs /\ j # NoJob /\ Decided(j) BY <1>2 DEF Jobs, NoJob, Decided
<1> QED BY <1>1, <1>3, NoteInv

LEMMA EditReadInv ==
  ASSUME IInv, NEW w \in Workers, NEW v \in Ids, NEW c \in Contents, EditRead(w, v, c)
  PROVE  IInv'
<1> DEFINE j == [op |-> "edit", version |-> v, content |-> c]
<1>1. Note(w, j) /\ Editable(v) BY DEF EditRead
<1>2. j \in Jobs /\ j # NoJob /\ Decided(j)
  BY <1>1 DEF Jobs, NoJob, Decided, Editable
<1> QED BY <1>1, <1>2, NoteInv

LEMMA DeleteReadInv ==
  ASSUME IInv, NEW w \in Workers, NEW v \in Ids, DeleteRead(w, v)
  PROVE  IInv'
<1> DEFINE j == [op |-> "delete", version |-> v]
<1>1. Note(w, j) /\ Deletable(v) /\ Exists(v) BY DEF DeleteRead
<1>2. j \in Jobs /\ j # NoJob /\ Decided(j)
  BY <1>1 DEF Jobs, NoJob, Decided, Deletable
<1> QED BY <1>1, <1>2, NoteInv

LEMMA ActivateReadInv ==
  ASSUME IInv, NEW w \in Workers, NEW v \in Ids, ActivateRead(w, v)
  PROVE  IInv'
<1> DEFINE j == [op |-> "activate", version |-> v, content |-> versions[v]]
<1>1. Note(w, j) /\ Exists(v) BY DEF ActivateRead
<1>2. j \in Jobs BY <1>1 DEF Jobs, Exists
<1>3. j # NoJob /\ Decided(j) BY DEF NoJob, Decided
<1> QED BY <1>1, <1>2, <1>3, NoteInv

LEMMA PublishReadInv ==
  ASSUME IInv, NEW w \in Workers, NEW active \in BOOLEAN, NEW c \in Contents,
         PublishRead(w, active, c)
  PROVE  IInv'
<1> DEFINE j == [op |-> "publish", active |-> active, content |-> c]
<1>1. Note(w, j) /\ (policy.pending = None \/ policy.approver = None)
  BY DEF PublishRead, Publishable
<1>2. j \in Jobs /\ j # NoJob /\ Decided(j) BY <1>1 DEF Jobs, NoJob, Decided
<1> QED BY <1>1, <1>2, NoteInv

LEMMA SubmitReadInv ==
  ASSUME IInv, NEW w \in Workers, NEW v \in Ids, NEW a \in Approvers, SubmitRead(w, v, a)
  PROVE  IInv'
<1> DEFINE j == [op |-> "submit", version |-> v, approver |-> a]
<1>1. Note(w, j) /\ Exists(v) BY DEF SubmitRead
<1>2. j \in Jobs /\ j # NoJob /\ Decided(j) BY <1>1 DEF Jobs, NoJob, Decided
<1>3. versions[v] # None BY <1>1 DEF Exists
<1> QED BY <1>1, <1>2, <1>3, NoteInv

LEMMA AcceptReadInv ==
  ASSUME IInv, NEW w \in Workers, NEW a \in Approvers, AcceptRead(w, a)
  PROVE  IInv'
<1> DEFINE j == [op |-> "accept", version |-> policy.pending,
                 content |-> versions[policy.pending]]
<1>1. Note(w, j) /\ Exists(policy.pending) BY DEF AcceptRead
<1>2. policy.pending \in Ids /\ versions[policy.pending] \in Contents
  BY <1>1 DEF IInv, TypeOK, Policy, Exists
<1>3. j \in Jobs /\ j # NoJob /\ Decided(j) BY <1>2 DEF Jobs, NoJob, Decided
<1> QED BY <1>1, <1>3, NoteInv

LEMMA DenyReadInv ==
  ASSUME IInv, NEW w \in Workers, NEW a \in Approvers, DenyRead(w, a)
  PROVE  IInv'
<1> DEFINE j == [op |-> "deny",
                 status |-> IF policy.everPublished THEN "published" ELSE "draft"]
<1>1. Note(w, j) BY DEF DenyRead
<1>2. j \in Jobs BY DEF Jobs
<1>3. j # NoJob /\ Decided(j) BY DEF NoJob, Decided
<1>4. j.status = "published" => policy.everPublished OBVIOUS
<1> QED BY <1>1, <1>2, <1>3, <1>4, NoteInv

LEMMA RegenerateReadInv ==
  ASSUME IInv, NEW w \in Workers, NEW c \in Contents, RegenerateRead(w, c)
  PROVE  IInv'
<1> DEFINE j == [op |-> "regenerate", content |-> c,
                 replace |-> \E v \in Ids : Exists(v)]
<1>1. Note(w, j) BY DEF RegenerateRead
<1>2. (\E v \in Ids : Exists(v)) \in BOOLEAN OBVIOUS
<1>3. j \in Jobs BY <1>2 DEF Jobs
<1>4. j # NoJob /\ Decided(j) BY DEF NoJob, Decided
<1> QED BY <1>1, <1>3, <1>4, NoteInv

LEMMA ViewInv ==
  ASSUME IInv, NEW w \in Workers, NEW e \in Employees, View(w, e)
  PROVE  IInv'
<1> DEFINE j == [op |-> "view", who |-> e, content |-> InForce]
<1>1. Note(w, j) /\ policy.status = "published" BY DEF View
<1>2. InForce \in Contents
  BY DEF IInv, TypeOK, Policy, Refs, Exists, InForce, Shown
<1>3. j \in Jobs BY <1>2 DEF Jobs
<1>4. j # NoJob /\ Decided(j) BY <1>1 DEF NoJob, Decided
<1> QED BY <1>1, <1>3, <1>4, NoteInv

LEMMA ReadInv ==
  ASSUME IInv, NEW w \in Workers, Read(w)
  PROVE  IInv'
BY PatchReadInv, PlainReadInv, CreateReadInv, EditReadInv, DeleteReadInv,
   ActivateReadInv, PublishReadInv, SubmitReadInv, AcceptReadInv, DenyReadInv,
   RegenerateReadInv, ViewInv DEF Read

-----------------------------------------------------------------------------
(* Writes *)

USE DEF IInv

\* What every write shares: the types, and the requests that are not this one.
LEMMA WriteShape ==
  ASSUME IInv, NEW w \in Workers, NEW p \in Policy, NEW vs \in [Ids -> Version],
         Commit(w, p, vs),
         signedFor' \in [Employees -> Contents \cup {None}],
         tainted' \in BOOLEAN, patched' \in BOOLEAN, dangling' \in BOOLEAN,
         patched => patched',
         policy.everPublished => p.everPublished,
         \A v \in Ids : versions[v] # None => vs[v] # None,
         p.current # None => vs[p.current] \in Contents,
         p.pending # None => vs[p.pending] # None
  PROVE  TypeOK' /\ Refs' /\ UpToDate' /\ Heals' /\ Denials'
<1>1. /\ policy' = p /\ versions' = vs /\ begun' = begun
      /\ job' \in [Workers -> Jobs] /\ job'[w] = NoJob
      /\ \A x \in Workers : x # w => job'[x] = job[x]
      /\ overtaken' \subseteq Workers /\ \A x \in overtaken' : job'[x] # NoJob
      /\ UpToDate'
  BY CommitInv
<1>2. NoJob.op = "none" BY NoJobIsJob
<1>3. TypeOK' BY <1>1 DEF TypeOK, Idle, Version
<1>4. Refs'
  <2>1. ASSUME NEW x \in Workers, job'[x].op = "submit"
        PROVE  versions'[job'[x].version] # None
    <3>1. x # w /\ job'[x] = job[x] BY <1>1, <1>2, <2>1
    <3>2. job[x].version \in Ids BY <2>1, <3>1, JobFields DEF TypeOK
    <3> QED BY <1>1, <2>1, <3>1, <3>2 DEF Refs
  <2>2. policy'.current # None => Exists(policy.current)'
    BY <1>1 DEF Exists
  <2> QED BY <1>1, <2>1, <2>2 DEF Refs
<1>5. Heals' BY <1>1, <1>2 DEF Heals
<1>6. Denials' BY <1>1, <1>2 DEF Denials
<1> QED BY <1>1, <1>3, <1>4, <1>5, <1>6

\* What a PATCH may set leaves a policy.
LEMMA PatchedPolicy ==
  ASSUME NEW q \in Policy, NEW st \in Statuses, NEW c \in Contents,
         NEW a \in Approvers \cup {None}, NEW g \in SUBSET Employees, NEW e \in BOOLEAN
  PROVE  [q EXCEPT !.status = st, !.content = c, !.approver = a, !.signed = g,
                   !.everPublished = e] \in Policy
BY DEF Policy

LEMMA PatchWriteInv ==
  ASSUME IInv, NEW w \in Workers, PatchWrite(w)
  PROVE  IInv'
<1> DEFINE j == job[w]
           p == [policy EXCEPT
                   !.status = IF j.status = None THEN @ ELSE j.status,
                   !.content = IF j.content = None THEN @ ELSE j.content,
                   !.approver = IF j.approver = "keep" THEN @ ELSE j.approver,
                   !.signed = IF j.clear THEN {} ELSE @,
                   !.everPublished = @ \/ j.clear]
           vs == IF j.content # None /\ policy.current # None
                 THEN [versions EXCEPT ![policy.current] = j.content]
                 ELSE versions
<1>1. /\ Commit(w, p, vs) /\ j.op = "patch"
      /\ IF j.clear THEN Cleared
         ELSE /\ signedFor' = signedFor
              /\ tainted' = (tainted \/ w \in overtaken \/ j.status = "draft")
      /\ patched' = (patched \/ j.approver # "keep")
      /\ dangling' = dangling
  BY DEF PatchWrite
<1>2. /\ j.status \in Statuses \cup {None} /\ j.content \in Contents \cup {None}
      /\ j.approver \in Approvers \cup {None, "keep"} /\ j.clear \in BOOLEAN
  BY <1>1, JobFields DEF TypeOK
<1>3. policy \in Policy /\ versions \in [Ids -> Version] BY DEF TypeOK, Version
<1>4. p \in Policy
  <2>1. /\ policy.status \in Statuses /\ policy.content \in Contents
        /\ policy.approver \in Approvers \cup {None}
        /\ policy.signed \in SUBSET Employees /\ policy.everPublished \in BOOLEAN
    BY <1>3 DEF Policy
  <2> DEFINE st == IF j.status = None THEN policy.status ELSE j.status
             c  == IF j.content = None THEN policy.content ELSE j.content
             a  == IF j.approver = "keep" THEN policy.approver ELSE j.approver
             g  == IF j.clear THEN {} ELSE policy.signed
             e  == policy.everPublished \/ j.clear
  <2>2. st \in Statuses /\ c \in Contents BY <1>2, <2>1
  <2>3. a \in Approvers \cup {None} BY <1>2, <2>1
  <2>4. g \in SUBSET Employees /\ e \in BOOLEAN BY <2>1
  <2>5. p = [policy EXCEPT !.status = st, !.content = c, !.approver = a,
                           !.signed = g, !.everPublished = e]
    OBVIOUS
  <2> HIDE DEF p, st, c, a, g, e
  <2>6. [policy EXCEPT !.status = st, !.content = c, !.approver = a,
                       !.signed = g, !.everPublished = e] \in Policy
    BY <1>3, <2>2, <2>3, <2>4, PatchedPolicy
  <2> QED BY <2>5, <2>6
<1>5. vs \in [Ids -> Version] BY <1>2, <1>3 DEF Version
<1>6. /\ p.status = (IF j.status = None THEN policy.status ELSE j.status)
      /\ p.content = (IF j.content = None THEN policy.content ELSE j.content)
      /\ p.approver = (IF j.approver = "keep" THEN policy.approver ELSE j.approver)
      /\ p.signed = (IF j.clear THEN {} ELSE policy.signed)
      /\ p.everPublished = (policy.everPublished \/ j.clear)
      /\ p.current = policy.current /\ p.pending = policy.pending
  BY <1>3 DEF Policy
<1>7. \A v \in Ids : /\ versions[v] # None => vs[v] # None
                     /\ versions[v] \in Contents => vs[v] \in Contents
                     /\ (j.content = None \/ v # policy.current) => vs[v] = versions[v]
  BY <1>2, <1>3 DEF Version
<1>8. policy.current \in Ids \cup {None} /\ policy.pending \in Ids \cup {None}
  BY <1>3 DEF Policy
<1>9. policy' = p /\ versions' = vs BY <1>1 DEF Commit
<1>10. tainted' \in BOOLEAN /\ signedFor' \in [Employees -> Contents \cup {None}]
  BY <1>1, <1>2 DEF TypeOK, Cleared
<1>11. TypeOK' /\ Refs' /\ UpToDate' /\ Heals' /\ Denials'
  <2>1. p.current # None => vs[p.current] \in Contents
    BY <1>6, <1>7, <1>8 DEF Refs, Exists
  <2>2. p.pending # None => vs[p.pending] # None BY <1>6, <1>7, <1>8 DEF Refs
  <2>3. patched' \in BOOLEAN /\ dangling' \in BOOLEAN /\ (patched => patched')
    BY <1>1 DEF TypeOK
  <2>4. policy.everPublished => p.everPublished BY <1>6
  <2>5. \A v \in Ids : versions[v] # None => vs[v] # None BY <1>7
  <2>6. Commit(w, p, vs) BY <1>1
  <2> HIDE DEF p, vs
  <2> QED BY <1>4, <1>5, <1>10, <2>1, <2>2, <2>3, <2>4, <2>5, <2>6, WriteShape
<1>12. ApprovalFieldsTogether'
  BY <1>1, <1>6, <1>9 DEF ApprovalFieldsTogether
<1>13. VersionsKept'
  BY <1>1, <1>6, <1>7, <1>8, <1>9 DEF VersionsKept, Exists
<1>14. Signatures'
  <2>1. CASE j.clear BY <2>1, <1>6, <1>9 DEF Signatures
  <2>2. CASE ~j.clear /\ tainted' BY <2>2 DEF Signatures
  <2>3. CASE ~j.clear /\ ~tainted'
    <3>1. ~tainted /\ w \notin overtaken /\ j.status # "draft" /\ signedFor' = signedFor
      BY <1>1, <2>3 DEF TypeOK
    <3>2. j # NoJob BY <1>1, NoJobIsJob
    <3>3. /\ j.content # None => policy.status = "draft"
          /\ j.status = "published" => policy.status = "published"
      BY <1>1, <2>3, <3>1, <3>2 DEF UpToDate, Decided
    <3>4. policy.status \in Statuses BY <1>3 DEF Policy
    <3>5. p.signed = policy.signed /\ p.everPublished = policy.everPublished
      BY <1>3, <1>6, <2>3 DEF Policy
    <3>6. CASE policy.status = "draft"
      <4>1. policy.everPublished => policy.signed = {} BY <3>1, <3>6 DEF Signatures
      <4>2. p.status \in {"draft", "needs_review"}
        BY <1>2, <1>6, <3>1, <3>3, <3>6 DEF Statuses
      <4> QED BY <1>9, <3>5, <4>1, <4>2 DEF Signatures
    <3>7. CASE policy.status # "draft"
      <4>1. j.content = None BY <3>3, <3>7
      <4>2. Shown(p, vs) = Shown(policy, versions)
        BY <1>6, <4>1 DEF Shown
      <4>3. InForce' = InForce BY <1>9, <4>2 DEF InForce, Shown
      <4>4. p.status # "draft" /\ (p.status = "published" => policy.status = "published")
        BY <1>2, <1>6, <3>1, <3>3, <3>4, <3>7 DEF Statuses
      <4> QED BY <1>9, <3>1, <3>4, <3>5, <3>7, <4>3, <4>4 DEF Signatures, Statuses
    <3> QED BY <3>6, <3>7
  <2> QED BY <2>1, <2>2, <2>3, <1>10
<1> QED BY <1>11, <1>12, <1>13, <1>14

\* A write that clears the signatures.
LEMMA ClearingWrite ==
  ASSUME IInv, NEW w \in Workers, NEW p \in Policy, NEW vs \in [Ids -> Version],
         Commit(w, p, vs), Cleared, UNCHANGED <<patched, dangling>>,
         p.signed = {}, policy.everPublished => p.everPublished,
         \A v \in Ids : versions[v] # None => vs[v] # None,
         p.current # None => vs[p.current] \in Contents,
         p.pending # None => vs[p.pending] # None,
         ~patched => (p.pending # None <=> p.approver # None),
         ~dangling => p.current # None /\ (p.pending # None => vs[p.pending] \in Contents)
  PROVE  IInv'
<1>1. /\ signedFor' \in [Employees -> Contents \cup {None}]
      /\ tainted' \in BOOLEAN /\ patched' \in BOOLEAN /\ dangling' \in BOOLEAN
      /\ patched => patched'
  BY DEF Cleared, TypeOK
<1>2. TypeOK' /\ Refs' /\ UpToDate' /\ Heals' /\ Denials' BY <1>1, WriteShape
<1>3. policy' = p /\ versions' = vs BY DEF Commit
<1>4. ApprovalFieldsTogether' BY <1>3 DEF ApprovalFieldsTogether
<1>5. VersionsKept' BY <1>3 DEF VersionsKept, Exists
<1>6. Signatures' BY <1>3 DEF Signatures
<1> QED BY <1>2, <1>4, <1>5, <1>6

\* A write that keeps them, by a request that was overtaken or changes nothing
\* they depend on.
LEMMA KeepingWrite ==
  ASSUME IInv, NEW w \in Workers, NEW p \in Policy, NEW vs \in [Ids -> Version],
         Commit(w, p, vs), Kept(w), UNCHANGED patched, dangling' \in BOOLEAN,
         p.signed = policy.signed, p.everPublished = policy.everPublished,
         \A v \in Ids : versions[v] # None => vs[v] # None,
         p.current # None => vs[p.current] \in Contents,
         p.pending # None => vs[p.pending] # None,
         ~patched => (p.pending # None <=> p.approver # None),
         ~dangling' => p.current # None /\ (p.pending # None => vs[p.pending] \in Contents),
         w \notin overtaken =>
           /\ policy.status # "draft" => Shown(p, vs) = Shown(policy, versions)
           /\ p.status = "draft" /\ policy.everPublished => policy.status = "draft"
           /\ p.status = "published" => policy.status = "published" \/ policy.everPublished
  PROVE  IInv'
<1>1. /\ signedFor' \in [Employees -> Contents \cup {None}]
      /\ tainted' \in BOOLEAN /\ patched' \in BOOLEAN
      /\ patched => patched' /\ (policy.everPublished => p.everPublished)
  BY DEF Kept, TypeOK
<1>2. TypeOK' /\ Refs' /\ UpToDate' /\ Heals' /\ Denials' BY <1>1, WriteShape
<1>3. policy' = p /\ versions' = vs BY DEF Commit
<1>4. ApprovalFieldsTogether' BY <1>3 DEF ApprovalFieldsTogether
<1>5. VersionsKept' BY <1>3 DEF VersionsKept, Exists
<1>6. Signatures'
  <2>1. CASE tainted' BY <2>1 DEF Signatures
  <2>2. CASE ~tainted'
    <3>1. ~tainted /\ w \notin overtaken /\ signedFor' = signedFor
      BY <2>2 DEF Kept, TypeOK
    <3>2. policy.status \in Statuses /\ p.status \in Statuses BY DEF TypeOK, Policy
    <3>3. InForce' = Shown(p, vs) BY <1>3 DEF InForce, Shown
    <3>4. CASE policy.status = "draft"
      <4>1. policy.everPublished => policy.signed = {} BY <3>1, <3>4 DEF Signatures
      <4>2. p.status = "published" => policy.everPublished BY <3>1, <3>4
      <4> QED BY <1>3, <4>1, <4>2 DEF Signatures
    <3>5. CASE policy.status # "draft"
      <4>1. InForce' = InForce BY <3>1, <3>3, <3>5 DEF InForce
      <4>2. ~(p.status = "draft" /\ policy.everPublished) BY <3>1, <3>5
      <4>3. p.status = "published" => policy.status = "published" \/ policy.everPublished
        BY <3>1
      <4> QED BY <1>3, <3>1, <3>2, <3>5, <4>1, <4>2, <4>3 DEF Signatures, Statuses
    <3> QED BY <3>4, <3>5
  <2> QED BY <2>1, <2>2, <1>1
<1> QED BY <1>2, <1>4, <1>5, <1>6

\* The facts about the tables that the writes below use.
LEMMA Tables ==
  ASSUME IInv
  PROVE  /\ policy \in Policy /\ versions \in [Ids -> Version]
         /\ policy.current \in Ids \cup {None} /\ policy.pending \in Ids \cup {None}
         /\ policy.current # None => versions[policy.current] \in Contents
         /\ policy.pending # None => versions[policy.pending] # None
         /\ ~dangling => /\ policy.current # None
                         /\ policy.pending # None => versions[policy.pending] \in Contents
         /\ ~patched => (policy.pending # None <=> policy.approver # None)
         /\ policy.status \in Statuses /\ policy.everPublished \in BOOLEAN
         /\ policy.signed \subseteq Employees
BY DEF TypeOK, Policy, Version, Refs, Exists, VersionsKept, ApprovalFieldsTogether

LEMMA PublishAllWriteInv ==
  ASSUME IInv, NEW w \in Workers, PublishAllWrite(w)
  PROVE  IInv'
<1> DEFINE p == [policy EXCEPT !.status = "published", !.signed = {},
                               !.everPublished = TRUE]
<1>1. Commit(w, p, versions) /\ Cleared /\ UNCHANGED <<patched, dangling>>
  BY DEF PublishAllWrite
<1>2. p \in Policy BY Tables DEF Policy, Statuses
<1>3. /\ p.signed = {} /\ p.everPublished /\ p.current = policy.current
      /\ p.pending = policy.pending /\ p.approver = policy.approver
  BY Tables DEF Policy
<1> HIDE DEF p
<1> QED BY <1>1, <1>2, <1>3, Tables, ClearingWrite

LEMMA ReviewWriteInv ==
  ASSUME IInv, NEW w \in Workers, ReviewWrite(w)
  PROVE  IInv'
<1> DEFINE p == [policy EXCEPT !.status = "needs_review"]
<1>1. Commit(w, p, versions) /\ Kept(w) /\ UNCHANGED <<patched, dangling>>
  BY DEF ReviewWrite
<1>2. p \in Policy BY Tables DEF Policy, Statuses
<1>3. /\ p.signed = policy.signed /\ p.everPublished = policy.everPublished
      /\ p.current = policy.current /\ p.pending = policy.pending
      /\ p.approver = policy.approver /\ p.content = policy.content
      /\ p.status = "needs_review"
  BY Tables DEF Policy
<1>4. Shown(p, versions) = Shown(policy, versions) BY <1>3 DEF Shown
<1>5. dangling' \in BOOLEAN /\ (~dangling' => ~dangling) BY <1>1 DEF TypeOK
<1> HIDE DEF p
<1> QED BY <1>1, <1>2, <1>3, <1>4, <1>5, Tables, KeepingWrite

LEMMA CreateWriteInv ==
  ASSUME IInv, NEW w \in Workers, CreateWrite(w)
  PROVE  IInv'
<1>1. PICK v \in Unused : Commit(w, policy, [versions EXCEPT ![v] = job[w].content])
  BY DEF CreateWrite
<1> DEFINE vs == [versions EXCEPT ![v] = job[w].content]
<1>2. /\ v \in Ids /\ versions[v] = None /\ job[w].content \in Contents
      /\ UNCHANGED <<signedFor, tainted, patched, dangling>>
  BY JobFields DEF CreateWrite, Unused, TypeOK, history
<1>3. vs \in [Ids -> Version] BY <1>2, Tables DEF Version
<1>4. \A i \in Ids : versions[i] # None => vs[i] = versions[i] BY <1>2, Tables
<1>5. policy' = policy /\ versions' = vs BY <1>1 DEF Commit
<1>6. TypeOK' /\ Refs' /\ UpToDate' /\ Heals' /\ Denials'
  <2>1. /\ signedFor' \in [Employees -> Contents \cup {None}]
        /\ tainted' \in BOOLEAN /\ patched' \in BOOLEAN /\ dangling' \in BOOLEAN
        /\ patched => patched'
    BY <1>2 DEF TypeOK
  <2>2. policy.current # None => vs[policy.current] \in Contents
    BY <1>4, Tables
  <2>3. policy.pending # None => vs[policy.pending] # None
    BY <1>4, Tables
  <2>4. Commit(w, policy, vs) BY <1>1
  <2> HIDE DEF vs
  <2> QED BY <1>3, <1>4, <2>1, <2>2, <2>3, <2>4, Tables, WriteShape
<1>7. ApprovalFieldsTogether' BY <1>2, <1>5 DEF ApprovalFieldsTogether
<1>8. VersionsKept' BY <1>2, <1>4, <1>5, Tables DEF VersionsKept, Exists
<1>9. InForce' = InForce
  BY <1>4, <1>5, Tables DEF InForce, Shown
<1>10. Signatures' BY <1>2, <1>5, <1>9 DEF Signatures
<1> QED BY <1>6, <1>7, <1>8, <1>10

LEMMA EditWriteInv ==
  ASSUME IInv, NEW w \in Workers, EditWrite(w)
  PROVE  IInv'
<1> DEFINE j == job[w]
           vs == [versions EXCEPT ![j.version] = j.content]
<1>1. /\ j.op = "edit" /\ Exists(j.version) /\ Commit(w, policy, vs) /\ Kept(w)
      /\ UNCHANGED <<patched, dangling>>
  BY DEF EditWrite
<1>2. j.version \in Ids /\ j.content \in Contents BY <1>1, JobFields DEF TypeOK
<1>3. vs \in [Ids -> Version] BY <1>2, Tables DEF Version
<1>4. \A v \in Ids : /\ v # j.version => vs[v] = versions[v]
                     /\ versions[v] \in Contents => vs[v] \in Contents
                     /\ versions[v] # None => vs[v] # None
  BY <1>2, Tables DEF Version
<1>5. w \notin overtaken /\ policy.status # "draft" => j.version # policy.current
  BY <1>1, NoJobIsJob DEF UpToDate, Decided
<1>6. w \notin overtaken /\ policy.status # "draft"
        => Shown(policy, vs) = Shown(policy, versions)
  BY <1>4, <1>5, Tables DEF Shown
<1>7. dangling' \in BOOLEAN /\ (~dangling' => ~dangling) BY <1>1 DEF TypeOK
<1>8. policy.current # None => vs[policy.current] \in Contents BY <1>4, Tables
<1>9. policy.pending # None => vs[policy.pending] # None BY <1>4, Tables
<1>10. ~dangling' => /\ policy.current # None
                     /\ policy.pending # None => vs[policy.pending] \in Contents
  BY <1>4, <1>7, Tables
<1>11. Commit(w, policy, vs) /\ Kept(w) /\ UNCHANGED patched BY <1>1
<1>12. \A v \in Ids : versions[v] # None => vs[v] # None BY <1>4
<1> HIDE DEF vs
<1> QED
  BY <1>3, <1>6, <1>7, <1>8, <1>9, <1>10, <1>11, <1>12, Tables, KeepingWrite

LEMMA DeleteWriteInv ==
  ASSUME IInv, NEW w \in Workers, DeleteWrite(w)
  PROVE  IInv'
<1> DEFINE d == job[w].version
           p == [policy EXCEPT !.current = IF @ = d THEN None ELSE @]
           vs == [versions EXCEPT ![d] = Gone]
<1>1. /\ job[w].op = "delete" /\ Exists(d) /\ Commit(w, p, vs) /\ Kept(w)
      /\ dangling' = (dangling \/ w \in overtaken) /\ UNCHANGED patched
  BY DEF DeleteWrite
<1>2. d \in Ids BY <1>1, JobFields DEF TypeOK
<1>3. vs \in [Ids -> Version] BY <1>2, Tables DEF Version
<1>4. \A v \in Ids : /\ v # d => vs[v] = versions[v]
                     /\ versions[v] # None => vs[v] # None
  BY <1>2, Tables
<1>5. /\ p \in Policy /\ p.signed = policy.signed
      /\ p.everPublished = policy.everPublished /\ p.status = policy.status
      /\ p.pending = policy.pending /\ p.approver = policy.approver
      /\ p.content = policy.content
      /\ p.current = (IF policy.current = d THEN None ELSE policy.current)
  BY Tables DEF Policy
<1>6. w \notin overtaken => d # policy.current /\ d # policy.pending
  BY <1>1, NoJobIsJob DEF UpToDate, Decided
<1>7. w \notin overtaken => Shown(p, vs) = Shown(policy, versions)
  BY <1>4, <1>5, <1>6, Tables DEF Shown
<1>8. dangling' \in BOOLEAN /\ (~dangling' => ~dangling /\ w \notin overtaken)
  BY <1>1 DEF TypeOK
<1>9. p.current # None => vs[p.current] \in Contents BY <1>4, <1>5, Tables
<1>10. p.pending # None => vs[p.pending] # None BY <1>4, <1>5, Tables
<1>11. ~dangling' => /\ p.current # None
                     /\ p.pending # None => vs[p.pending] \in Contents
  BY <1>4, <1>5, <1>6, <1>8, Tables
<1>12. Commit(w, p, vs) /\ Kept(w) /\ UNCHANGED patched BY <1>1
<1>13. \A v \in Ids : versions[v] # None => vs[v] # None BY <1>4
<1> HIDE DEF p, vs, d
<1> QED
  BY <1>3, <1>5, <1>7, <1>8, <1>9, <1>10, <1>11, <1>12, <1>13, Tables, KeepingWrite

LEMMA PublishWriteInv ==
  ASSUME IInv, NEW w \in Workers, PublishWrite(w)
  PROVE  IInv'
<1> DEFINE j == job[w]
           p(v) == [policy EXCEPT !.content = j.content,
                      !.status = "published", !.everPublished = TRUE,
                      !.pending = None, !.approver = None,
                      !.signed = {},
                      !.current = IF j.active THEN v ELSE @]
           vs(v) == [versions EXCEPT ![v] = j.content]
<1>1. PICK v \in Unused : Commit(w, p(v), vs(v))
  BY DEF PublishWrite
<1>2. j.op = "publish" /\ Cleared /\ UNCHANGED <<patched, dangling>>
  BY DEF PublishWrite
<1>3. /\ v \in Ids /\ versions[v] = None /\ j.content \in Contents
      /\ j.active \in BOOLEAN
  BY <1>2, JobFields DEF Unused, TypeOK
<1>4. vs(v) \in [Ids -> Version] BY <1>3, Tables DEF Version
<1>5. \A i \in Ids : versions[i] # None => vs(v)[i] = versions[i] BY <1>3, Tables
<1>6. vs(v)[v] \in Contents BY <1>3, Tables
<1>7. /\ p(v) \in Policy /\ p(v).signed = {} /\ p(v).everPublished
      /\ p(v).pending = None /\ p(v).approver = None
      /\ p(v).current = (IF j.active THEN v ELSE policy.current)
  BY <1>3, Tables DEF Policy, Statuses
<1>8. p(v).current # None => vs(v)[p(v).current] \in Contents
  BY <1>5, <1>6, <1>7, Tables
<1>9. ~dangling => p(v).current # None BY <1>3, <1>7, Tables
<1> HIDE DEF p, vs
<1> QED BY <1>1, <1>2, <1>4, <1>5, <1>7, <1>8, <1>9, Tables, ClearingWrite

\* setActiveVersion and acceptChanges put an existing version in force.
LEMMA ActivateWriteInv ==
  ASSUME IInv, NEW w \in Workers, ActivateWrite(w) \/ AcceptWrite(w)
  PROVE  IInv'
<1> DEFINE j == job[w]
           p == [policy EXCEPT !.current = j.version, !.content = j.content,
                               !.status = "published",
                               !.pending = None, !.approver = None,
                               !.signed = {}]
           q == [policy EXCEPT !.current = j.version, !.content = j.content,
                               !.status = "published",
                               !.everPublished = TRUE, !.pending = None,
                               !.approver = None, !.signed = SignaturesAfter]
<1>1. /\ j.op \in {"activate", "accept"} /\ Exists(j.version) /\ Cleared
      /\ Commit(w, p, versions) \/ Commit(w, q, versions)
      /\ UNCHANGED <<patched, dangling>>
  BY DEF ActivateWrite, AcceptWrite
<1>2. j.version \in Ids /\ j.content \in Contents BY <1>1, JobFields DEF TypeOK
<1>3. /\ p \in Policy /\ p.signed = {} /\ p.everPublished = policy.everPublished
      /\ p.pending = None /\ p.approver = None /\ p.current = j.version
  BY <1>2, Tables DEF Policy, Statuses
<1>4. /\ q \in Policy /\ q.signed = {} /\ q.everPublished
      /\ q.pending = None /\ q.approver = None /\ q.current = j.version
  BY <1>2, Tables DEF Policy, Statuses, SignaturesAfter
<1>5. versions[j.version] \in Contents /\ j.version # None BY <1>1 DEF Exists
<1> HIDE DEF p, q
<1>6. CASE Commit(w, p, versions)
  BY <1>1, <1>3, <1>5, <1>6, Tables, ClearingWrite
<1>7. CASE Commit(w, q, versions)
  BY <1>1, <1>4, <1>5, <1>7, Tables, ClearingWrite
<1> QED BY <1>1, <1>6, <1>7

LEMMA RegenerateWriteInv ==
  ASSUME IInv, NEW w \in Workers, RegenerateWrite(w)
  PROVE  IInv'
<1> DEFINE j == job[w]
           p(v) == [policy EXCEPT !.content = j.content,
                      !.current = v, !.pending = None,
                      !.approver = None, !.signed = {}]
           vs(v) == [i \in Ids |-> IF i = v THEN j.content
                                   ELSE IF Exists(i) THEN Gone ELSE versions[i]]
<1>1. PICK v \in Unused : Commit(w, p(v), vs(v)) BY DEF RegenerateWrite
<1>2. j.op = "regenerate" /\ Cleared /\ UNCHANGED <<patched, dangling>>
  BY DEF RegenerateWrite
<1>3. v \in Ids /\ versions[v] = None /\ j.content \in Contents
  BY <1>2, JobFields DEF Unused, TypeOK
<1>4. vs(v) \in [Ids -> Version] BY <1>3, Tables DEF Version
<1>5. \A i \in Ids : versions[i] # None => vs(v)[i] # None BY <1>3
<1>6. vs(v)[v] \in Contents BY <1>3
<1>7. /\ p(v) \in Policy /\ p(v).signed = {} /\ p(v).everPublished = policy.everPublished
      /\ p(v).pending = None /\ p(v).approver = None /\ p(v).current = v
  BY <1>3, Tables DEF Policy
<1>8. v # None BY <1>3
<1> HIDE DEF p, vs
<1> QED BY <1>1, <1>2, <1>4, <1>5, <1>6, <1>7, <1>8, Tables, ClearingWrite

LEMMA SubmitWriteInv ==
  ASSUME IInv, NEW w \in Workers, SubmitWrite(w)
  PROVE  IInv'
<1> DEFINE j == job[w]
           p == [policy EXCEPT !.pending = j.version, !.status = "needs_review",
                               !.approver = j.approver]
<1>1. /\ j.op = "submit" /\ Commit(w, p, versions) /\ Kept(w)
      /\ dangling' = (dangling \/ w \in overtaken) /\ UNCHANGED patched
  BY DEF SubmitWrite, Submitted
<1>2. j.version \in Ids /\ j.approver \in Approvers BY <1>1, JobFields DEF TypeOK
<1>3. /\ p \in Policy /\ p.signed = policy.signed
      /\ p.everPublished = policy.everPublished /\ p.status = "needs_review"
      /\ p.pending = j.version /\ p.approver = j.approver
      /\ p.content = policy.content /\ p.current = policy.current
  BY <1>2, Tables DEF Policy, Statuses
<1>4. Shown(p, versions) = Shown(policy, versions) BY <1>3 DEF Shown
<1>5. versions[j.version] # None BY <1>1 DEF Refs
<1>6. w \notin overtaken => versions[j.version] \in Contents
  BY <1>1, NoJobIsJob DEF UpToDate, Decided, Exists
<1>7. dangling' \in BOOLEAN /\ (~dangling' => ~dangling /\ w \notin overtaken)
  BY <1>1 DEF TypeOK
<1>8. j.version # None /\ j.approver # None BY <1>2
<1>9. Commit(w, p, versions) /\ Kept(w) /\ UNCHANGED patched BY <1>1
<1> HIDE DEF p
<1> QED
  BY <1>3, <1>4, <1>5, <1>6, <1>7, <1>8, <1>9, Tables, KeepingWrite

LEMMA DenyWriteInv ==
  ASSUME IInv, NEW w \in Workers, DenyWrite(w)
  PROVE  IInv'
<1> DEFINE j == job[w]
           p == [policy EXCEPT !.status = j.status, !.pending = None,
                               !.approver = None]
<1>1. /\ j.op = "deny" /\ Commit(w, p, versions) /\ Kept(w)
      /\ UNCHANGED <<patched, dangling>>
  BY DEF DenyWrite
<1>2. j.status \in {"draft", "published"} BY <1>1, JobFields DEF TypeOK
<1>3. /\ p \in Policy /\ p.signed = policy.signed
      /\ p.everPublished = policy.everPublished /\ p.status = j.status
      /\ p.pending = None /\ p.approver = None
      /\ p.content = policy.content /\ p.current = policy.current
  BY <1>2, Tables DEF Policy, Statuses
<1>4. Shown(p, versions) = Shown(policy, versions) BY <1>3 DEF Shown
<1>5. j.status = "published" => policy.everPublished BY <1>1 DEF Denials
<1>6. w \notin overtaken /\ j.status = "draft" => ~policy.everPublished
  BY <1>1, NoJobIsJob DEF UpToDate, Decided
<1>7. dangling' \in BOOLEAN /\ (~dangling' => ~dangling) BY <1>1 DEF TypeOK
<1>8. Commit(w, p, versions) /\ Kept(w) /\ UNCHANGED patched BY <1>1
<1> HIDE DEF p
<1> QED BY <1>3, <1>4, <1>5, <1>6, <1>7, <1>8, Tables, KeepingWrite

LEMMA HealWriteInv ==
  ASSUME IInv, NEW w \in Workers, HealWrite(w)
  PROVE  IInv'
<1> DEFINE p == [policy EXCEPT !.approver = None]
<1>1. /\ Commit(w, p, versions) /\ job[w].op = "heal"
      /\ UNCHANGED <<signedFor, tainted, patched, dangling>>
  BY DEF HealWrite, history
<1>2. p \in Policy BY Tables DEF Policy
<1>3. /\ p.signed = policy.signed /\ p.everPublished = policy.everPublished
      /\ p.current = policy.current /\ p.pending = policy.pending
      /\ p.content = policy.content /\ p.status = policy.status
  BY Tables DEF Policy
<1>4. Shown(p, versions) = Shown(policy, versions) BY <1>3 DEF Shown
<1>5. /\ signedFor' \in [Employees -> Contents \cup {None}]
      /\ tainted' \in BOOLEAN /\ patched' \in BOOLEAN /\ dangling' \in BOOLEAN
      /\ patched => patched'
  BY <1>1 DEF TypeOK
<1>6. patched /\ patched' BY <1>1 DEF Heals
<1> HIDE DEF p
<1>7. TypeOK' /\ Refs' /\ UpToDate' /\ Heals' /\ Denials'
  BY <1>1, <1>2, <1>3, <1>5, Tables, WriteShape
<1>8. policy' = p /\ versions' = versions BY <1>1 DEF Commit
<1>9. ApprovalFieldsTogether' BY <1>6 DEF ApprovalFieldsTogether
<1>10. VersionsKept' BY <1>1, <1>3, <1>8 DEF VersionsKept, Exists
<1>11. InForce' = InForce BY <1>4, <1>8 DEF InForce
<1>12. Signatures' BY <1>1, <1>3, <1>8, <1>11 DEF Signatures
<1> QED BY <1>7, <1>9, <1>10, <1>12

\* A signature is for what is shown, if the request was not overtaken.
LEMMA SignInv ==
  ASSUME IInv, NEW w \in Workers, NEW signed \in SUBSET Employees, Sign(w, signed),
         job[w].op \in {"view", "complete"},
         w \notin overtaken => signed = policy.signed \cup {job[w].who}
  PROVE  IInv'
<1> DEFINE j == job[w]
           p == [policy EXCEPT !.signed = signed]
<1>1. /\ Commit(w, p, versions) /\ signedFor' = [signedFor EXCEPT ![j.who] = j.content]
      /\ tainted' = (tainted \/ w \in overtaken) /\ UNCHANGED <<patched, dangling>>
  BY DEF Sign
<1>2. j.who \in Employees /\ j.content \in Contents BY JobFields DEF TypeOK
<1>3. p \in Policy BY Tables DEF Policy
<1>4. /\ p.signed = signed /\ p.everPublished = policy.everPublished
      /\ p.current = policy.current /\ p.pending = policy.pending
      /\ p.approver = policy.approver
      /\ p.content = policy.content /\ p.status = policy.status
  BY Tables DEF Policy
<1>5. Shown(p, versions) = Shown(policy, versions) BY <1>4 DEF Shown
<1>6. /\ signedFor' \in [Employees -> Contents \cup {None}]
      /\ tainted' \in BOOLEAN /\ patched' \in BOOLEAN /\ dangling' \in BOOLEAN
      /\ patched => patched'
  BY <1>1, <1>2 DEF TypeOK
<1>7. w \notin overtaken => policy.status = "published" /\ j.content = InForce
  BY NoJobIsJob DEF UpToDate, Decided
<1> HIDE DEF p
<1>8. TypeOK' /\ Refs' /\ UpToDate' /\ Heals' /\ Denials'
  BY <1>1, <1>3, <1>4, <1>6, Tables, WriteShape
<1>9. policy' = p /\ versions' = versions BY <1>1 DEF Commit
<1>10. ApprovalFieldsTogether' BY <1>1, <1>4, <1>9 DEF ApprovalFieldsTogether
<1>11. VersionsKept' BY <1>1, <1>4, <1>9 DEF VersionsKept, Exists
<1>12. InForce' = InForce BY <1>5, <1>9 DEF InForce
<1>13. Signatures'
  <2>1. CASE tainted' BY <2>1 DEF Signatures
  <2>2. CASE ~tainted'
    <3>1. ~tainted /\ w \notin overtaken BY <1>1, <2>2 DEF TypeOK
    <3>2. policy.status = "published" /\ j.content = InForce BY <1>7, <3>1
    <3>3. \A e \in policy.signed : signedFor[e] = InForce BY <3>1, <3>2 DEF Signatures
    <3>4. \A e \in Employees : signedFor'[e] = (IF e = j.who THEN j.content
                                               ELSE signedFor[e])
      BY <1>1 DEF TypeOK
    <3>5. \A e \in signed : signedFor'[e] = InForce
      BY <3>1, <3>2, <3>3, <3>4, Tables
    <3> QED BY <1>4, <1>9, <1>12, <3>2, <3>5 DEF Signatures
  <2> QED BY <2>1, <2>2, <1>6
<1> QED BY <1>8, <1>10, <1>11, <1>13

LEMMA SignatureInv ==
  ASSUME IInv, NEW w \in Workers, AcceptPolicy(w) \/ CompleteWrite(w)
  PROVE  IInv'
<1>1. CASE AcceptPolicy(w)
  <2>1. job[w].op = "view" /\ Sign(w, policy.signed \cup {job[w].who})
    BY <1>1 DEF AcceptPolicy
  <2>2. policy.signed \cup {job[w].who} \in SUBSET Employees
    BY <2>1, Tables, JobFields DEF TypeOK
  <2> QED BY <2>1, <2>2, SignInv
<1>2. CASE CompleteWrite(w)
  <2>1. job[w].op = "complete" /\ Sign(w, job[w].signed) BY <1>2 DEF CompleteWrite
  <2>2. job[w].signed \in SUBSET Employees BY <2>1, JobFields DEF TypeOK
  <2>3. w \notin overtaken => job[w].signed = policy.signed \cup {job[w].who}
    BY <2>1, NoJobIsJob DEF UpToDate, Decided
  <2> QED BY <2>1, <2>2, <2>3, SignInv
<1> QED BY <1>1, <1>2

LEMMA CompleteReadInv ==
  ASSUME IInv, NEW w \in Workers, CompleteRead(w)
  PROVE  IInv'
<1> DEFINE j == job[w]
           k == [op |-> "complete", who |-> j.who, content |-> j.content,
                 signed |-> policy.signed \cup {j.who}]
<1>1. /\ j.op = "view" /\ job' = [job EXCEPT ![w] = k]
      /\ UNCHANGED <<policy, versions, begun, overtaken,
                     signedFor, tainted, patched, dangling>>
  BY DEF CompleteRead, history
<1>2. j.who \in Employees /\ j.content \in Contents BY <1>1, JobFields DEF TypeOK
<1>3. policy.signed \cup {j.who} \in SUBSET Employees BY <1>2, Tables
<1>4. k \in Jobs BY <1>2, <1>3 DEF Jobs
<1>5. k # NoJob /\ j # NoJob BY <1>1 DEF NoJob
<1>6. w \notin overtaken => Decided(k)
  BY <1>1, <1>5 DEF UpToDate, Decided
<1> HIDE DEF k
<1>7. job' \in [Workers -> Jobs] /\ job'[w] = k /\ \A x \in Workers \ {w} : job'[x] = job[x]
  BY <1>1, <1>4 DEF TypeOK
<1>8. k.op = "complete" BY DEF k
<1>9. TypeOK' BY <1>1, <1>5, <1>7 DEF TypeOK, Idle
<1>10. Refs' BY <1>1, <1>7, <1>8 DEF Refs, Exists
<1>11. UpToDate'
  <2>1. \A i : Decided(i)' <=> Decided(i) BY <1>1 DEF Decided, Exists, InForce, Shown
  <2> QED BY <1>1, <1>6, <1>7, <2>1 DEF UpToDate
<1>12. Heals' /\ Denials' BY <1>1, <1>7, <1>8 DEF Heals, Denials
<1>13. ApprovalFieldsTogether' /\ VersionsKept' /\ Signatures'
  BY <1>1 DEF ApprovalFieldsTogether, VersionsKept, Signatures, Exists, InForce, Shown
<1> QED BY <1>9, <1>10, <1>11, <1>12, <1>13

LEMMA WriteInv ==
  ASSUME IInv, NEW w \in Workers, Write(w)
  PROVE  IInv'
BY PatchWriteInv, PublishAllWriteInv, ReviewWriteInv, CreateWriteInv, EditWriteInv,
   DeleteWriteInv, PublishWriteInv, ActivateWriteInv, SubmitWriteInv, DenyWriteInv,
   HealWriteInv, RegenerateWriteInv, SignatureInv, CompleteReadInv DEF Write

LEMMA AbandonInv ==
  ASSUME IInv, NEW w \in Workers, Abandon(w)
  PROVE  IInv'
<1>1. /\ job' = [job EXCEPT ![w] = NoJob] /\ overtaken' = overtaken \ {w}
      /\ UNCHANGED <<policy, versions, begun, signedFor, tainted, patched, dangling>>
  BY DEF Abandon, history
<1>2. /\ job' \in [Workers -> Jobs] /\ job'[w] = NoJob
      /\ \A x \in Workers \ {w} : job'[x] = job[x]
  BY <1>1, NoJobIsJob DEF TypeOK
<1>3. TypeOK' BY <1>1, <1>2 DEF TypeOK, Idle
<1>4. Refs' BY <1>1, <1>2, NoJobIsJob DEF Refs, Exists
<1>5. UpToDate'
  <2>1. \A i : Decided(i)' <=> Decided(i) BY <1>1 DEF Decided, Exists, InForce, Shown
  <2> QED BY <1>1, <1>2, <2>1 DEF UpToDate
<1>6. Heals' /\ Denials' BY <1>1, <1>2, NoJobIsJob DEF Heals, Denials
<1>7. ApprovalFieldsTogether' /\ VersionsKept' /\ Signatures'
  BY <1>1 DEF ApprovalFieldsTogether, VersionsKept, Signatures, Exists, InForce, Shown
<1> QED BY <1>3, <1>4, <1>5, <1>6, <1>7

-----------------------------------------------------------------------------
LEMMA InitInv == Init => IInv
<1> SUFFICES ASSUME Init PROVE IInv OBVIOUS
<1>1. PICK v \in Ids, c \in Contents :
        /\ policy = [status |-> "draft", current |-> v, pending |-> None,
                     approver |-> None, content |-> c,
                     signed |-> {}, everPublished |-> FALSE]
        /\ versions = [i \in Ids |-> IF i = v THEN c ELSE None]
        /\ job = [w \in Workers |-> NoJob]
        /\ signedFor = [e \in Employees |-> None]
        /\ begun = 0 /\ overtaken = {}
        /\ tainted = FALSE /\ patched = FALSE /\ dangling = FALSE
  BY DEF Init
<1>2. policy \in Policy BY <1>1 DEF Policy, Statuses
<1>3. TypeOK
  <2>1. versions \in [Ids -> Contents \cup {None, Gone}] BY <1>1
  <2>2. job \in [Workers -> Jobs] BY <1>1, NoJobIsJob
  <2>3. signedFor \in [Employees -> Contents \cup {None}] BY <1>1
  <2>4. begun \in 0..MaxRequests BY <1>1
  <2> QED BY <1>1, <1>2, <2>1, <2>2, <2>3, <2>4 DEF TypeOK
<1>4. /\ policy.current = v /\ policy.pending = None /\ policy.approver = None
      /\ policy.signed = {}
  BY <1>1
<1>5. Exists(v) BY <1>1 DEF Exists
<1>6. \A w \in Workers : job[w] = NoJob BY <1>1
<1>7. Refs BY <1>4, <1>5, <1>6, NoJobIsJob DEF Refs
<1>8. UpToDate BY <1>6 DEF UpToDate
<1>9. Heals /\ Denials BY <1>6, NoJobIsJob DEF Heals, Denials
<1>10. ApprovalFieldsTogether /\ VersionsKept /\ Signatures
  BY <1>4, <1>5 DEF ApprovalFieldsTogether, VersionsKept, Signatures
<1> QED BY <1>3, <1>7, <1>8, <1>9, <1>10

LEMMA NextInv == IInv /\ [Next]_vars => IInv'
<1> SUFFICES ASSUME IInv, [Next]_vars PROVE IInv' OBVIOUS
<1>1. CASE Next
  <2>1. PICK w \in Workers : Read(w) \/ Write(w) \/ Abandon(w) BY <1>1 DEF Next
  <2> HIDE DEF IInv
  <2> QED BY <2>1, ReadInv, WriteInv, AbandonInv
<1>2. CASE UNCHANGED vars
  <2>1. UNCHANGED <<policy, versions, job, begun, overtaken,
                    signedFor, tainted, patched, dangling>>
    BY <1>2 DEF vars, history
  <2>2. TypeOK' /\ Refs' BY <2>1 DEF TypeOK, Idle, Refs, Exists
  <2>3. UpToDate'
    <3>1. \A i : Decided(i)' <=> Decided(i)
      BY <2>1 DEF Decided, Exists, InForce, Shown
    <3> QED BY <2>1, <3>1 DEF UpToDate
  <2>4. Heals' /\ Denials' BY <2>1 DEF Heals, Denials
  <2>5. ApprovalFieldsTogether' /\ VersionsKept' /\ Signatures'
    BY <2>1 DEF ApprovalFieldsTogether, VersionsKept, Signatures, Exists, InForce, Shown
  <2> QED BY <2>2, <2>3, <2>4, <2>5
<1> QED BY <1>1, <1>2

LEMMA AlwaysIInv == Spec => []IInv
BY InitInv, NextInv, PTL DEF Spec

-----------------------------------------------------------------------------
(* Steps *)

LEMMA CommitEnds ==
  ASSUME IInv, NEW w \in Workers, NEW p, NEW vs, Commit(w, p, vs)
  PROVE  /\ policy' = p /\ versions' = vs /\ job'[w] = NoJob
         /\ \A x \in Workers \ {w} : job'[x] = job[x]
BY NoJobIsJob DEF Commit, TypeOK

\* What a write does to versions, to the pending version and to the signatures,
\* if the request was not overtaken.
LEMMA WriteEffect ==
  ASSUME IInv, NEW w \in Workers, Write(w), w \notin overtaken
  PROVE  /\ \A x \in Workers \ {w} : job'[x] = job[x]
         /\ job'[w] = NoJob \/ UNCHANGED <<policy, versions>>
         /\ \/ versions' = versions \/ policy'.pending = None
            \/ policy.status = "draft"
            \/ policy.pending # None => versions'[policy.pending] = versions[policy.pending]
         /\ \/ policy'.pending # None
            \/ policy.pending = None \/ policy.approver = None
            \/ job[w].op \in {"accept", "deny", "activate", "regenerate"}
         /\ \/ policy.signed \subseteq policy'.signed
            \/ job[w].op \in {"publish_all", "publish", "activate", "accept",
                              "regenerate"}
            \/ job[w].op = "patch" /\ policy.status # "published"
<1>1. job[w] # NoJob => Decided(job[w]) BY DEF UpToDate
<1>2. CASE PatchWrite(w)
  <2>1. job[w].op = "patch" BY <1>2 DEF PatchWrite
  <2>2. /\ job[w].content # None => policy.status = "draft"
        /\ job[w].clear => policy.status # "published"
    BY <1>1, <2>1, NoJobIsJob DEF Decided
  <2> DEFINE j == job[w]
             p == [policy EXCEPT
                     !.status = IF j.status = None THEN @ ELSE j.status,
                     !.content = IF j.content = None THEN @ ELSE j.content,
                     !.approver = IF j.approver = "keep" THEN @ ELSE j.approver,
                     !.signed = IF j.clear THEN {} ELSE @,
                     !.everPublished = @ \/ j.clear]
             vs == IF j.content # None /\ policy.current # None
                   THEN [versions EXCEPT ![policy.current] = j.content]
                   ELSE versions
  <2>3. /\ Commit(w, p, vs) /\ p.pending = policy.pending
        /\ p.signed = IF j.clear THEN {} ELSE policy.signed
        /\ j.content = None => vs = versions
    BY <1>2, Tables DEF PatchWrite, Policy
  <2> HIDE DEF p, vs
  <2>4. job[w].clear \in BOOLEAN BY <2>1, JobFields DEF TypeOK
  <2> QED BY <2>1, <2>2, <2>3, <2>4, CommitEnds
<1>3. CASE PublishAllWrite(w)
  <2>1. job[w].op = "publish_all" BY <1>3 DEF PublishAllWrite
  <2> DEFINE p == [policy EXCEPT !.status = "published", !.signed = {},
                                 !.everPublished = TRUE]
  <2>2. Commit(w, p, versions) /\ p.pending = policy.pending
    BY <1>3, Tables DEF PublishAllWrite, Policy
  <2> HIDE DEF p
  <2> QED BY <2>1, <2>2, CommitEnds
<1>4. CASE ReviewWrite(w) \/ HealWrite(w)
  <2>1. PICK p : /\ Commit(w, p, versions) /\ p.pending = policy.pending
                 /\ p.signed = policy.signed
    BY <1>4, Tables DEF ReviewWrite, HealWrite, Policy
  <2> QED BY <2>1, CommitEnds
<1>5. CASE CreateWrite(w)
  <2>1. PICK v \in Unused : Commit(w, policy, [versions EXCEPT ![v] = job[w].content])
    BY <1>5 DEF CreateWrite
  <2>2. v \in Ids /\ versions[v] = None BY <2>1 DEF Unused
  <2> DEFINE vs == [versions EXCEPT ![v] = job[w].content]
  <2>3. policy.pending # None => vs[policy.pending] = versions[policy.pending]
    BY <2>2, Tables
  <2> HIDE DEF vs
  <2> QED BY <2>1, <2>3, CommitEnds DEF vs
<1>6. CASE EditWrite(w)
  <2>1. /\ job[w].op = "edit"
        /\ Commit(w, policy, [versions EXCEPT ![job[w].version] = job[w].content])
    BY <1>6 DEF EditWrite
  <2>2. job[w].version # policy.pending BY <1>1, <2>1, NoJobIsJob DEF Decided
  <2> DEFINE vs == [versions EXCEPT ![job[w].version] = job[w].content]
  <2>3. policy.pending # None => vs[policy.pending] = versions[policy.pending]
    BY <2>2, Tables
  <2>4. Commit(w, policy, vs) BY <2>1
  <2> HIDE DEF vs
  <2> QED BY <2>3, <2>4, CommitEnds
<1>7. CASE DeleteWrite(w)
  <2> DEFINE d == job[w].version
             p == [policy EXCEPT !.current = IF @ = d THEN None ELSE @]
             vs == [versions EXCEPT ![d] = Gone]
  <2>1. /\ Commit(w, p, vs) /\ job[w].op = "delete"
        /\ p.pending = policy.pending /\ p.signed = policy.signed
    BY <1>7, Tables DEF DeleteWrite, Policy
  <2>2. d # policy.pending BY <1>1, <2>1, NoJobIsJob DEF Decided
  <2>3. policy.pending # None => vs[policy.pending] = versions[policy.pending]
    BY <2>2, Tables
  <2> HIDE DEF p, vs
  <2> QED BY <2>1, <2>3, CommitEnds
<1>8. CASE PublishWrite(w)
  <2> DEFINE j == job[w]
             p(v) == [policy EXCEPT !.content = j.content,
                        !.status = "published", !.everPublished = TRUE,
                        !.pending = None, !.approver = None,
                        !.signed = {},
                        !.current = IF j.active THEN v ELSE @]
             vs(v) == [versions EXCEPT ![v] = j.content]
  <2>0. PICK v \in Unused : Commit(w, p(v), vs(v)) BY <1>8 DEF PublishWrite
  <2>1. Commit(w, p(v), vs(v)) /\ p(v).pending = None /\ job[w].op = "publish"
    BY <1>8, <2>0, Tables DEF PublishWrite, Policy
  <2> HIDE DEF p, vs
  <2>2. policy.pending = None \/ policy.approver = None
    BY <1>1, <2>1, NoJobIsJob DEF Decided
  <2> QED BY <2>1, <2>2, CommitEnds
<1>9. CASE ActivateWrite(w) \/ AcceptWrite(w) \/ RegenerateWrite(w)
  <2>1. job[w].op \in {"activate", "accept", "regenerate"}
    BY <1>9 DEF ActivateWrite, AcceptWrite, RegenerateWrite
  <2>2. PICK p, vs : Commit(w, p, vs) /\ p.pending = None
    <3> DEFINE j == job[w]
               p == [policy EXCEPT !.current = j.version, !.content = j.content,
                                   !.status = "published",
                                   !.pending = None, !.approver = None,
                                   !.signed = {}]
               q == [policy EXCEPT !.current = j.version, !.content = j.content,
                                   !.status = "published",
                                   !.everPublished = TRUE, !.pending = None,
                                   !.approver = None, !.signed = SignaturesAfter]
               r(v) == [policy EXCEPT !.content = j.content,
                          !.current = v, !.pending = None,
                          !.approver = None, !.signed = {}]
               vs(v) == [i \in Ids |-> IF i = v THEN j.content
                                       ELSE IF Exists(i) THEN Gone ELSE versions[i]]
    <3>1. p.pending = None /\ q.pending = None /\ \A v : r(v).pending = None
      BY Tables DEF Policy
    <3>2. \/ Commit(w, p, versions) \/ Commit(w, q, versions)
          \/ \E v \in Unused : Commit(w, r(v), vs(v))
      BY <1>9 DEF ActivateWrite, AcceptWrite, RegenerateWrite
    <3> HIDE DEF p, q, r, vs
    <3> QED BY <3>1, <3>2
  <2> QED BY <2>1, <2>2, CommitEnds
<1>10. CASE SubmitWrite(w)
  <2> DEFINE p == [policy EXCEPT !.pending = job[w].version, !.status = "needs_review",
                                 !.approver = job[w].approver]
  <2>1. Commit(w, p, versions) /\ job[w].op = "submit"
    BY <1>10 DEF SubmitWrite, Submitted
  <2>2. job[w].version \in Ids BY <2>1, JobFields DEF TypeOK
  <2>3. p.pending = job[w].version /\ p.signed = policy.signed BY Tables DEF Policy
  <2> HIDE DEF p
  <2> QED BY <2>1, <2>2, <2>3, CommitEnds
<1>11. CASE DenyWrite(w)
  <2>1. PICK p : /\ Commit(w, p, versions) /\ p.signed = policy.signed
                 /\ job[w].op = "deny"
    BY <1>11, Tables DEF DenyWrite, Policy
  <2> QED BY <2>1, CommitEnds
<1>12. CASE AcceptPolicy(w) \/ CompleteWrite(w)
  <2>1. PICK signed : Sign(w, signed) /\ policy.signed \subseteq signed
    <3>1. CASE AcceptPolicy(w) BY <3>1 DEF AcceptPolicy
    <3>2. CASE CompleteWrite(w)
      <4>1. job[w].op = "complete" /\ Sign(w, job[w].signed) BY <3>2 DEF CompleteWrite
      <4>2. job[w].signed = policy.signed \cup {job[w].who}
        BY <1>1, <4>1, NoJobIsJob DEF Decided
      <4> QED BY <4>1, <4>2
    <3> QED BY <1>12, <3>1, <3>2
  <2>2. PICK p : /\ Commit(w, p, versions) /\ p.pending = policy.pending
                 /\ policy.signed \subseteq p.signed
    BY <2>1, Tables DEF Sign, Policy
  <2> QED BY <2>2, CommitEnds
<1>13. CASE CompleteRead(w) BY <1>13 DEF CompleteRead, TypeOK
<1> QED
  BY <1>2, <1>3, <1>4, <1>5, <1>6, <1>7, <1>8, <1>9, <1>10, <1>11, <1>12, <1>13,
     Zenon DEF Write

LEMMA OtherSteps ==
  ASSUME IInv, NEW w \in Workers, Read(w) \/ Abandon(w)
  PROVE  UNCHANGED <<policy, versions>>
<1>1. CASE Read(w)
  <2>1. PICK j : Note(w, j)
    BY <1>1, Zenon DEF Read, PatchRead, PublishAllRead, ReviewRead, CreateRead, HealRead,
       EditRead, DeleteRead, ActivateRead, PublishRead, SubmitRead, AcceptRead,
       DenyRead, RegenerateRead, View
  <2> QED BY <2>1 DEF Note
<1>2. CASE Abandon(w) BY <1>2 DEF Abandon
<1> QED BY <1>1, <1>2

\* Every step is a write of a request that was not overtaken, of one that was,
\* or leaves the policy and its versions alone.
LEMMA StepEffect ==
  ASSUME IInv, [Next]_vars
  PROVE  \/ UNCHANGED <<policy, versions>>
         \/ \E w \in Workers : Write(w) /\ job'[w] = NoJob
                             /\ \A x \in Workers \ {w} : job'[x] = job[x]
<1>1. CASE UNCHANGED vars BY <1>1 DEF vars
<1>2. CASE Next
  <2>1. PICK w \in Workers : Read(w) \/ Write(w) \/ Abandon(w) BY <1>2 DEF Next
  <2> HIDE DEF IInv
  <2>2. CASE Read(w) \/ Abandon(w) BY <2>2, OtherSteps
  <2>3. CASE Write(w) /\ ~CompleteRead(w)
    <3>1. (\E p, vs : Commit(w, p, vs))
      BY <2>3, Zenon DEF Write, PatchWrite, PublishAllWrite, ReviewWrite, CreateWrite,
         EditWrite, DeleteWrite, PublishWrite, ActivateWrite, SubmitWrite, AcceptWrite,
         DenyWrite, HealWrite, RegenerateWrite, AcceptPolicy, CompleteWrite, Sign
    <3> QED BY <2>3, <3>1, CommitEnds
  <2>4. CASE CompleteRead(w) BY <2>4 DEF CompleteRead
  <2> QED BY <2>1, <2>2, <2>3, <2>4
<1> QED BY <1>1, <1>2

-----------------------------------------------------------------------------
(* The theorems *)

\* The type invariant.
THEOREM TypeCorrect == Spec => []TypeOK
<1>1. IInv => TypeOK OBVIOUS
<1> QED BY <1>1, AlwaysIInv, PTL

\* submitForApproval, acceptChanges, denyChanges, publishVersion,
\* setActiveVersion and the regeneration set and clear the pending version and
\* its approver together, whatever they overlap with.
THEOREM ApprovalFieldsAlwaysTogether == Spec => []ApprovalFieldsTogether
<1>1. IInv => ApprovalFieldsTogether OBVIOUS
<1> QED BY <1>1, AlwaysIInv, PTL

\* deleteVersion and submitForApproval, unless overtaken, leave the current and
\* the pending version existing.
THEOREM VersionsAlwaysKept == Spec => []VersionsKept
<1>1. IInv => VersionsKept OBVIOUS
<1> QED BY <1>1, AlwaysIInv, PTL

\* The signatures of a published policy are for what it shows.
THEOREM SignaturesAlwaysCurrent == Spec => []SignaturesCurrent
<1>1. IInv => SignaturesCurrent BY DEF Signatures, SignaturesCurrent
<1> QED BY <1>1, AlwaysIInv, PTL

\* updateVersionContent, deleteVersion and updateById leave the content an
\* approver is asked to decide on alone.
THEOREM PendingAlwaysFrozen == Spec => PendingFrozen
<1> DEFINE A == \A v \in Ids :
       /\ policy.pending = v /\ policy'.pending = v
       /\ policy.status # "draft"
       /\ versions'[v] # versions[v]
       => \E w \in overtaken : job'[w] = NoJob
<1>1. IInv /\ [Next]_vars => A
  <2> SUFFICES ASSUME IInv, [Next]_vars, NEW v \in Ids,
                      policy.pending = v, policy'.pending = v,
                      policy.status # "draft", versions'[v] # versions[v]
               PROVE  \E w \in overtaken : job'[w] = NoJob
    OBVIOUS
  <2>1. PICK w \in Workers : Write(w) /\ job'[w] = NoJob BY StepEffect
  <2>2. CASE w \in overtaken BY <2>1, <2>2
  <2>3. CASE w \notin overtaken
    <3> HIDE DEF IInv
    <3> QED BY <2>1, <2>3, WriteEffect
  <2> QED BY <2>2, <2>3
<1>2. IInv /\ [Next]_vars => [A]_vars BY <1>1
<1>3. Spec => [][A]_vars BY <1>2, AlwaysIInv, PTL DEF Spec
<1> QED BY <1>3 DEF PendingFrozen

\* publishVersion does not settle a submission: the approver, an activation of
\* the version or a regeneration does.
THEOREM NeverBypassed == Spec => NotBypassed
<1> DEFINE A == \A w \in Workers :
       /\ policy.pending # None /\ policy.approver # None
       /\ policy'.pending = None
       /\ job[w] # NoJob /\ job'[w] = NoJob
       => \/ w \in overtaken
          \/ job[w].op \in {"accept", "deny", "activate", "regenerate"}
<1>1. IInv /\ [Next]_vars => A
  <2> SUFFICES ASSUME IInv, [Next]_vars, NEW w \in Workers,
                      policy.pending # None, policy.approver # None,
                      policy'.pending = None, job[w] # NoJob, job'[w] = NoJob,
                      w \notin overtaken
               PROVE  job[w].op \in {"accept", "deny", "activate", "regenerate"}
    OBVIOUS
  <2>1. PICK x \in Workers : Write(x) /\ \A y \in Workers \ {x} : job'[y] = job[y]
    BY StepEffect
  <2>2. x = w BY <2>1
  <2> HIDE DEF IInv
  <2> QED BY <2>1, <2>2, WriteEffect
<1>2. IInv /\ [Next]_vars => [A]_vars BY <1>1
<1>3. Spec => [][A]_vars BY <1>2, AlwaysIInv, PTL DEF Spec
<1> QED BY <1>3 DEF NotBypassed

\* Only a publication or a replacement asks employees to sign again.
THEOREM SignaturesNeverLost == Spec => SignaturesNotLost
<1> DEFINE A == \A w \in Workers :
       /\ job[w] # NoJob /\ job'[w] = NoJob
       /\ ~(policy.signed \subseteq policy'.signed)
       => \/ w \in overtaken
          \/ job[w].op \in {"publish_all", "publish", "activate", "accept",
                            "regenerate"}
          \/ job[w].op = "patch" /\ policy.status # "published"
<1>1. IInv /\ [Next]_vars => A
  <2> SUFFICES ASSUME IInv, [Next]_vars, NEW w \in Workers,
                      job[w] # NoJob, job'[w] = NoJob,
                      ~(policy.signed \subseteq policy'.signed),
                      w \notin overtaken
               PROVE  \/ job[w].op \in {"publish_all", "publish", "activate", "accept",
                                        "regenerate"}
                      \/ job[w].op = "patch" /\ policy.status # "published"
    OBVIOUS
  <2>1. PICK x \in Workers : Write(x) /\ \A y \in Workers \ {x} : job'[y] = job[y]
    BY StepEffect
  <2>2. x = w BY <2>1
  <2> HIDE DEF IInv
  <2> QED BY <2>1, <2>2, WriteEffect
<1>2. IInv /\ [Next]_vars => [A]_vars BY <1>1
<1>3. Spec => [][A]_vars BY <1>2, AlwaysIInv, PTL DEF Spec
<1> QED BY <1>3 DEF SignaturesNotLost

=============================================================================
