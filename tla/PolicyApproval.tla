--------------------------- MODULE PolicyApproval ---------------------------
(***************************************************************************)
(* One policy: its draft, its versions, their submission, approval and     *)
(* publication (PoliciesService), the review schedule, the regeneration by *)
(* a job, and the signatures of employees (portal).                        *)
(*                                                                         *)
(* Every operation reads the policy, decides, and then writes, without a   *)
(* lock and mostly without a transaction (READ COMMITTED where there is    *)
(* one): a request is a Read step, which checks and notes what it will     *)
(* write, and a Write step, which writes it whatever the row says by then. *)
(* A write that fails, or whose process dies, is Abandon.                  *)
(*                                                                         *)
(* Abstracted: version numbers with their retries on a taken number, the   *)
(* PDFs, dates, changelogs, archiving, visibility, e-mails; that an        *)
(* approver is an active member; PATCHes of other fields (a signedBy sent  *)
(* by the client among them); draftContent, which only publishVersion      *)
(* reads: what that publishes is any content.                              *)
(***************************************************************************)
EXTENDS Naturals, FiniteSets

CONSTANTS Ids,        \* ids of versions, each used once
          Contents,
          Approvers, Employees,
          Workers,    \* concurrent requests
          None,
          Gone,       \* a deleted version
          MaxRequests \* bound on the requests begun

ASSUME NullsAssumption ==
  /\ None \notin Ids \cup Contents \cup Approvers \cup Employees
  /\ Gone \notin Contents \cup {None}
  /\ "keep" \notin Approvers \cup {None}
ASSUME BoundAssumption == MaxRequests \in Nat

VARIABLES
  policy,     \* the row of the policy
  versions,   \* policy_versions: the content of each, None before it exists
  job,        \* what each request in flight is about to write
  begun,      \* number of requests begun
  signedFor,  \* history: the content each employee saw when signing
  overtaken,  \* history: requests in flight whose read is out of date
  tainted,    \* history: since the signatures were last cleared, the policy
              \* was taken back to draft or an overtaken request wrote
  patched,    \* history: the approver was set by a PATCH
  dangling    \* history: an overtaken delete or submission was written

history == <<signedFor, tainted, patched, dangling>>
vars == <<policy, versions, job, begun, overtaken, history>>

Statuses == {"draft", "needs_review", "published"}

Policy == [status : Statuses,
           current : Ids \cup {None}, pending : Ids \cup {None},
           approver : Approvers \cup {None},
           content : Contents,
           signed : SUBSET Employees,
           everPublished : BOOLEAN]   \* lastPublishedAt

\* What a request carries from its read to its write.
Jobs ==
  [op : {"none", "publish_all", "review", "heal"}]
  \cup [op : {"patch"}, status : Statuses \cup {None}, content : Contents \cup {None},
        approver : Approvers \cup {None, "keep"}, clear : BOOLEAN]
  \cup [op : {"create"}, content : Contents]
  \cup [op : {"edit", "activate", "accept"}, version : Ids, content : Contents]
  \cup [op : {"delete"}, version : Ids]
  \cup [op : {"publish"}, active : BOOLEAN, content : Contents]
  \cup [op : {"submit"}, version : Ids, approver : Approvers]
  \cup [op : {"deny"}, status : {"draft", "published"}]
  \cup [op : {"regenerate"}, content : Contents, replace : BOOLEAN]
  \cup [op : {"view"}, who : Employees, content : Contents]
  \cup [op : {"complete"}, who : Employees, content : Contents,
        signed : SUBSET Employees]

NoJob == [op |-> "none"]
Idle(w) == job[w] = NoJob

\* A deleted version is still found.
Exists_Unchecked(v) == v # None
Exists(v) == v # None /\ versions[v] \in Contents
Unused == {v \in Ids : versions[v] = None}

\* What an employee is shown: the current version, else the policy itself.
Shown(p, vs) == IF p.current # None THEN vs[p.current] ELSE p.content
InForce == Shown(policy, versions)

Init ==
  \E v \in Ids, c \in Contents :
    /\ policy = [status |-> "draft", current |-> v, pending |-> None,
                 approver |-> None, content |-> c,
                 signed |-> {}, everPublished |-> FALSE]
    /\ versions = [i \in Ids |-> IF i = v THEN c ELSE None]
    /\ job = [w \in Workers |-> NoJob]
    /\ signedFor = [e \in Employees |-> None]
    /\ begun = 0 /\ overtaken = {}
    /\ tainted = FALSE /\ patched = FALSE /\ dangling = FALSE

-----------------------------------------------------------------------------
(* The two steps of a request *)

\* The read: nothing is written yet.
Note(w, j) ==
  /\ Idle(w) /\ begun < MaxRequests
  /\ begun' = begun + 1
  /\ job' = [job EXCEPT ![w] = j]
  /\ UNCHANGED <<policy, versions, overtaken, history>>

\* Whether a write of p and vs changes what request x decided upon.
Overtakes(p, vs, x) ==
  \/ \E v \in Ids : versions[v] # None /\ vs[v] # versions[v]
  \/ IF job[x].op = "complete" THEN p # policy
     ELSE [p EXCEPT !.signed = policy.signed] # policy

\* The write, which ends the request.
Commit(w, p, vs) ==
  /\ policy' = p /\ versions' = vs
  /\ job' = [job EXCEPT ![w] = NoJob]
  /\ UNCHANGED begun
  /\ overtaken' = {x \in Workers \ {w} :
                     ~Idle(x) /\ (x \in overtaken \/ Overtakes(p, vs, x))}

\* Signatures are cleared.
Cleared == signedFor' = signedFor /\ tainted' = FALSE
\* They are kept.
Kept(w) == signedFor' = signedFor /\ tainted' = (tainted \/ w \in overtaken)

\* The request fails, or its process dies, before it writes.
Abandon(w) ==
  /\ ~Idle(w)
  /\ job' = [job EXCEPT ![w] = NoJob]
  /\ overtaken' = overtaken \ {w}
  /\ UNCHANGED <<policy, versions, begun, history>>

-----------------------------------------------------------------------------
(* PATCH of the policy *)

\* Signatures are cleared whenever the status sent is "published".
Clears_Always(status) == status = "published"
\* They are cleared on a transition to published only.
Clears(status) == status = "published" /\ policy.status # "published"

\* updateById: the row is found and checked.
PatchRead(w, status, content, approver) ==
  /\ content # None => policy.status = "draft"
  /\ Note(w, [op |-> "patch", status |-> status, content |-> content,
              approver |-> approver, clear |-> Clears(status)])

\* The row is updated, and the content of what is the current version by then.
PatchWrite(w) ==
  LET j == job[w]
      p == [policy EXCEPT
              !.status = IF j.status = None THEN @ ELSE j.status,
              !.content = IF j.content = None THEN @ ELSE j.content,
              !.approver = IF j.approver = "keep" THEN @ ELSE j.approver,
              !.signed = IF j.clear THEN {} ELSE @,
              !.everPublished = @ \/ j.clear]
  IN
  /\ j.op = "patch"
  /\ Commit(w, p, IF j.content # None /\ policy.current # None
                  THEN [versions EXCEPT ![policy.current] = j.content]
                  ELSE versions)
  /\ IF j.clear THEN Cleared
     ELSE /\ signedFor' = signedFor
          /\ tainted' = (tainted \/ w \in overtaken \/ j.status = "draft")
  /\ patched' = (patched \/ j.approver # "keep")
  /\ UNCHANGED dangling

\* publishAll, as far as it touches this policy.
PublishAllRead(w) ==
  /\ policy.status = "draft"
  /\ Note(w, [op |-> "publish_all"])

PublishAllWrite(w) ==
  /\ job[w].op = "publish_all"
  /\ Commit(w, [policy EXCEPT !.status = "published", !.signed = {},
                              !.everPublished = TRUE], versions)
  /\ Cleared
  /\ UNCHANGED <<patched, dangling>>

\* The review schedule finds a published policy overdue.
ReviewRead(w) ==
  /\ policy.status = "published"
  /\ Note(w, [op |-> "review"])

ReviewWrite(w) ==
  /\ job[w].op = "review"
  /\ Commit(w, [policy EXCEPT !.status = "needs_review"], versions)
  /\ Kept(w)
  /\ UNCHANGED <<patched, dangling>>

-----------------------------------------------------------------------------
(* Versions *)

\* createVersion copies a version, by default the current one.
CreateRead(w) ==
  \E c \in {versions[v] : v \in {i \in Ids : Exists(i)}}
             \cup (IF policy.current = None THEN {policy.content} ELSE {}) :
    Note(w, [op |-> "create", content |-> c])

CreateWrite(w) ==
  /\ job[w].op = "create"
  /\ \E v \in Unused : Commit(w, policy, [versions EXCEPT ![v] = job[w].content])
  /\ UNCHANGED history

\* A version pending approval may be edited.
Editable_Pending(v) == v = policy.current => policy.status = "draft"
Editable(v) ==
  /\ v = policy.current => policy.status = "draft"
  /\ v # policy.pending

\* updateVersionContent
EditRead(w, v, c) ==
  /\ Exists(v) /\ Editable(v)
  /\ Note(w, [op |-> "edit", version |-> v, content |-> c])

EditWrite(w) ==
  LET j == job[w] IN
  /\ j.op = "edit" /\ Exists(j.version)
  /\ Commit(w, policy, [versions EXCEPT ![j.version] = j.content])
  /\ Kept(w)
  /\ UNCHANGED <<patched, dangling>>

Deletable(v) == v # policy.current /\ v # policy.pending

\* deleteVersion
DeleteRead(w, v) ==
  /\ Exists(v) /\ Deletable(v)
  /\ Note(w, [op |-> "delete", version |-> v])

\* The foreign key of the current version is ON DELETE SET NULL; the pending
\* version has none.
DeleteWrite(w) ==
  LET v == job[w].version IN
  /\ job[w].op = "delete" /\ Exists(v)
  /\ Commit(w, [policy EXCEPT !.current = IF @ = v THEN None ELSE @],
               [versions EXCEPT ![v] = Gone])
  /\ Kept(w)
  /\ dangling' = (dangling \/ w \in overtaken)
  /\ UNCHANGED patched

\* An approval in progress does not stop a direct publication.
Publishable_Pending == TRUE
Publishable == policy.pending = None \/ policy.approver = None

\* publishVersion
PublishRead(w, active, c) ==
  /\ Publishable
  /\ Note(w, [op |-> "publish", active |-> active,
              content |-> c])

PublishWrite(w) ==
  LET j == job[w] IN
  /\ j.op = "publish"
  /\ \E v \in Unused :
       Commit(w, [policy EXCEPT !.content = j.content,
                                !.status = "published", !.everPublished = TRUE,
                                !.pending = None, !.approver = None,
                                !.signed = {},
                                !.current = IF j.active THEN v ELSE @],
                 [versions EXCEPT ![v] = j.content])
  /\ Cleared
  /\ UNCHANGED <<patched, dangling>>

\* setActiveVersion; everPublished is not touched.
ActivateRead(w, v) ==
  /\ policy.pending \in {None, v}
  /\ Exists(v)
  /\ Note(w, [op |-> "activate", version |-> v, content |-> versions[v]])

\* The foreign key wants the version to exist.
ActivateWrite(w) ==
  LET j == job[w] IN
  /\ j.op = "activate" /\ Exists(j.version)
  /\ Commit(w, [policy EXCEPT !.current = j.version, !.content = j.content,
                              !.status = "published",
                              !.pending = None, !.approver = None,
                              !.signed = {}],
               versions)
  /\ Cleared
  /\ UNCHANGED <<patched, dangling>>

-----------------------------------------------------------------------------
(* Approval *)

\* submitForApproval
SubmitRead(w, v, a) ==
  /\ Exists(v)
  /\ ~(v = policy.current /\ policy.status = "published")
  /\ Note(w, [op |-> "submit", version |-> v, approver |-> a])

\* The version is recorded without its approver.
Submitted_NoApprover(j) ==
  [policy EXCEPT !.pending = j.version, !.status = "needs_review"]
Submitted(j) ==
  [policy EXCEPT !.pending = j.version, !.status = "needs_review",
                 !.approver = j.approver]

SubmitWrite(w) ==
  /\ job[w].op = "submit"
  /\ Commit(w, Submitted(job[w]), versions)
  /\ Kept(w)
  /\ dangling' = (dangling \/ w \in overtaken)
  /\ UNCHANGED patched

\* Only the approver of record decides.
MayDecide(a) == policy.pending # None /\ policy.approver = a

\* acceptChanges
AcceptRead(w, a) ==
  /\ MayDecide(a)
  /\ Exists(policy.pending)
  /\ Note(w, [op |-> "accept", version |-> policy.pending,
              content |-> versions[policy.pending]])

\* Signatures survive a publication.
SignaturesAfter_Kept == policy.signed
SignaturesAfter == {}

\* The transaction updates the version, which must exist.
AcceptWrite(w) ==
  LET j == job[w] IN
  /\ j.op = "accept" /\ Exists(j.version)
  /\ Commit(w, [policy EXCEPT !.current = j.version, !.content = j.content,
                              !.status = "published",
                              !.everPublished = TRUE, !.pending = None,
                              !.approver = None, !.signed = SignaturesAfter],
               versions)
  /\ Cleared
  /\ UNCHANGED <<patched, dangling>>

\* denyChanges
DenyRead(w, a) ==
  /\ MayDecide(a)
  /\ Note(w, [op |-> "deny",
              status |-> IF policy.everPublished THEN "published" ELSE "draft"])

DenyWrite(w) ==
  /\ job[w].op = "deny"
  /\ Commit(w, [policy EXCEPT !.status = job[w].status, !.pending = None,
                              !.approver = None], versions)
  /\ Kept(w)
  /\ UNCHANGED <<patched, dangling>>

\* acceptChanges and denyChanges find an approver without a pending version.
HealRead(w) ==
  /\ policy.pending = None /\ policy.approver # None
  /\ Note(w, [op |-> "heal"])

HealWrite(w) ==
  /\ job[w].op = "heal"
  /\ Commit(w, [policy EXCEPT !.approver = None], versions)
  /\ UNCHANGED history

-----------------------------------------------------------------------------
(* updatePolicyInDatabase: all versions are replaced by generated content. *)

RegenerateRead(w, c) ==
  Note(w, [op |-> "regenerate", content |-> c,
           replace |-> \E v \in Ids : Exists(v)])

\* Versions that appeared since the read found none hold number 1: the
\* transaction fails.
RegenerateWrite(w) ==
  LET j == job[w] IN
  /\ j.op = "regenerate"
  /\ j.replace \/ \A v \in Ids : ~Exists(v)
  /\ \E v \in Unused :
       Commit(w, [policy EXCEPT !.content = j.content,
                                !.current = v, !.pending = None,
                                !.approver = None, !.signed = {}],
                 [i \in Ids |-> IF i = v THEN j.content
                                ELSE IF Exists(i) THEN Gone ELSE versions[i]])
  /\ Cleared
  /\ UNCHANGED <<patched, dangling>>

-----------------------------------------------------------------------------
(* Signatures *)

\* The portal shows a published policy to an employee who has not signed it.
View(w, e) ==
  /\ policy.status = "published" /\ e \notin policy.signed
  /\ Note(w, [op |-> "view", who |-> e, content |-> InForce])

Sign(w, signed) ==
  LET j == job[w] IN
  /\ Commit(w, [policy EXCEPT !.signed = signed], versions)
  /\ signedFor' = [signedFor EXCEPT ![j.who] = j.content]
  /\ tainted' = (tainted \/ w \in overtaken)
  /\ UNCHANGED <<patched, dangling>>

\* accept-policies adds the employee to the list.
AcceptPolicy(w) ==
  /\ job[w].op = "view"
  /\ job[w].who \notin policy.signed
  /\ Sign(w, policy.signed \cup {job[w].who})

\* mark-policy-completed reads the list and writes it back whole.
CompleteRead(w) ==
  LET j == job[w] IN
  /\ j.op = "view"
  /\ j.who \notin policy.signed
  /\ job' = [job EXCEPT ![w] =
       [op |-> "complete", who |-> j.who, content |-> j.content,
        signed |-> policy.signed \cup {j.who}]]
  /\ UNCHANGED <<policy, versions, begun, overtaken, history>>

CompleteWrite(w) ==
  /\ job[w].op = "complete"
  /\ Sign(w, job[w].signed)

-----------------------------------------------------------------------------
Read(w) ==
  \/ \E s \in Statuses \cup {None}, c \in Contents \cup {None} :
       PatchRead(w, s, c, "keep")
  \/ \E a \in Approvers \cup {None} : PatchRead(w, None, None, a)
  \/ PublishAllRead(w) \/ ReviewRead(w) \/ CreateRead(w) \/ HealRead(w)
  \/ \E v \in Ids, c \in Contents : EditRead(w, v, c)
  \/ \E v \in Ids : DeleteRead(w, v) \/ ActivateRead(w, v)
  \/ \E active \in BOOLEAN, c \in Contents : PublishRead(w, active, c)
  \/ \E v \in Ids, a \in Approvers : SubmitRead(w, v, a)
  \/ \E a \in Approvers : AcceptRead(w, a) \/ DenyRead(w, a)
  \/ \E c \in Contents : RegenerateRead(w, c)
  \/ \E e \in Employees : View(w, e)

Write(w) ==
  \/ PatchWrite(w) \/ PublishAllWrite(w) \/ ReviewWrite(w)
  \/ CreateWrite(w) \/ EditWrite(w) \/ DeleteWrite(w)
  \/ PublishWrite(w) \/ ActivateWrite(w)
  \/ SubmitWrite(w) \/ AcceptWrite(w) \/ DenyWrite(w) \/ HealWrite(w)
  \/ RegenerateWrite(w)
  \/ AcceptPolicy(w) \/ CompleteRead(w) \/ CompleteWrite(w)

Next == \E w \in Workers : Read(w) \/ Write(w) \/ Abandon(w)

Spec == Init /\ [][Next]_vars

-----------------------------------------------------------------------------
(* Properties *)

TypeOK ==
  /\ policy \in Policy
  /\ versions \in [Ids -> Contents \cup {None, Gone}]
  /\ job \in [Workers -> Jobs]
  /\ begun \in 0..MaxRequests
  /\ overtaken \subseteq Workers /\ \A w \in overtaken : ~Idle(w)
  /\ signedFor \in [Employees -> Contents \cup {None}]
  /\ tainted \in BOOLEAN /\ patched \in BOOLEAN /\ dangling \in BOOLEAN

\* An approver waits for a version and a version for an approver, however
\* submissions, decisions, publications and regenerations overlap, unless a
\* PATCH set the approver.
ApprovalFieldsTogether ==
  ~patched => (policy.pending # None <=> policy.approver # None)

\* The versions the policy points to exist; only a deletion or a submission
\* that was overtaken by another write can break that.
VersionsKept ==
  ~dangling => /\ Exists(policy.current)
               /\ policy.pending # None => Exists(policy.pending)

\* The signatures of a published policy are for the content shown now, unless
\* since they were last cleared the policy was taken back to draft or a
\* request wrote that had been overtaken.
SignaturesCurrent ==
  policy.status = "published" /\ ~tainted
    => \A e \in policy.signed : signedFor[e] = InForce

\* The content an approver is asked to decide on does not change, but for a
\* policy taken back to draft, or by a request that was overtaken.
PendingFrozen ==
  [][\A v \in Ids :
       /\ policy.pending = v /\ policy'.pending = v
       /\ policy.status # "draft"
       /\ versions'[v] # versions[v]
       => \E w \in overtaken : job'[w] = NoJob]_vars

\* A submission is only settled by its approver, by activating the version,
\* by a new submission, by a regeneration, or by a request that was overtaken.
NotBypassed ==
  [][\A w \in Workers :
       /\ policy.pending # None /\ policy.approver # None
       /\ policy'.pending = None
       /\ job[w] # NoJob /\ job'[w] = NoJob
       => \/ w \in overtaken
          \/ job[w].op \in {"accept", "deny", "activate", "regenerate"}]_vars

\* Employees are asked to sign again only when something is published or
\* replaced: neither saving a published policy again, nor a review, nor a
\* submission and its denial, nor another signature costs one, unless the
\* request was overtaken.
SignaturesNotLost ==
  [][\A w \in Workers :
       /\ job[w] # NoJob /\ job'[w] = NoJob
       /\ ~(policy.signed \subseteq policy'.signed)
       => \/ w \in overtaken
          \/ job[w].op \in {"publish_all", "publish", "activate", "accept",
                            "regenerate"}
          \/ job[w].op = "patch" /\ policy.status # "published"]_vars
=============================================================================
