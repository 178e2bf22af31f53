------------------------ MODULE FrameworkVersioning ------------------------
(***************************************************************************)
(* Framework instances of one organisation moving between versions of      *)
(* their frameworks (frameworks/framework-versioning).  A version is a     *)
(* manifest of templates and edges; the organisation has rows made from    *)
(* the templates, which its frameworks share, and which its users edit,    *)
(* finish and delete.  A sync (framework-sync.service.ts, applySync)       *)
(* brings the rows of one framework to another version under the           *)
(* organisation's advisory lock and records what it changed; a rollback    *)
(* (framework-rollback.service.ts) checks that it may and then, under the  *)
(* lock, undoes what was recorded.                                         *)
(*                                                                         *)
(* The id of a row is <<t, n>>: it was made from template t by the n-th    *)
(* sync, or when the framework was added (n = 0).  The 14 days after which *)
(* a rollback is refused are left out: a refusal changes nothing.          *)
(***************************************************************************)
EXTENDS Naturals, Sequences, FiniteSets

CONSTANTS Frameworks,   \* the framework instances of the organisation
          Manifests,    \* the manifests of each framework's versions, in order
          Controls, Tasks, Policies,   \* templates
          Requirements, FormTypes,     \* what controls also refer to
          Contents,     \* texts of rows, those of the manifests among them
          Workers,      \* requests to sync or to roll back
          None,
          MaxOps,       \* bound: syncs committed
          MaxEdits      \* bound: parts missing at first and steps of users

Templates == Controls \cup Tasks \cup Policies

\* A manifest gives templates their texts, maps each control to requirements and
\* joins controls to policies, tasks and types of forms.  It is collected from
\* the requirements, so that nothing is in it that they do not lead to
\* (framework-manifest-builder.ts).
IsManifest(m) ==
  LET controls == Controls \cap DOMAIN m.content
      others   == DOMAIN m.content \ Controls
  IN /\ DOMAIN m.content \subseteq Templates
     /\ \A t \in DOMAIN m.content : m.content[t] \in Contents
     /\ m.maps \subseteq controls \X Requirements
     /\ m.edges \subseteq controls \X (others \cup FormTypes)
     /\ \A c \in controls : \E r \in Requirements : <<c, r>> \in m.maps
     /\ \A x \in others : \E c \in controls : <<c, x>> \in m.edges

ASSUME ManifestsAssumption ==
  \A f \in Frameworks : /\ 1 \in DOMAIN Manifests[f]
                        /\ \A v \in DOMAIN Manifests[f] : IsManifest(Manifests[f][v])
ASSUME IdsAssumption ==
  /\ None \notin Workers \cup FormTypes \cup Templates \X Nat
  /\ FormTypes \cap (Templates \X Nat) = {}
ASSUME BoundsAssumption == MaxOps \in Nat /\ MaxEdits \in Nat

VARIABLES
  db,        \* the rows, drafts, requirement maps and links of the organisation
  version,   \* currentVersionId of each framework instance
  ops,       \* framework_sync_operations of kind SYNC, as they were performed
  lock,      \* who holds the organisation's advisory lock
  job,       \* the request each worker serves, and what it has read
  edits,     \* counts the parts missing at first and the users' steps
  overtaken, \* history: requests since whose reads something was changed
  crossed,   \* history: <<f, g>> once a sync of f was undone under one of g
  drifted,   \* history: frameworks of whose first version something was missing
  lost       \* history: policies without a row at first, and templates of which
             \* users deleted a row

vars == <<db, version, ops, lock, job, edits, overtaken, crossed, drifted, lost>>

NoJob == [kind |-> "none"]

Manifest(f) == Manifests[f][version[f]]
In(m) == DOMAIN m.content

Row == [content : Contents, archived : BOOLEAN, finished : BOOLEAN]
NewRow(c) == [content |-> c, archived |-> FALSE, finished |-> FALSE]
Rows(d) == DOMAIN d.rows
Active(d, t) == {i \in Rows(d) : i[1] = t /\ ~d.rows[i].archived}

\* The rows ctlByTemplate, polByTemplate and taskByTemplate may hold: when a
\* template has several active rows, findMany's last one.
Choices(d, ts) ==
  {g \in [ts -> Rows(d) \cup {None}] :
     \A t \in ts : IF Active(d, t) = {} THEN g[t] = None ELSE g[t] \in Active(d, t)}

\* Deleting a row leaves drafts, links and edges behind.
Deleted_Links(d, gone) ==
  [d EXCEPT !.rows = [i \in Rows(d) \ gone |-> d.rows[i]],
            !.maps = {m \in @ : m[2] \notin gone},
            !.retired = {m \in @ : m[2] \notin gone}]

\* Deleting rows deletes what hangs on them.
Deleted(d, gone) ==
  [rows |-> [i \in Rows(d) \ gone |-> d.rows[i]],
   drafts |-> {v \in d.drafts : v[1] \notin gone},
   maps |-> {m \in d.maps : m[2] \notin gone},
   retired |-> {m \in d.retired : m[2] \notin gone},
   links |-> {l \in d.links : l[2] \notin gone /\ l[3] \notin gone},
   edges |-> {e \in d.edges : e[1] \notin gone /\ e[2] \notin gone}]

\* The rows with those of new written or added.
Written(rows, new) ==
  [i \in DOMAIN rows \cup DOMAIN new |->
     IF i \in DOMAIN new THEN new[i] ELSE rows[i]]

-----------------------------------------------------------------------------
\* The rows, maps, links and edges that the first versions give.
FirstRow(t) == <<t, 0>>
Instance(x) == IF x \in FormTypes THEN x ELSE FirstRow(x)
FirstRows(f)  == {FirstRow(t) : t \in In(Manifests[f][1])}
FirstMaps(f)  == {<<f, FirstRow(m[1]), m[2]>> : m \in Manifests[f][1].maps}
FirstLinks(f) == {<<f, FirstRow(e[1]), Instance(e[2])>> : e \in Manifests[f][1].edges}
FirstEdges(f) == {<<FirstRow(e[1]), Instance(e[2])>> : e \in Manifests[f][1].edges}

Whole ==
  LET mine(t) == {f \in Frameworks : t \in In(Manifests[f][1])}
      text(t) == Manifests[CHOOSE f \in mine(t) : TRUE][1].content[t]
  IN [rows |-> [i \in UNION {FirstRows(f) : f \in Frameworks} |-> NewRow(text(i[1]))],
      drafts |-> {},
      maps |-> UNION {FirstMaps(f) : f \in Frameworks},
      retired |-> {},
      links |-> UNION {FirstLinks(f) : f \in Frameworks},
      edges |-> UNION {FirstEdges(f) : f \in Frameworks}]

\* The organisation has all that the first version of f gives.
Complete(d, f) ==
  /\ FirstRows(f) \subseteq Rows(d) /\ FirstMaps(f) \subseteq d.maps
  /\ FirstLinks(f) \subseteq d.links /\ FirstEdges(f) \subseteq d.edges

\* Every framework is on its first version.  Instances made from that version
\* have all it gives.  Those that are older than versions were put on it by
\* backfill-framework-versions.ts, whatever their rows were, and may lack some.
\* (What they have beyond it is left out.)
Init ==
  /\ version = [f \in Frameworks |-> 1] /\ edits \in 0..MaxEdits
  /\ \E gone \in SUBSET Rows(Whole) :
       LET there == Deleted(Whole, gone) IN
       \E maps \in SUBSET there.maps, links \in SUBSET there.links,
          edges \in SUBSET there.edges :
         /\ edits = Cardinality(gone) + Cardinality(maps) + Cardinality(links)
                      + Cardinality(edges)
         /\ db = [there EXCEPT !.maps = @ \ maps, !.links = @ \ links, !.edges = @ \ edges]
         /\ lost = {i[1] : i \in {i \in gone : i[1] \in Policies}}
  /\ drifted = {f \in Frameworks : ~Complete(db, f)}
  /\ ops = <<>> /\ lock = None
  /\ job = [w \in Workers |-> NoJob]
  /\ overtaken = {} /\ crossed = {}

-----------------------------------------------------------------------------
(* Sync. *)

\* What other frameworks refer to is archived too.
Refs_None(f) == {}

\* Templates that other frameworks still refer to: buildCrossFrameworkRefs.
Refs(f) == UNION {In(Manifest(g)) : g \in Frameworks \ {f}}

\* Missing controls and tasks of the target are created whether the target adds
\* them or not, policies only when it does.
Missing(from, to, found) ==
  {t \in In(to) : found[t] = None /\ (t \in Policies => t \notin In(from))}

Removed(f, from, to, found) ==
  {t \in In(from) \ In(to) : found[t] # None /\ t \notin Refs(f)}

Retexted(from, to, found) ==
  {t \in In(from) \cap In(to) : found[t] # None /\ from.content[t] # to.content[t]}

\* isControlEdited, isTaskEdited, isPolicyEdited
IsEdited(row, m, t) == row.content # m.content[t]

\* Edges other frameworks made are recorded as this sync's.
NewEdges_All(d, es) == es

\* Only edges that were not there are recorded: another framework may own the
\* others.
NewEdges(d, es) == es \ d.edges

\* What a sync of f does to the templates and edges, given the rows it read.
Plan(d, seen, f, from, to, found) ==
  LET missing  == Missing(from, to, found)
      inst(t)  == IF t \in missing THEN <<t, Len(ops) + 1>> ELSE found[t]
      end(x)   == IF x \in FormTypes THEN x ELSE inst(x)
      retexted == Retexted(from, to, found)
      drafted  == {t \in retexted \cap Policies : seen.rows[found[t]].finished}
      rewritten == {t \in retexted \ drafted : ~IsEdited(seen.rows[found[t]], from, t)}
      maps(ms)  == {<<f, inst(m[1]), m[2]>> : m \in {m \in ms : inst(m[1]) # None}}
      joins(es) == {<<f, inst(e[1]), end(e[2])>> :
                      e \in {e \in es : inst(e[1]) # None /\ end(e[2]) # None}}
      dropped  == maps(from.maps \ to.maps)
  IN [created  |-> {inst(t) : t \in missing},
      archived |-> {found[t] : t \in Removed(f, from, to, found)},
      updated  |-> {<<found[t], seen.rows[found[t]].content>> : t \in rewritten},
      drafts   |-> {<<found[t], Len(ops) + 1>> : t \in drafted},
      mapped   |-> maps(to.maps) \ d.maps,
      revived  |-> maps(to.maps) \cap d.retired,
      retired  |-> (dropped \cap d.maps) \ d.retired,
      linked   |-> joins(to.edges) \ d.links,
      unlinked |-> joins(from.edges \ to.edges) \cap d.links,
      joined   |-> NewEdges(d, {<<l[2], l[3]>> : l \in joins(to.edges)})]

Firsts(pairs) == {p[1] : p \in pairs}
Ends(ls) == {l[2] : l \in ls} \cup {l[3] : l \in {l \in ls : l[3] \notin FormTypes}}

\* The tables after the sync.
Synced(d, u, to) ==
  LET texts == [i \in Firsts(u.updated) |-> [d.rows[i] EXCEPT !.content = to.content[i[1]]]]
      away  == [i \in u.archived |-> [d.rows[i] EXCEPT !.archived = TRUE]]
      made  == [i \in u.created |-> NewRow(to.content[i[1]])]
  IN [rows |-> Written(Written(Written(d.rows, texts), away), made),
      drafts |-> d.drafts \cup u.drafts,
      maps |-> d.maps \cup u.mapped,
      retired |-> (d.retired \ u.revived) \cup u.retired,
      links |-> (d.links \cup u.linked) \ u.unlinked,
      edges |-> d.edges \cup u.joined]

\* No statement of the sync meets a row that was deleted since it was read.
Appliable(d, u) ==
  u.archived \cup Firsts(u.updated) \cup Firsts(u.drafts)
    \cup {m[2] : m \in u.mapped} \cup Ends(u.linked)
      \subseteq Rows(d) \cup u.created

\* A request ends; when it committed, the others in flight were overtaken.
Busy == {w \in Workers : job[w] # NoJob}
Finish(w, others) ==
  /\ job' = [job EXCEPT ![w] = NoJob]
  /\ lock' = IF lock = w THEN None ELSE lock
  /\ overtaken' = (overtaken \cup others) \ {w}

\* The lock is taken before the instance, its version and its rows are read.
LockFree == lock = None

SyncRead(w) ==
  /\ job[w] = NoJob /\ LockFree
  /\ \E f \in Frameworks : \E v \in DOMAIN Manifests[f] \ {version[f]} :
       job' = [job EXCEPT ![w] = [kind |-> "sync", f |-> f, from |-> version[f],
                                  to |-> v, seen |-> db]]
  /\ lock' = w
  /\ UNCHANGED <<db, version, ops, edits, overtaken, crossed, drifted, lost>>

SyncWrite(w) ==
  /\ job[w].kind = "sync" /\ Len(ops) < MaxOps
  /\ LET f    == job[w].f
         from == Manifests[f][job[w].from]
         to   == Manifests[f][job[w].to]
         seen == job[w].seen
     IN \E found \in Choices(seen, In(from) \cup In(to)) :
          LET u == Plan(db, seen, f, from, to, found)
          IN /\ Appliable(db, u)
             /\ db' = Synced(db, u, to)
             /\ version' = [version EXCEPT ![f] = job[w].to]
             /\ ops' = Append(ops, [f |-> f, from |-> job[w].from, to |-> job[w].to,
                                    undo |-> u, rolledBack |-> FALSE])
  /\ Finish(w, Busy)
  /\ UNCHANGED <<edits, crossed, drifted, lost>>

\* A statement fails, the check refuses or the process dies: the transaction
\* leaves nothing behind.
Abort(w) ==
  /\ job[w] # NoJob
  /\ Finish(w, {})
  /\ UNCHANGED <<db, version, ops, edits, crossed, drifted, lost>>

-----------------------------------------------------------------------------
(* Rollback. *)

\* A sync in the middle of the chain may be undone.
IsLatest_Any(i) == ~ops[i].rolledBack

\* Only the latest sync that was not reversed can be rolled back.
IsLatest(i) ==
  /\ ~ops[i].rolledBack
  /\ \A j \in DOMAIN ops : j > i /\ ops[j].f = ops[i].f => ops[j].rolledBack

\* Published policies are not looked for.
NoDataLoss_TasksOnly(u) ==
  \A i \in u.created \cap Rows(db) : i[1] \in Tasks => ~db.rows[i].finished

\* assertNoDataLoss: tasks that are done and policies that are published since.
NoDataLoss(u) ==
  \A i \in u.created \cap Rows(db) : i[1] \notin Controls => ~db.rows[i].finished

RollbackCheck(w) ==
  /\ job[w] = NoJob
  /\ \E i \in DOMAIN ops :
       /\ IsLatest(i) /\ NoDataLoss(ops[i].undo)
       /\ job' = [job EXCEPT ![w] = [kind |-> "rollback", op |-> i]]
  /\ UNCHANGED <<db, version, ops, lock, edits, overtaken, crossed, drifted, lost>>

\* The tables after the undo, in the order of replayUndo.
Undone(d, u) ==
  LET cut   == Deleted(d, u.created)
      prev(i) == CHOOSE c \in Contents : <<i, c>> \in u.updated
      texts == [i \in Firsts(u.updated) |-> [cut.rows[i] EXCEPT !.content = prev(i)]]
      back  == [i \in u.archived |-> [cut.rows[i] EXCEPT !.archived = FALSE]]
  IN [rows |-> Written(Written(cut.rows, texts), back),
      drafts |-> cut.drafts \ u.drafts,
      maps |-> cut.maps \ u.mapped,
      retired |-> ((cut.retired \ u.mapped) \ u.retired) \cup u.revived,
      links |-> (cut.links \ u.linked) \cup u.unlinked,
      edges |-> cut.edges \ u.joined]

\* update and delete throw when the row is gone, createMany when a row it refers
\* to is; deleteMany does not mind.
Replayable(d, u) ==
  LET cut == Deleted(d, u.created)
  IN /\ u.archived \cup Firsts(u.updated) \cup Ends(u.unlinked) \subseteq Rows(cut)
     /\ u.drafts \subseteq cut.drafts
     /\ u.revived \cup u.retired \subseteq cut.maps \ u.mapped

\* What undoing op i goes under: later syncs of other frameworks that stand, and
\* of its own if they were made after this request's check.
Crossing(w, i) ==
  LET f       == ops[i].f
      above   == {j \in DOMAIN ops : j > i /\ ~ops[j].rolledBack}
      foreign == {ops[j].f : j \in above} \ {f}
  IN ({f} \X foreign)
       \cup {p \in {<<f, f>>} : w \in overtaken /\ ~IsLatest(i)}

RollbackWrite(w) ==
  /\ job[w].kind = "rollback" /\ LockFree
  /\ LET i == job[w].op IN
       /\ Replayable(db, ops[i].undo)
       /\ db' = Undone(db, ops[i].undo)
       /\ version' = [version EXCEPT ![ops[i].f] = ops[i].from]
       /\ ops' = [ops EXCEPT ![i].rolledBack = TRUE]
       /\ crossed' = crossed \cup Crossing(w, i)
  /\ Finish(w, Busy)
  /\ UNCHANGED <<edits, drifted, lost>>

-----------------------------------------------------------------------------
(* Users, through the services of controls, tasks and policies. *)

UserStep ==
  /\ edits < MaxEdits /\ edits' = edits + 1
  /\ overtaken' = overtaken \cup Busy
  /\ UNCHANGED <<version, ops, lock, job, crossed, drifted>>

Edit ==
  /\ \E t \in Templates : \E i \in Active(db, t) :
       \E c \in Contents \ {db.rows[i].content} :
         db' = [db EXCEPT !.rows[i].content = c]
  /\ UserStep
  /\ UNCHANGED lost

\* A task is done or taken up again, a policy is published or back in draft.
SetStatus ==
  /\ \E t \in Tasks \cup Policies : \E i \in Active(db, t) :
       db' = [db EXCEPT !.rows[i].finished = ~@]
  /\ UserStep
  /\ UNCHANGED lost

Delete ==
  /\ \E i \in Rows(db) : db' = Deleted(db, {i}) /\ lost' = lost \cup {i[1]}
  /\ UserStep

\* deleteVersion, of a draft that a sync added
DeleteDraft ==
  /\ \E v \in db.drafts : db' = [db EXCEPT !.drafts = @ \ {v}]
  /\ UserStep
  /\ UNCHANGED lost

Next ==
  \/ \E w \in Workers : \/ SyncRead(w) \/ SyncWrite(w) \/ Abort(w)
                        \/ RollbackCheck(w) \/ RollbackWrite(w)
  \/ Edit \/ SetStatus \/ Delete \/ DeleteDraft

Spec == Init /\ [][Next]_vars
-----------------------------------------------------------------------------
\* Types; maps, links, edges and drafts belong to rows that exist; and only a
\* sync holds the lock between its reads and its writes.
TypeOK ==
  /\ db.rows \in [Rows(db) -> Row] /\ Rows(db) \subseteq Templates \X (0..Len(ops))
  /\ \A v \in db.drafts : v[1] \in Rows(db) /\ v[2] \in 1..Len(ops)
  /\ db.maps \subseteq Frameworks \X Rows(db) \X Requirements
  /\ db.retired \subseteq db.maps
  /\ db.links \subseteq Frameworks \X Rows(db) \X (Rows(db) \cup FormTypes)
  /\ db.edges \subseteq Rows(db) \X (Rows(db) \cup FormTypes)
  /\ \A f \in Frameworks : version[f] \in DOMAIN Manifests[f]
  /\ Len(ops) <= MaxOps /\ edits <= MaxEdits
  /\ \A w \in Workers : job[w].kind = "sync" <=> lock = w
  /\ overtaken \subseteq Workers /\ lost \subseteq Templates
  /\ crossed \subseteq Frameworks \X Frameworks /\ drifted \subseteq Frameworks

\* What a sync records is enough: a rollback right after it would succeed and
\* bring every row, text, draft, mapping and link back to what it was, whatever
\* was shared, edited, published, archived or deleted before.  (Users who write
\* while the sync runs are not undone.)
SyncIsUndoable ==
  [][Len(ops') > Len(ops) /\ (\A w \in Workers : job'[w] # job[w] => w \notin overtaken)
       => LET undo == ops'[Len(ops')].undo
          IN Replayable(db', undo) /\ Undone(db', undo) = db]_vars

\* A framework is on the version its history says: each of its syncs that was
\* not rolled back started from what the one before it reached, and the last
\* one reached the current version; unless a rollback acted on a check that no
\* longer held.
VersionFollowsSyncs ==
  \A f \in Frameworks : <<f, f>> \notin crossed =>
    LET kept == {i \in DOMAIN ops : ops[i].f = f /\ ~ops[i].rolledBack}
        reached(v, n) ==
          LET before == {i \in kept : i < n}
          IN /\ before = {} => v = 1
             /\ \A i \in before : (\A j \in before : j <= i) => v = ops[i].to
    IN /\ reached(version[f], Len(ops) + 1)
       /\ \A i \in kept : reached(ops[i].from, i)

\* The frameworks that lacked nothing at first, or whose last sync is not undone.
Reconciled ==
  (Frameworks \ drifted) \cup {ops[i].f : i \in {i \in DOMAIN ops : ~ops[i].rolledBack}}

\* Frameworks that share rows do not take them from each other, and a sync mends
\* what an instance lacked of its version: every template of the current manifest
\* of a reconciled framework has one active row, mapped and linked as the manifest
\* says, as long as no sync is undone under a later one (of this or another
\* framework).  That is not so for policies, of which a row that was missing at
\* first stays missing, and for what users deleted.
ManifestCovered ==
  crossed = {} =>
    \A f \in Reconciled : \A t \in In(Manifest(f)) \ lost :
      \E i \in Active(db, t) :
        /\ Active(db, t) = {i}
        /\ \A m \in Manifest(f).maps :
             m[1] = t => <<f, i, m[2]>> \in db.maps \ db.retired
        /\ \A e \in Manifest(f).edges : e[1] = t /\ e[2] \notin lost =>
             \E x \in IF e[2] \in FormTypes THEN {e[2]} ELSE Active(db, e[2]) :
               <<f, i, x>> \in db.links /\ <<i, x>> \in db.edges

\* A rollback does not delete a task that was done or a policy that was
\* published before it was asked for.
WorkKept ==
  [][\A w \in Workers :
       job[w].kind = "rollback" /\ job'[w] = NoJob /\ w \notin overtaken
         => \A i \in Rows(db) : i[1] \notin Controls /\ db.rows[i].finished
                                  => i \in Rows(db')]_vars
=============================================================================
