--------------------- MODULE FrameworkVersioning_proofs ---------------------
(***************************************************************************)
(* Proofs about FrameworkVersioning, for any frameworks, manifests and     *)
(* requests.                                                               *)
(***************************************************************************)
EXTENDS FrameworkVersioning, TLAPS

USE IdsAssumption

Ids == Templates \X Nat
Map == Frameworks \X Ids \X Requirements
Link == Frameworks \X Ids \X (Ids \cup FormTypes)
Edge == Ids \X (Ids \cup FormTypes)
Versions == UNION {DOMAIN Manifests[f] : f \in Frameworks}

\* What a sync records, and the syncs.
Undo == [created : SUBSET Ids, archived : SUBSET Ids,
         updated : SUBSET (Ids \X Contents), drafts : SUBSET (Ids \X Nat),
         mapped : SUBSET Map, revived : SUBSET Map, retired : SUBSET Map,
         linked : SUBSET Link, unlinked : SUBSET Link, joined : SUBSET Edge]
Op == [f : Frameworks, from : Versions, to : Versions, undo : Undo,
       rolledBack : BOOLEAN]

History == /\ ops \in Seq(Op)
           /\ \A i \in DOMAIN ops : ops[i].from \in DOMAIN Manifests[ops[i].f]

\* Tables whose rows, drafts, maps, links and edges belong together, after n syncs.
Tables(d, n) ==
  /\ d = [rows |-> d.rows, drafts |-> d.drafts, maps |-> d.maps,
          retired |-> d.retired, links |-> d.links, edges |-> d.edges]
  /\ d.rows \in [Rows(d) -> Row] /\ Rows(d) \subseteq Templates \X (0..n)
  /\ \A v \in d.drafts : v[1] \in Rows(d) /\ v[2] \in 1..n
  /\ d.drafts \subseteq Ids \X Nat
  /\ d.maps \subseteq Frameworks \X Rows(d) \X Requirements
  /\ d.retired \subseteq d.maps
  /\ d.links \subseteq Frameworks \X Rows(d) \X (Rows(d) \cup FormTypes)
  /\ d.edges \subseteq Rows(d) \X (Rows(d) \cup FormTypes)

\* The rows a sync read.
ReadRows(seen) ==
  seen.rows \in [Rows(seen) -> Row] /\ Rows(seen) \subseteq Ids

\* What holds of a request in flight: the version of the framework cannot have
\* changed under a sync, and what was read is still true when nothing was
\* changed since.
SyncJob(w) ==
  LET j == job[w] IN
  /\ j.kind = "sync" /\ j.f \in Frameworks /\ j.to \in DOMAIN Manifests[j.f]
  /\ j.from = version[j.f]
  /\ ReadRows(j.seen)
  /\ w \notin overtaken => j.seen = db

RollbackJob(w) ==
  LET j == job[w] IN
  /\ j.kind = "rollback" /\ j.op \in DOMAIN ops
  /\ w \notin overtaken => IsLatest(j.op) /\ NoDataLoss(ops[j.op].undo)

Jobs ==
  /\ DOMAIN job = Workers
  /\ \A w \in Workers : job[w] = NoJob \/ SyncJob(w) \/ RollbackJob(w)

\* The versions, the lock and the counters.
Control ==
  /\ DOMAIN version = Frameworks
  /\ \A f \in Frameworks : version[f] \in DOMAIN Manifests[f]
  /\ Len(ops) <= MaxOps /\ edits \in 0..MaxEdits
  /\ overtaken \subseteq Workers /\ lost \subseteq Templates
  /\ crossed \subseteq Frameworks \X Frameworks /\ drifted \subseteq Frameworks
  /\ lock \in Workers \cup {None}
  /\ \A w \in Workers : job[w].kind = "sync" <=> lock = w

IInv == /\ Tables(db, Len(ops)) /\ History /\ Jobs /\ Control
        /\ VersionFollowsSyncs

-----------------------------------------------------------------------------
(* What a sync plans *)

\* The facts about what a sync records (u) when it leads to the manifest m, that
\* suffice to apply it and to undo it: created rows are new, archived ones were
\* active, texts are kept as they were, and of mappings, links and edges only
\* those are noted that were not there, or that were there.
Recorded(u, d, seen, m, n) ==
  /\ u \in Undo
  /\ \A i \in u.created : i[2] = n + 1 /\ i[1] \in In(m)
  /\ \A i \in u.archived : i \in Rows(seen) /\ ~seen.rows[i].archived /\ i[1] \notin In(m)
  /\ \A p \in u.updated : /\ p = <<p[1], seen.rows[p[1]].content>>
                          /\ p[1] \in Rows(seen) /\ p[1][1] \in In(m)
  /\ \A v \in u.drafts : v[1] \in Rows(seen) /\ v[2] = n + 1
  /\ u.mapped \cap d.maps = {}
  /\ u.revived \subseteq d.retired
  /\ u.retired \subseteq d.maps /\ u.retired \cap d.retired = {}
  /\ u.linked \cap d.links = {} /\ u.unlinked \subseteq d.links
  /\ u.joined \cap d.edges = {}
  /\ \A e \in u.joined : \E l \in u.linked \cup d.links : e = <<l[2], l[3]>>

\* Reading a row of each template gives an active row of it or none.
LEMMA FoundFacts ==
  ASSUME NEW seen, ReadRows(seen), NEW ts, NEW found \in Choices(seen, ts), NEW t \in ts,
         found[t] # None
  PROVE  /\ found[t] \in Rows(seen) /\ found[t][1] = t
         /\ ~seen.rows[found[t]].archived
BY DEF Choices, Active

\* A sync plans what is recorded as undoing it expects.
LEMMA PlanFacts ==
  ASSUME NEW d, NEW seen, NEW f \in Frameworks, NEW from, NEW to,
         IsManifest(from), IsManifest(to), Len(ops) \in Nat,
         Tables(d, Len(ops)), ReadRows(seen),
         NEW found \in Choices(seen, In(from) \cup In(to))
  PROVE  Recorded(Plan(d, seen, f, from, to, found), d, seen, to, Len(ops))
<1> DEFINE n == Len(ops)
           missing == Missing(from, to, found)
           inst(t) == IF t \in missing THEN <<t, n + 1>> ELSE found[t]
           end(x) == IF x \in FormTypes THEN x ELSE inst(x)
           retexted == Retexted(from, to, found)
           drafted == {t \in retexted \cap Policies : seen.rows[found[t]].finished}
           rewritten == {t \in retexted \ drafted : ~IsEdited(seen.rows[found[t]], from, t)}
           maps(ms) == {<<f, inst(m[1]), m[2]>> : m \in {m \in ms : inst(m[1]) # None}}
           joins(es) == {<<f, inst(e[1]), end(e[2])>> :
                           e \in {e \in es : inst(e[1]) # None /\ end(e[2]) # None}}
           u == Plan(d, seen, f, from, to, found)
<1>1. /\ In(from) \subseteq Templates /\ In(to) \subseteq Templates
      /\ from.maps \subseteq (Controls \cap In(from)) \X Requirements
      /\ to.maps \subseteq (Controls \cap In(to)) \X Requirements
      /\ from.edges \subseteq (Controls \cap In(from)) \X (In(from) \cup FormTypes)
      /\ to.edges \subseteq (Controls \cap In(to)) \X (In(to) \cup FormTypes)
  BY DEF IsManifest, In
<1>2. missing \subseteq In(to) /\ retexted \subseteq In(from) \cap In(to)
  BY DEF Missing, Retexted
<1>3. \A t \in In(from) \cup In(to) : found[t] # None =>
        found[t] \in Rows(seen) /\ found[t][1] = t /\ ~seen.rows[found[t]].archived
  BY FoundFacts
<1>4. \A t \in In(from) \cup In(to) : inst(t) # None => inst(t) \in Ids
  BY <1>1, <1>2, <1>3 DEF ReadRows, Ids
<1>5. /\ u.created = {inst(t) : t \in missing}
      /\ u.archived = {found[t] : t \in Removed(f, from, to, found)}
      /\ u.updated = {<<found[t], seen.rows[found[t]].content>> : t \in rewritten}
      /\ u.drafts = {<<found[t], n + 1>> : t \in drafted}
  BY DEF Plan
<1>6. /\ u.mapped = maps(to.maps) \ d.maps
      /\ u.revived = maps(to.maps) \cap d.retired
      /\ u.retired = (maps(from.maps \ to.maps) \cap d.maps) \ d.retired
  BY DEF Plan
<1>7. /\ u.linked = joins(to.edges) \ d.links
      /\ u.unlinked = joins(from.edges \ to.edges) \cap d.links
      /\ u.joined = {<<l[2], l[3]>> : l \in joins(to.edges)} \ d.edges
  BY DEF Plan, NewEdges
<1>8. \A i \in u.created : i \in Ids /\ i[2] = n + 1 /\ i[1] \in In(to)
  BY <1>1, <1>2, <1>5 DEF Ids
<1>9. \A i \in u.archived : /\ i \in Ids /\ i \in Rows(seen)
                            /\ ~seen.rows[i].archived /\ i[1] \notin In(to)
  <2> TAKE i \in u.archived
  <2>1. PICK t \in Removed(f, from, to, found) : i = found[t]
    BY <1>5
  <2>2. t \in In(from) /\ t \notin In(to) /\ found[t] # None
    BY <2>1 DEF Removed
  <2> QED BY <2>1, <2>2, <1>3 DEF ReadRows
<1>10. \A t \in retexted : /\ found[t] \in Rows(seen) /\ found[t] \in Ids
                           /\ found[t][1] = t /\ t \in In(to)
                           /\ seen.rows[found[t]].content \in Contents
  <2> TAKE t \in retexted
  <2>1. found[t] # None /\ t \in In(from) /\ t \in In(to)
    BY DEF Retexted
  <2>2. found[t] \in Rows(seen) /\ found[t][1] = t
    BY <2>1, <1>3
  <2>3. seen.rows[found[t]] \in Row
    BY <2>2 DEF ReadRows
  <2> QED BY <2>1, <2>2, <2>3 DEF ReadRows, Row
<1>11. \A p \in u.updated : /\ p \in Ids \X Contents
                            /\ p = <<p[1], seen.rows[p[1]].content>>
                            /\ p[1] \in Rows(seen) /\ p[1][1] \in In(to)
  <2> TAKE p \in u.updated
  <2>1. PICK t \in rewritten : p = <<found[t], seen.rows[found[t]].content>>
    BY <1>5
  <2> QED BY <2>1, <1>10
<1>12. \A v \in u.drafts : v \in Ids \X Nat /\ v[1] \in Rows(seen) /\ v[2] = n + 1
  <2> TAKE v \in u.drafts
  <2>1. PICK t \in drafted : v = <<found[t], n + 1>>
    BY <1>5
  <2> QED BY <2>1, <1>10
<1> HIDE DEF inst, u
<1>13. maps(to.maps) \subseteq Map
  BY <1>1, <1>4 DEF Map
<1>14. joins(to.edges) \subseteq Link
  <2> SUFFICES ASSUME NEW e \in to.edges, inst(e[1]) # None, end(e[2]) # None
               PROVE  <<f, inst(e[1]), end(e[2])>> \in Link
    OBVIOUS
  <2>1. e[1] \in In(to) /\ e[2] \in In(to) \cup FormTypes
    BY <1>1
  <2>2. inst(e[1]) \in Ids
    BY <2>1, <1>4
  <2>3. end(e[2]) \in Ids \cup FormTypes
    BY <2>1, <1>4
  <2> QED BY <2>2, <2>3 DEF Link
<1>15. d.maps \subseteq Map /\ d.retired \subseteq Map /\ d.links \subseteq Link
  BY DEF Tables, Map, Link, Ids
<1>16. /\ u.mapped \subseteq Map /\ u.revived \subseteq Map /\ u.retired \subseteq Map
       /\ u.linked \subseteq Link /\ u.unlinked \subseteq Link
  BY <1>6, <1>7, <1>13, <1>14, <1>15
<1>17. \A e \in u.joined : /\ e \in Edge
                           /\ \E l \in u.linked \cup d.links : e = <<l[2], l[3]>>
  <2> TAKE e \in u.joined
  <2>1. PICK l \in joins(to.edges) : e = <<l[2], l[3]>>
    BY <1>7
  <2>2. l \in u.linked \cup d.links /\ l \in Link
    BY <1>7, <1>14
  <2> QED BY <2>1, <2>2 DEF Link, Edge
<1>18. u \in Undo
  <2>1. /\ u.created \subseteq Ids /\ u.archived \subseteq Ids
        /\ u.updated \subseteq Ids \X Contents /\ u.drafts \subseteq Ids \X Nat
        /\ u.joined \subseteq Edge
    BY <1>8, <1>9, <1>11, <1>12, <1>17
  <2>2. u = [created |-> u.created, archived |-> u.archived, updated |-> u.updated,
             drafts |-> u.drafts, mapped |-> u.mapped, revived |-> u.revived,
             retired |-> u.retired, linked |-> u.linked, unlinked |-> u.unlinked,
             joined |-> u.joined]
    BY DEF u, Plan
  <2> QED BY <2>1, <2>2, <1>16 DEF Undo
<1>19. /\ u.mapped \cap d.maps = {} /\ u.revived \subseteq d.retired
       /\ u.retired \subseteq d.maps /\ u.retired \cap d.retired = {}
       /\ u.linked \cap d.links = {} /\ u.unlinked \subseteq d.links
       /\ u.joined \cap d.edges = {}
  BY <1>6, <1>7
<1> QED
  <2> SUFFICES Recorded(u, d, seen, to, n)
    BY DEF u
  <2> QED BY <1>8, <1>9, <1>11, <1>12, <1>17, <1>18, <1>19 DEF Recorded

-----------------------------------------------------------------------------
(* Applying a record *)

\* Row i after a sync, and after an undo that deleted rows of cut first.
SyncedRow(d, u, to, i) ==
  IF i \in u.created THEN NewRow(to.content[i[1]])
  ELSE IF i \in u.archived THEN [d.rows[i] EXCEPT !.archived = TRUE]
  ELSE IF i \in Firsts(u.updated) THEN [d.rows[i] EXCEPT !.content = to.content[i[1]]]
  ELSE d.rows[i]

OldText(u, i) == CHOOSE c \in Contents : <<i, c>> \in u.updated

UndoneRow(cut, u, i) ==
  IF i \in u.archived THEN [cut.rows[i] EXCEPT !.archived = FALSE]
  ELSE IF i \in Firsts(u.updated) THEN [cut.rows[i] EXCEPT !.content = OldText(u, i)]
  ELSE cut.rows[i]

\* The rows after a sync: its texts, archived rows and new rows, and the rest as
\* they were.
LEMMA SyncedRows ==
  ASSUME NEW d, NEW u, NEW to, NEW e, e = Synced(d, u, to)
  PROVE  /\ Rows(e) = Rows(d) \cup Firsts(u.updated) \cup u.archived \cup u.created
         /\ \A i \in Rows(e) : e.rows[i] = SyncedRow(d, u, to, i)
BY DEF Synced, Written, Rows, SyncedRow

LEMMA SyncedFunction ==
  ASSUME NEW d, NEW u, NEW to, NEW e, e = Synced(d, u, to)
  PROVE  e.rows = [i \in Rows(e) |-> e.rows[i]]
BY DEF Synced, Written, Rows

\* A sync whose statements all found their rows leaves tables that fit together.
LEMMA SyncedTables ==
  ASSUME NEW d, NEW seen, NEW u, NEW to, NEW n \in Nat, IsManifest(to),
         Tables(d, n), ReadRows(seen), Recorded(u, d, seen, to, n), Appliable(d, u)
  PROVE  Tables(Synced(d, u, to), n + 1)
<1> DEFINE e == Synced(d, u, to)
<1>1. /\ u.created \subseteq Templates \X {n + 1}
      /\ \A i \in u.created : to.content[i[1]] \in Contents
      /\ \A i \in Firsts(u.updated) : to.content[i[1]] \in Contents
  BY DEF Recorded, Undo, Ids, IsManifest, In, Firsts
<1>2. /\ Firsts(u.updated) \cup u.archived \subseteq Rows(d) \cup u.created
      /\ \A v \in u.drafts : v[1] \in Rows(d) \cup u.created
      /\ \A m \in u.mapped : m[2] \in Rows(d) \cup u.created
      /\ \A l \in u.linked : /\ l[2] \in Rows(d) \cup u.created
                             /\ l[3] \in Rows(d) \cup u.created \cup FormTypes
  BY DEF Appliable, Firsts, Ends
<1> HIDE DEF e
<1>0. e = Synced(d, u, to)
  BY DEF e
<1>3. Rows(e) = Rows(d) \cup u.created
  BY <1>0, <1>2, SyncedRows
<1>r. \A i \in Rows(e) : e.rows[i] = SyncedRow(d, u, to, i)
  BY <1>0, SyncedRows
<1>4. \A i \in Rows(e) : e.rows[i] \in Row
  <2> TAKE i \in Rows(e)
  <2>1. CASE i \in u.created
    <3>1. e.rows[i] = NewRow(to.content[i[1]])
      BY <2>1, <1>r DEF SyncedRow
    <3> QED BY <2>1, <3>1, <1>1 DEF NewRow, Row
  <2>2. CASE i \notin u.created
    <3>1. d.rows[i] \in Row
      BY <2>2, <1>3 DEF Tables
    <3>2. CASE i \in u.archived
      BY <2>2, <3>1, <3>2, <1>r DEF SyncedRow, Row
    <3>3. CASE i \notin u.archived /\ i \in Firsts(u.updated)
      BY <2>2, <3>1, <3>3, <1>1, <1>r DEF SyncedRow, Row
    <3>4. CASE i \notin u.archived /\ i \notin Firsts(u.updated)
      BY <2>2, <3>1, <3>4, <1>r DEF SyncedRow
    <3> QED BY <3>2, <3>3, <3>4
  <2> QED BY <2>1, <2>2
<1>5. e.rows \in [Rows(e) -> Row] /\ Rows(e) \subseteq Templates \X (0..(n + 1))
  <2>1. e.rows = [i \in Rows(e) |-> e.rows[i]]
    BY <1>0, SyncedFunction
  <2>2. Rows(e) \subseteq Templates \X (0..(n + 1))
    BY <1>1, <1>3 DEF Tables
  <2> QED BY <2>1, <2>2, <1>4
<1>6. /\ \A v \in e.drafts : v[1] \in Rows(e) /\ v[2] \in 1..(n + 1)
      /\ e.drafts \subseteq Ids \X Nat
  <2>1. e.drafts = d.drafts \cup u.drafts
    BY <1>0 DEF Synced
  <2> QED BY <2>1, <1>2, <1>3 DEF Tables, Recorded, Undo
<1>7. e.maps \subseteq Frameworks \X Rows(e) \X Requirements /\ e.retired \subseteq e.maps
  <2>1. e.maps = d.maps \cup u.mapped /\ e.retired = (d.retired \ u.revived) \cup u.retired
    BY <1>0 DEF Synced
  <2>2. u.mapped \subseteq Frameworks \X Rows(e) \X Requirements
    BY <1>2, <1>3 DEF Recorded, Undo, Map
  <2> QED BY <2>1, <2>2, <1>3 DEF Tables, Recorded
<1>8. u.linked \subseteq Frameworks \X Rows(e) \X (Rows(e) \cup FormTypes)
  BY <1>2, <1>3 DEF Recorded, Undo, Link
<1>9. d.links \subseteq Frameworks \X Rows(e) \X (Rows(e) \cup FormTypes)
  BY <1>3 DEF Tables
<1>10. e.links \subseteq Frameworks \X Rows(e) \X (Rows(e) \cup FormTypes)
  BY <1>0, <1>8, <1>9 DEF Synced
<1>11. u.joined \subseteq Rows(e) \X (Rows(e) \cup FormTypes)
  BY <1>8, <1>9 DEF Recorded
<1>12. e.edges \subseteq Rows(e) \X (Rows(e) \cup FormTypes)
  <2>1. e.edges = d.edges \cup u.joined
    BY <1>0 DEF Synced
  <2> QED BY <2>1, <1>3, <1>11 DEF Tables
<1>13. e = [rows |-> e.rows, drafts |-> e.drafts, maps |-> e.maps,
            retired |-> e.retired, links |-> e.links, edges |-> e.edges]
  BY <1>0 DEF Synced
<1> QED BY <1>0, <1>5, <1>6, <1>7, <1>10, <1>12, <1>13 DEF Tables

\* Deleting rows with what hangs on them leaves tables that fit together.
LEMMA DeletedTables ==
  ASSUME NEW d, NEW n, Tables(d, n), NEW gone
  PROVE  Tables(Deleted(d, gone), n) /\ Rows(Deleted(d, gone)) = Rows(d) \ gone
<1> DEFINE e == Deleted(d, gone)
<1>1. Rows(e) = Rows(d) \ gone /\ \A i \in Rows(e) : e.rows[i] = d.rows[i]
  BY DEF Deleted, Rows
<1>2. e.rows = [i \in Rows(e) |-> e.rows[i]]
  BY <1>1 DEF Deleted, Rows
<1>3. e.rows \in [Rows(e) -> Row]
  BY <1>1, <1>2 DEF Tables
<1>4. /\ \A v \in e.drafts : v[1] \in Rows(e) /\ v[2] \in 1..n
      /\ e.drafts \subseteq Ids \X Nat
      /\ e.maps \subseteq Frameworks \X Rows(e) \X Requirements
      /\ e.retired \subseteq e.maps
  BY <1>1 DEF Deleted, Tables
<1>5. /\ e.links \subseteq Frameworks \X Rows(e) \X (Rows(e) \cup FormTypes)
      /\ e.edges \subseteq Rows(e) \X (Rows(e) \cup FormTypes)
  BY <1>1 DEF Deleted, Tables
<1>6. e = [rows |-> e.rows, drafts |-> e.drafts, maps |-> e.maps,
           retired |-> e.retired, links |-> e.links, edges |-> e.edges]
  BY DEF Deleted
<1>7. Rows(e) \subseteq Templates \X (0..n)
  BY <1>1 DEF Tables
<1> QED BY <1>1, <1>3, <1>4, <1>5, <1>6, <1>7 DEF Tables

\* The rows after an undo: old texts and rows back from the archive, and the
\* rest as they were.
LEMMA UndoneRows ==
  ASSUME NEW d, NEW u, NEW cut, cut = Deleted(d, u.created), NEW e, e = Undone(d, u)
  PROVE  /\ Rows(e) = Rows(cut) \cup Firsts(u.updated) \cup u.archived
         /\ \A i \in Rows(e) : e.rows[i] = UndoneRow(cut, u, i)
BY DEF Undone, Written, Rows, UndoneRow, OldText

LEMMA UndoneFunction ==
  ASSUME NEW d, NEW u, NEW e, e = Undone(d, u)
  PROVE  e.rows = [i \in Rows(e) |-> e.rows[i]]
BY DEF Undone, Written, Rows

LEMMA UndoneFields ==
  ASSUME NEW d, NEW u, NEW cut, cut = Deleted(d, u.created), NEW e, e = Undone(d, u)
  PROVE  /\ e.drafts = cut.drafts \ u.drafts
         /\ e.maps = cut.maps \ u.mapped
         /\ e.retired = ((cut.retired \ u.mapped) \ u.retired) \cup u.revived
         /\ e.links = (cut.links \ u.linked) \cup u.unlinked
         /\ e.edges = cut.edges \ u.joined
BY DEF Undone

LEMMA UndoneShape ==
  ASSUME NEW d, NEW u, NEW e, e = Undone(d, u)
  PROVE  e = [rows |-> e.rows, drafts |-> e.drafts, maps |-> e.maps,
              retired |-> e.retired, links |-> e.links, edges |-> e.edges]
BY DEF Undone

\* A rollback whose statements all found their rows leaves tables that fit
\* together.
LEMMA UndoneTables ==
  ASSUME NEW d, NEW n \in Nat, Tables(d, n), NEW u \in Undo, Replayable(d, u)
  PROVE  Tables(Undone(d, u), n) /\ Rows(Undone(d, u)) = Rows(d) \ u.created
<1>1. PICK cut : cut = Deleted(d, u.created)
  OBVIOUS
<1>2. PICK e : e = Undone(d, u)
  OBVIOUS
<1>3. Tables(cut, n) /\ Rows(cut) = Rows(d) \ u.created
  BY <1>1, DeletedTables
<1>4. /\ Firsts(u.updated) \subseteq Rows(cut) /\ u.archived \subseteq Rows(cut)
      /\ \A l \in u.unlinked : l[2] \in Rows(cut) /\ l[3] \in Rows(cut) \cup FormTypes
      /\ u.revived \subseteq cut.maps \ u.mapped
  BY <1>1 DEF Replayable, Ends
<1>5. Rows(e) = Rows(cut)
  <2>1. Rows(e) = Rows(cut) \cup Firsts(u.updated) \cup u.archived
    BY <1>1, <1>2, UndoneRows
  <2> QED BY <2>1, <1>4
<1>6. \A i \in Rows(e) : e.rows[i] = UndoneRow(cut, u, i)
  BY <1>1, <1>2, UndoneRows
<1>7. \A i \in Rows(e) : e.rows[i] \in Row
  <2> TAKE i \in Rows(e)
  <2>1. cut.rows[i] \in Row
    BY <1>3, <1>5 DEF Tables
  <2>2. CASE i \in u.archived
    BY <2>1, <2>2, <1>6 DEF UndoneRow, Row
  <2>3. CASE i \notin u.archived /\ i \in Firsts(u.updated)
    <3>1. \E c \in Contents : <<i, c>> \in u.updated
      BY <2>3 DEF Firsts, Undo
    <3>2. OldText(u, i) \in Contents
      BY <3>1 DEF OldText
    <3>3. e.rows[i] = [cut.rows[i] EXCEPT !.content = OldText(u, i)]
      BY <2>3, <1>6 DEF UndoneRow
    <3> QED BY <2>1, <3>2, <3>3 DEF Row
  <2>4. CASE i \notin u.archived /\ i \notin Firsts(u.updated)
    BY <2>1, <2>4, <1>6 DEF UndoneRow
  <2> QED BY <2>2, <2>3, <2>4
<1>8. e.rows \in [Rows(e) -> Row] /\ Rows(e) \subseteq Templates \X (0..n)
  <2>1. e.rows = [i \in Rows(e) |-> e.rows[i]]
    BY <1>2, UndoneFunction
  <2> QED BY <2>1, <1>3, <1>5, <1>7 DEF Tables
<1>9. /\ e.drafts = cut.drafts \ u.drafts
      /\ e.maps = cut.maps \ u.mapped
      /\ e.retired = ((cut.retired \ u.mapped) \ u.retired) \cup u.revived
      /\ e.links = (cut.links \ u.linked) \cup u.unlinked
      /\ e.edges = cut.edges \ u.joined
  BY <1>1, <1>2, UndoneFields
<1>10. u.unlinked \subseteq Frameworks \X Rows(e) \X (Rows(e) \cup FormTypes)
  BY <1>4, <1>5 DEF Undo, Link
<1>11. e = [rows |-> e.rows, drafts |-> e.drafts, maps |-> e.maps,
            retired |-> e.retired, links |-> e.links, edges |-> e.edges]
  BY <1>2, UndoneShape
<1>12. /\ \A v \in e.drafts : v[1] \in Rows(e) /\ v[2] \in 1..n
       /\ e.drafts \subseteq Ids \X Nat
  BY <1>3, <1>5, <1>9 DEF Tables
<1>13. e.maps \subseteq Frameworks \X Rows(e) \X Requirements /\ e.retired \subseteq e.maps
  BY <1>3, <1>4, <1>5, <1>9 DEF Tables
<1>14. /\ e.links \subseteq Frameworks \X Rows(e) \X (Rows(e) \cup FormTypes)
       /\ e.edges \subseteq Rows(e) \X (Rows(e) \cup FormTypes)
  BY <1>3, <1>5, <1>9, <1>10 DEF Tables
<1>15. Tables(e, n)
  BY <1>8, <1>11, <1>12, <1>13, <1>14 DEF Tables
<1> QED BY <1>2, <1>3, <1>5, <1>15

\* What a sync that worked on what it had read records is enough to undo it:
\* the rollback finds every row it changes, and all is as it was.
LEMMA UndoneSynced ==
  ASSUME NEW d, NEW u, NEW to, NEW n \in Nat, Tables(d, n), Recorded(u, d, d, to, n)
  PROVE  Replayable(Synced(d, u, to), u) /\ Undone(Synced(d, u, to), u) = d
<1>s. PICK s : s = Synced(d, u, to)
  OBVIOUS
<1>c. PICK cut : cut = Deleted(s, u.created)
  OBVIOUS
<1>e. PICK e : e = Undone(s, u)
  OBVIOUS
<1>1. \A i \in Rows(d) : i \notin u.created /\ i \notin FormTypes
  BY DEF Tables, Recorded
<1>2. /\ Firsts(u.updated) \subseteq Rows(d) /\ u.archived \subseteq Rows(d)
      /\ Firsts(u.updated) \cap u.archived = {}
  BY DEF Recorded, Firsts
<1>3. Rows(s) = Rows(d) \cup u.created
  BY <1>s, <1>2, SyncedRows
<1>4. Rows(cut) = Rows(d) /\ \A i \in Rows(d) : cut.rows[i] = s.rows[i]
  BY <1>c, <1>1, <1>3 DEF Deleted, Rows
<1>5. \A i \in Rows(d) : s.rows[i] = SyncedRow(d, u, to, i)
  BY <1>s, <1>1, <1>3, SyncedRows
<1>u. /\ Rows(e) = Rows(cut) \cup Firsts(u.updated) \cup u.archived
      /\ \A i \in Rows(e) : e.rows[i] = UndoneRow(cut, u, i)
  BY <1>c, <1>e, UndoneRows
<1>6. e.rows = d.rows
  <2>1. Rows(e) = Rows(d)
    BY <1>2, <1>4, <1>u
  <2>2. ASSUME NEW i \in Rows(d) PROVE e.rows[i] = d.rows[i]
    <3>1. d.rows[i] \in Row
      BY DEF Tables
    <3>2. CASE i \in u.archived
      <4>1. ~d.rows[i].archived
        BY <3>2 DEF Recorded
      <4>2. e.rows[i] = [[d.rows[i] EXCEPT !.archived = TRUE] EXCEPT !.archived = FALSE]
        BY <2>1, <3>2, <1>1, <1>4, <1>5, <1>u DEF SyncedRow, UndoneRow
      <4>3. [[d.rows[i] EXCEPT !.archived = TRUE] EXCEPT !.archived = FALSE]
              = [d.rows[i] EXCEPT !.archived = FALSE]
        BY <3>1 DEF Row
      <4>4. [d.rows[i] EXCEPT !.archived = FALSE] = d.rows[i]
        BY <3>1, <4>1 DEF Row
      <4> QED BY <4>2, <4>3, <4>4
    <3>3. CASE i \notin u.archived /\ i \in Firsts(u.updated)
      <4>1. PICK p \in u.updated : p[1] = i
        BY <3>3 DEF Firsts
      <4>2. <<i, d.rows[i].content>> \in u.updated
        BY <4>1 DEF Recorded
      <4>3. d.rows[i].content \in Contents
        BY <3>1 DEF Row
      <4>4. \A c : <<i, c>> \in u.updated => c = d.rows[i].content
        BY DEF Recorded
      <4>5. OldText(u, i) = d.rows[i].content
        BY <4>2, <4>3, <4>4 DEF OldText
      <4>6. e.rows[i] = [[d.rows[i] EXCEPT !.content = to.content[i[1]]]
                           EXCEPT !.content = OldText(u, i)]
        BY <2>1, <3>3, <1>1, <1>4, <1>5, <1>u DEF SyncedRow, UndoneRow
      <4> QED BY <3>1, <4>5, <4>6 DEF Row
    <3>4. CASE i \notin u.archived /\ i \notin Firsts(u.updated)
      BY <2>1, <3>4, <1>1, <1>4, <1>5, <1>u DEF SyncedRow, UndoneRow
    <3> QED BY <3>2, <3>3, <3>4
  <2>3. e.rows = [i \in Rows(e) |-> e.rows[i]]
    BY <1>e, UndoneFunction
  <2>4. d.rows = [i \in Rows(d) |-> d.rows[i]]
    BY DEF Tables
  <2> QED BY <2>1, <2>2, <2>3, <2>4
<1>7. /\ s.drafts = d.drafts \cup u.drafts
      /\ s.maps = d.maps \cup u.mapped
      /\ s.retired = (d.retired \ u.revived) \cup u.retired
      /\ s.links = (d.links \cup u.linked) \ u.unlinked
      /\ s.edges = d.edges \cup u.joined
  BY <1>s DEF Synced
<1>8. /\ cut.drafts = {v \in s.drafts : v[1] \notin u.created}
      /\ cut.maps = {m \in s.maps : m[2] \notin u.created}
      /\ cut.retired = {m \in s.retired : m[2] \notin u.created}
      /\ cut.links = {l \in s.links : l[2] \notin u.created /\ l[3] \notin u.created}
      /\ cut.edges = {g \in s.edges : g[1] \notin u.created /\ g[2] \notin u.created}
  BY <1>c DEF Deleted
<1>9. /\ e.drafts = cut.drafts \ u.drafts
      /\ e.maps = cut.maps \ u.mapped
      /\ e.retired = ((cut.retired \ u.mapped) \ u.retired) \cup u.revived
      /\ e.links = (cut.links \ u.linked) \cup u.unlinked
      /\ e.edges = cut.edges \ u.joined
  BY <1>c, <1>e, UndoneFields
<1>10. u.created \cap FormTypes = {}
  BY DEF Recorded, Undo, Ids
<1>11. /\ \A v \in d.drafts : v[1] \notin u.created /\ v \notin u.drafts
       /\ \A m \in d.maps : m[2] \notin u.created
       /\ \A l \in d.links : l[2] \notin u.created /\ l[3] \notin u.created
       /\ \A g \in d.edges : g[1] \notin u.created /\ g[2] \notin u.created
  BY <1>1, <1>10 DEF Tables, Recorded
<1>12. /\ u.mapped \cap d.maps = {} /\ u.revived \subseteq d.retired
       /\ u.retired \subseteq d.maps /\ u.retired \cap d.retired = {}
       /\ u.linked \cap d.links = {} /\ u.unlinked \subseteq d.links
       /\ u.joined \cap d.edges = {} /\ d.retired \subseteq d.maps
       /\ \A v \in u.drafts : v[1] \in Rows(d)
  BY DEF Recorded, Tables
<1>13. d = [rows |-> d.rows, drafts |-> d.drafts, maps |-> d.maps,
            retired |-> d.retired, links |-> d.links, edges |-> d.edges]
  BY DEF Tables
<1>14. e = [rows |-> e.rows, drafts |-> e.drafts, maps |-> e.maps,
            retired |-> e.retired, links |-> e.links, edges |-> e.edges]
  BY <1>e, UndoneShape
<1>15. Ends(u.unlinked) \subseteq Rows(d)
  BY <1>12 DEF Ends, Tables
<1>16. Replayable(s, u)
  <2>1. u.archived \cup Firsts(u.updated) \cup Ends(u.unlinked) \subseteq Rows(cut)
    BY <1>2, <1>4, <1>15
  <2>2. u.drafts \subseteq cut.drafts
    BY <1>1, <1>7, <1>8, <1>12
  <2>3. u.revived \cup u.retired \subseteq cut.maps \ u.mapped
    BY <1>7, <1>8, <1>11, <1>12
  <2> QED BY <1>c, <2>1, <2>2, <2>3 DEF Replayable
<1>17. e.drafts = d.drafts
  BY <1>7, <1>8, <1>9, <1>11
<1>18. e.maps = d.maps
  BY <1>7, <1>8, <1>9, <1>11, <1>12
<1>19. e.retired = d.retired
  BY <1>7, <1>8, <1>9, <1>11, <1>12
<1>20. e.links = d.links
  BY <1>7, <1>8, <1>9, <1>11, <1>12
<1>21. e.edges = d.edges
  BY <1>7, <1>8, <1>9, <1>11, <1>12
<1>22. e = d
  BY <1>6, <1>13, <1>14, <1>17, <1>18, <1>19, <1>20, <1>21
<1> QED BY <1>s, <1>e, <1>16, <1>22

-----------------------------------------------------------------------------
(* The invariant *)

LEMMA IInvTypeOK == IInv => TypeOK
BY DEF IInv, Tables, Control, TypeOK

\* The rows, maps, links and edges of the first versions belong together.
LEMMA WholeTables == /\ Tables(Whole, 0) /\ Whole.drafts = {} /\ Whole.retired = {}
                     /\ \A i \in Rows(Whole) : ~Whole.rows[i].archived
                     /\ \A f \in Frameworks : FirstRows(f) \subseteq Rows(Whole)
<1> USE ManifestsAssumption
<1> DEFINE mine(t) == {f \in Frameworks : t \in In(Manifests[f][1])}
           text(t) == Manifests[CHOOSE f \in mine(t) : TRUE][1].content[t]
           firsts == UNION {FirstRows(f) : f \in Frameworks}
<1>1. \A f \in Frameworks : IsManifest(Manifests[f][1])
  OBVIOUS
<1>2. /\ Whole.rows = [i \in firsts |-> NewRow(text(i[1]))]
      /\ Whole.drafts = {} /\ Whole.retired = {}
      /\ Whole.maps = UNION {FirstMaps(f) : f \in Frameworks}
      /\ Whole.links = UNION {FirstLinks(f) : f \in Frameworks}
      /\ Whole.edges = UNION {FirstEdges(f) : f \in Frameworks}
  BY DEF Whole
<1>3. Whole = [rows |-> Whole.rows, drafts |-> Whole.drafts, maps |-> Whole.maps,
               retired |-> Whole.retired, links |-> Whole.links, edges |-> Whole.edges]
  BY DEF Whole
<1>4. \A f \in Frameworks : \A t \in In(Manifests[f][1]) : t \in Templates
  BY <1>1 DEF IsManifest, In
<1>5. firsts \subseteq Templates \X (0..0)
  BY <1>4 DEF FirstRows, FirstRow
<1>6. \A i \in firsts : NewRow(text(i[1])) \in Row
  <2> TAKE i \in firsts
  <2>1. PICK g \in Frameworks : i \in FirstRows(g)
    OBVIOUS
  <2>2. PICK t \in In(Manifests[g][1]) : i = <<t, 0>>
    BY <2>1 DEF FirstRows, FirstRow
  <2>3. PICK f \in mine(t) : f = CHOOSE h \in mine(t) : TRUE
    BY <2>2
  <2>4. Manifests[f][1].content[t] \in Contents
    BY <1>1, <2>3 DEF IsManifest, In
  <2>5. text(i[1]) \in Contents
    BY <2>2, <2>3, <2>4
  <2> QED BY <2>5 DEF NewRow, Row
<1> HIDE DEF text
<1>7. \A f \in Frameworks : \A t \in In(Manifests[f][1]) : FirstRow(t) \in firsts
  BY DEF FirstRows
<1>8. \A f \in Frameworks : FirstRows(f) \subseteq firsts
  OBVIOUS
<1> HIDE DEF firsts
<1>9. /\ Rows(Whole) = firsts /\ Whole.rows \in [Rows(Whole) -> Row]
      /\ \A i \in Rows(Whole) : ~Whole.rows[i].archived
  BY <1>2, <1>6 DEF Rows, NewRow
<1>10. /\ \A f \in Frameworks : \A m \in Manifests[f][1].maps :
            FirstRow(m[1]) \in firsts /\ m[2] \in Requirements
       /\ \A f \in Frameworks : \A e \in Manifests[f][1].edges :
            FirstRow(e[1]) \in firsts /\ Instance(e[2]) \in firsts \cup FormTypes
  BY <1>1, <1>7 DEF IsManifest, In, Instance
<1>11. Whole.maps \subseteq Frameworks \X Rows(Whole) \X Requirements
  BY <1>2, <1>9, <1>10 DEF FirstMaps
<1>12. Whole.links \subseteq Frameworks \X Rows(Whole) \X (Rows(Whole) \cup FormTypes)
  BY <1>2, <1>9, <1>10 DEF FirstLinks
<1>13. Whole.edges \subseteq Rows(Whole) \X (Rows(Whole) \cup FormTypes)
  BY <1>2, <1>9, <1>10 DEF FirstEdges
<1>14. Tables(Whole, 0)
  BY <1>2, <1>3, <1>5, <1>9, <1>11, <1>12, <1>13 DEF Tables
<1> QED BY <1>2, <1>8, <1>9, <1>14

\* At first the organisation has some of that; the policies without a row are lost.
LEMMA InitTables ==
  ASSUME Init
  PROVE  /\ Tables(db, 0) /\ db.retired = {} /\ lost \subseteq Templates
         /\ \A i \in Rows(db) : i = <<i[1], 0>> /\ ~db.rows[i].archived
         /\ \A f \in Frameworks : \A t \in In(Manifests[f][1]) \cap Policies :
              t \notin lost => FirstRow(t) \in Rows(db)
<1>1. PICK gone \in SUBSET Rows(Whole) :
        LET there == Deleted(Whole, gone) IN
        \E maps \in SUBSET there.maps, links \in SUBSET there.links,
           edges \in SUBSET there.edges :
          /\ db = [there EXCEPT !.maps = @ \ maps, !.links = @ \ links, !.edges = @ \ edges]
          /\ lost = {i[1] : i \in {i \in gone : i[1] \in Policies}}
  BY DEF Init
<1>2. PICK there : there = Deleted(Whole, gone)
  OBVIOUS
<1>3. PICK maps \in SUBSET there.maps, links \in SUBSET there.links,
           edges \in SUBSET there.edges :
        /\ db = [there EXCEPT !.maps = @ \ maps, !.links = @ \ links, !.edges = @ \ edges]
        /\ lost = {i[1] : i \in {i \in gone : i[1] \in Policies}}
  BY <1>1, <1>2
<1>4. Tables(there, 0) /\ Rows(there) = Rows(Whole) \ gone
  BY <1>2, WholeTables, DeletedTables
<1>5. /\ there.drafts = {} /\ there.retired = {}
      /\ \A i \in Rows(there) : there.rows[i] = Whole.rows[i]
  BY <1>2, WholeTables DEF Deleted, Rows
<1>6. /\ db.rows = there.rows /\ db.drafts = {} /\ db.retired = {}
      /\ db.maps \subseteq there.maps /\ db.links \subseteq there.links
      /\ db.edges \subseteq there.edges
      /\ db = [rows |-> db.rows, drafts |-> db.drafts, maps |-> db.maps,
               retired |-> db.retired, links |-> db.links, edges |-> db.edges]
  BY <1>3, <1>4, <1>5 DEF Tables
<1>7. Rows(db) = Rows(Whole) \ gone
  BY <1>4, <1>6 DEF Rows
<1>8. Tables(db, 0)
  BY <1>4, <1>6 DEF Tables, Rows
<1>9. \A i \in Rows(db) : ~db.rows[i].archived
  BY <1>4, <1>5, <1>6, <1>7, WholeTables
<1>10. \A i \in Rows(db) : i = <<i[1], 0>>
  BY <1>8 DEF Tables
<1>11. ASSUME NEW f \in Frameworks, NEW t \in In(Manifests[f][1]) \cap Policies, t \notin lost
       PROVE  FirstRow(t) \in Rows(db)
  <2>1. FirstRow(t) \in Rows(Whole) /\ FirstRow(t)[1] = t
    BY WholeTables DEF FirstRows, FirstRow
  <2>2. FirstRow(t) \notin gone
    BY <1>3, <1>11, <2>1
  <2> QED BY <1>7, <2>1, <2>2
<1>12. lost \subseteq Templates
  BY <1>3 DEF Templates
<1> QED BY <1>6, <1>8, <1>9, <1>10, <1>11, <1>12

LEMMA InitIInv == Init => IInv
<1> SUFFICES ASSUME Init PROVE IInv
  OBVIOUS
<1>1. ops = <<>> /\ Len(ops) = 0
  BY DEF Init
<1>2. Tables(db, Len(ops))
  BY <1>1, InitTables
<1>3. History
  BY <1>1 DEF History
<1>4. Jobs
  BY DEF Init, Jobs
<1>5. Control
  <2>1. \A f \in Frameworks : 1 \in DOMAIN Manifests[f]
    BY ManifestsAssumption
  <2>2. edits \in 0..MaxEdits /\ drifted \subseteq Frameworks
    BY DEF Init
  <2>3. /\ version = [f \in Frameworks |-> 1] /\ job = [w \in Workers |-> NoJob]
        /\ lock = None /\ overtaken = {} /\ crossed = {}
    BY DEF Init
  <2>4. \A w \in Workers : job[w].kind = "sync" <=> lock = w
    BY <2>3 DEF NoJob
  <2>5. lost \subseteq Templates
    BY InitTables
  <2> QED BY <1>1, <2>1, <2>2, <2>3, <2>4, <2>5, BoundsAssumption DEF Control
<1>6. VersionFollowsSyncs
  BY <1>1 DEF Init, VersionFollowsSyncs
<1> QED BY <1>2, <1>3, <1>4, <1>5, <1>6 DEF IInv

\* Whatever a request is that is not a sync or a rollback, it is none.
LEMMA JobKinds ==
  ASSUME Jobs, NEW w \in Workers
  PROVE  /\ job[w].kind = "sync" => SyncJob(w)
         /\ job[w].kind = "rollback" => RollbackJob(w)
BY DEF Jobs, NoJob, SyncJob, RollbackJob

\* The steps of users: what they change is only in the tables, and what was
\* read before counts as overtaken.
LEMMA UserSteps ==
  ASSUME IInv, UserStep, Tables(db', Len(ops)), lost' \subseteq Templates
  PROVE  IInv'
<1> USE BoundsAssumption
<1>1. /\ edits < MaxEdits /\ edits' = edits + 1 /\ overtaken' = overtaken \cup Busy
      /\ version' = version /\ ops' = ops /\ lock' = lock /\ job' = job
      /\ crossed' = crossed /\ drifted' = drifted
  BY DEF UserStep
<1>2. Tables(db, Len(ops))' /\ History' /\ VersionFollowsSyncs'
  BY <1>1 DEF IInv, History, VersionFollowsSyncs
<1>3. Control'
  BY <1>1 DEF IInv, Control, Busy
<1>4. Jobs'
  <2>1. DOMAIN job' = Workers
    BY <1>1 DEF IInv, Jobs
  <2>2. ASSUME NEW w \in Workers, job[w] # NoJob
        PROVE  SyncJob(w)' \/ RollbackJob(w)'
    <3>1. w \in overtaken'
      BY <1>1, <2>2 DEF Busy
    <3>2. CASE SyncJob(w)
      BY <1>1, <3>1, <3>2 DEF SyncJob
    <3>3. CASE RollbackJob(w)
      BY <1>1, <3>1, <3>3 DEF RollbackJob
    <3> QED BY <2>2, <3>2, <3>3 DEF IInv, Jobs
  <2> QED BY <1>1, <2>1, <2>2 DEF Jobs, NoJob
<1> QED BY <1>2, <1>3, <1>4 DEF IInv

\* Writing a row keeps the tables together.
LEMMA RowWritten ==
  ASSUME NEW d, NEW n, Tables(d, n), NEW i \in Rows(d), NEW r \in Row,
         NEW e, e = [d EXCEPT !.rows[i] = r]
  PROVE  Tables(e, n)
<1>1. e = [rows |-> [d.rows EXCEPT ![i] = r], drafts |-> d.drafts, maps |-> d.maps,
           retired |-> d.retired, links |-> d.links, edges |-> d.edges]
  BY DEF Tables
<1>2. Rows(e) = Rows(d) /\ e.rows \in [Rows(d) -> Row]
  BY <1>1 DEF Tables, Rows
<1> QED BY <1>1, <1>2 DEF Tables

LEMMA EditStep == ASSUME IInv, Edit PROVE IInv'
<1>1. PICK t \in Templates : \E i \in Active(db, t) :
        \E c \in Contents \ {db.rows[i].content} :
          db' = [db EXCEPT !.rows[i].content = c]
  BY DEF Edit
<1>2. PICK i \in Active(db, t) : \E c \in Contents \ {db.rows[i].content} :
        db' = [db EXCEPT !.rows[i].content = c]
  BY <1>1
<1>3. PICK c \in Contents : db' = [db EXCEPT !.rows[i].content = c]
  BY <1>2
<1>4. i \in Rows(db) /\ db.rows[i] \in Row
  BY DEF IInv, Tables, Active
<1>5. [db.rows[i] EXCEPT !.content = c] \in Row
  BY <1>4 DEF Row
<1>6. Tables(db', Len(ops))
  <2>1. db' = [db EXCEPT !.rows[i] = [db.rows[i] EXCEPT !.content = c]]
    BY <1>3, <1>4 DEF IInv, Tables
  <2> QED BY <2>1, <1>4, <1>5, RowWritten DEF IInv
<1>7. UserStep /\ lost' \subseteq Templates
  BY DEF Edit, IInv, Control
<1> QED BY <1>6, <1>7, UserSteps

LEMMA SetStatusStep == ASSUME IInv, SetStatus PROVE IInv'
<1>1. PICK t \in Tasks \cup Policies : \E i \in Active(db, t) :
        db' = [db EXCEPT !.rows[i].finished = ~@]
  BY DEF SetStatus
<1>2. PICK i \in Active(db, t) : db' = [db EXCEPT !.rows[i].finished = ~@]
  BY <1>1
<1>3. i \in Rows(db) /\ db.rows[i] \in Row
  BY DEF IInv, Tables, Active
<1>4. [db.rows[i] EXCEPT !.finished = ~@] \in Row
  BY <1>3 DEF Row
<1>5. Tables(db', Len(ops))
  <2>1. db' = [db EXCEPT !.rows[i] = [db.rows[i] EXCEPT !.finished = ~@]]
    BY <1>2, <1>3 DEF IInv, Tables
  <2> QED BY <2>1, <1>3, <1>4, RowWritten DEF IInv
<1>6. UserStep /\ lost' \subseteq Templates
  BY DEF SetStatus, IInv, Control
<1> QED BY <1>5, <1>6, UserSteps

LEMMA DeleteStep == ASSUME IInv, Delete PROVE IInv'
<1>1. PICK i \in Rows(db) : db' = Deleted(db, {i}) /\ lost' = lost \cup {i[1]}
  BY DEF Delete
<1>2. Tables(db', Len(ops))
  BY <1>1, DeletedTables DEF IInv
<1>3. UserStep /\ lost' \subseteq Templates
  BY <1>1 DEF Delete, IInv, Control, Tables
<1> QED BY <1>2, <1>3, UserSteps

LEMMA DeleteDraftStep == ASSUME IInv, DeleteDraft PROVE IInv'
<1>1. PICK v \in db.drafts : db' = [db EXCEPT !.drafts = @ \ {v}]
  BY DEF DeleteDraft
<1>2. db' = [rows |-> db.rows, drafts |-> db.drafts \ {v}, maps |-> db.maps,
             retired |-> db.retired, links |-> db.links, edges |-> db.edges]
  BY <1>1 DEF IInv, Tables
<1>3. Tables(db', Len(ops))
  BY <1>2 DEF IInv, Tables, Rows
<1>4. UserStep /\ lost' \subseteq Templates
  BY DEF DeleteDraft, IInv, Control
<1> QED BY <1>3, <1>4, UserSteps

-----------------------------------------------------------------------------
(* Requests *)

LEMMA SyncReadStep ==
  ASSUME IInv, NEW w \in Workers, SyncRead(w)
  PROVE  IInv'
<1>0. PICK f \in Frameworks : \E v \in DOMAIN Manifests[f] \ {version[f]} :
        job' = [job EXCEPT ![w] = [kind |-> "sync", f |-> f, from |-> version[f],
                                   to |-> v, seen |-> db]]
  BY DEF SyncRead
<1>1. PICK v \in DOMAIN Manifests[f] :
        job' = [job EXCEPT ![w] = [kind |-> "sync", f |-> f, from |-> version[f],
                                   to |-> v, seen |-> db]]
  BY <1>0
<1>2. /\ job[w] = NoJob /\ lock = None /\ lock' = w
      /\ db' = db /\ version' = version /\ ops' = ops /\ edits' = edits
      /\ overtaken' = overtaken /\ crossed' = crossed /\ lost' = lost /\ drifted' = drifted
  BY DEF SyncRead, LockFree
<1>3. Tables(db, Len(ops))' /\ History' /\ VersionFollowsSyncs'
  BY <1>2 DEF IInv, History, VersionFollowsSyncs
<1>4. /\ DOMAIN job' = Workers
      /\ job'[w].kind = "sync" /\ \A x \in Workers \ {w} : job'[x] = job[x]
  BY <1>1 DEF IInv, Jobs
<1>5. Control'
  BY <1>2, <1>4 DEF IInv, Control
<1>6. SyncJob(w)'
  <2>1. ReadRows(db)
    BY DEF IInv, Tables, ReadRows, Ids
  <2>2. job'[w] = [kind |-> "sync", f |-> f, from |-> version[f], to |-> v, seen |-> db]
    BY <1>1 DEF IInv, Jobs
  <2> QED BY <1>2, <2>1, <2>2 DEF SyncJob
<1>7. \A x \in Workers \ {w} : /\ SyncJob(x) => SyncJob(x)'
                               /\ RollbackJob(x) => RollbackJob(x)'
  BY <1>2, <1>4 DEF SyncJob, RollbackJob, IsLatest, NoDataLoss
<1>8. Jobs'
  BY <1>4, <1>6, <1>7 DEF IInv, Jobs
<1> QED BY <1>3, <1>5, <1>8 DEF IInv

\* The end of a request leaves the lock and the other requests' jobs in order.
LEMMA FinishControl ==
  ASSUME IInv, NEW w \in Workers, job[w] # NoJob, NEW others \in SUBSET Workers,
         Finish(w, others)
  PROVE  /\ DOMAIN job' = Workers /\ job'[w] = NoJob
         /\ \A x \in Workers \ {w} : job'[x] = job[x]
         /\ lock' \in Workers \cup {None}
         /\ \A x \in Workers : job'[x].kind = "sync" <=> lock' = x
         /\ overtaken' \subseteq Workers
BY DEF IInv, Jobs, Control, Finish, NoJob

LEMMA AbortStep ==
  ASSUME IInv, NEW w \in Workers, Abort(w)
  PROVE  IInv'
<1>1. /\ job[w] # NoJob /\ Finish(w, {})
      /\ db' = db /\ version' = version /\ ops' = ops /\ edits' = edits
      /\ crossed' = crossed /\ lost' = lost /\ drifted' = drifted
  BY DEF Abort
<1>2. /\ DOMAIN job' = Workers /\ job'[w] = NoJob
      /\ \A x \in Workers \ {w} : job'[x] = job[x]
      /\ lock' \in Workers \cup {None}
      /\ \A x \in Workers : job'[x].kind = "sync" <=> lock' = x
      /\ overtaken' \subseteq Workers
  BY <1>1, FinishControl
<1>3. Tables(db, Len(ops))' /\ History' /\ VersionFollowsSyncs'
  BY <1>1 DEF IInv, History, VersionFollowsSyncs
<1>4. Control'
  BY <1>1, <1>2 DEF IInv, Control
<1>5. \A x \in Workers \ {w} : x \notin overtaken' => x \notin overtaken
  BY <1>1 DEF Finish
<1>6. \A x \in Workers \ {w} : /\ SyncJob(x) => SyncJob(x)'
                               /\ RollbackJob(x) => RollbackJob(x)'
  BY <1>1, <1>2, <1>5 DEF SyncJob, RollbackJob, IsLatest, NoDataLoss
<1>7. Jobs'
  BY <1>2, <1>6 DEF IInv, Jobs, NoJob
<1> QED BY <1>3, <1>4, <1>7 DEF IInv

\* A commit overtakes every other request in flight; no sync is among them,
\* since it would hold the lock.
LEMMA CommitJobs ==
  ASSUME IInv, NEW w \in Workers, job[w] # NoJob, lock \in {w, None},
         Finish(w, Busy), DOMAIN ops \subseteq DOMAIN ops'
  PROVE  Jobs'
<1>1. /\ DOMAIN job' = Workers /\ job'[w] = NoJob
      /\ \A x \in Workers \ {w} : job'[x] = job[x]
  BY FinishControl DEF Busy
<1>2. ASSUME NEW x \in Workers \ {w}, job[x] # NoJob
      PROVE  RollbackJob(x)'
  <2>1. x \in overtaken'
    BY <1>2 DEF Finish, Busy
  <2>2. RollbackJob(x)
    BY <1>2 DEF IInv, Jobs, Control, SyncJob
  <2> QED BY <1>1, <2>1, <2>2 DEF RollbackJob
<1> QED BY <1>1, <1>2 DEF Jobs, NoJob

\* What a sync that commits has planned, applied and recorded.
LEMMA SyncWriteFacts ==
  ASSUME IInv, NEW w \in Workers, SyncWrite(w)
  PROVE  \E f \in Frameworks, v \in Versions, u \in Undo :
           /\ v \in DOMAIN Manifests[f] /\ IsManifest(Manifests[f][v])
           /\ ReadRows(job[w].seen)
           /\ Recorded(u, db, job[w].seen, Manifests[f][v], Len(ops))
           /\ Appliable(db, u)
           /\ db' = Synced(db, u, Manifests[f][v])
           /\ version' = [version EXCEPT ![f] = v]
           /\ ops' = Append(ops, [f |-> f, from |-> version[f], to |-> v, undo |-> u,
                                  rolledBack |-> FALSE])
<1>1. SyncJob(w)
  BY JobKinds DEF SyncWrite, IInv
<1> DEFINE f == job[w].f
           v == job[w].to
           from == Manifests[f][job[w].from]
           to == Manifests[f][v]
           seen == job[w].seen
<1>2. PICK found \in Choices(seen, In(from) \cup In(to)) :
        /\ Appliable(db, Plan(db, seen, f, from, to, found))
        /\ db' = Synced(db, Plan(db, seen, f, from, to, found), to)
        /\ version' = [version EXCEPT ![f] = job[w].to]
        /\ ops' = Append(ops, [f |-> f, from |-> job[w].from, to |-> job[w].to,
                               undo |-> Plan(db, seen, f, from, to, found),
                               rolledBack |-> FALSE])
  BY DEF SyncWrite
<1>3. f \in Frameworks /\ v \in DOMAIN Manifests[f] /\ job[w].from = version[f]
      /\ ReadRows(seen)
  BY <1>1 DEF SyncJob
<1>4. IsManifest(from) /\ IsManifest(to) /\ v \in Versions
  BY <1>3, ManifestsAssumption DEF IInv, Control, Versions
<1>5. Len(ops) \in Nat /\ Tables(db, Len(ops))
  BY DEF IInv, History
<1> HIDE DEF f, v, from, to, seen
<1>6. PICK u : u = Plan(db, seen, f, from, to, found)
  OBVIOUS
<1>7. Recorded(u, db, seen, to, Len(ops))
  BY <1>3, <1>4, <1>5, <1>6, PlanFacts
<1>8. u \in Undo
  BY <1>7 DEF Recorded
<1> QED BY <1>2, <1>3, <1>4, <1>6, <1>7, <1>8 DEF v, to, seen

\* Appending a sync of f from its current version keeps every framework on the
\* version its history says.
LEMMA SyncVersions ==
  ASSUME IInv, NEW f \in Frameworks, NEW v \in Versions, NEW op \in Op,
         op.f = f, op.from = version[f], op.to = v, ~op.rolledBack,
         version' = [version EXCEPT ![f] = v], ops' = Append(ops, op),
         crossed' = crossed
  PROVE  VersionFollowsSyncs'
<1> DEFINE n == Len(ops)
           kept(g) == {i \in DOMAIN ops : ops[i].f = g /\ ~ops[i].rolledBack}
           keptP(g) == {i \in DOMAIN ops' : ops'[i].f = g /\ ~ops'[i].rolledBack}
           reached(g, x, k) ==
             LET before == {i \in kept(g) : i < k}
             IN /\ before = {} => x = 1
                /\ \A i \in before : (\A j \in before : j <= i) => x = ops[i].to
<1>1. /\ n \in Nat /\ DOMAIN ops = 1..n
      /\ Len(ops') = n + 1 /\ DOMAIN ops' = 1..(n + 1)
      /\ ops'[n + 1] = op /\ \A i \in 1..n : ops'[i] = ops[i]
  BY DEF IInv, History
<1>2. \A g \in Frameworks : version'[g] = IF g = f THEN v ELSE version[g]
  BY DEF IInv, Control
<1> SUFFICES ASSUME NEW g \in Frameworks, <<g, g>> \notin crossed'
             PROVE  LET before(k) == {i \in keptP(g) : i < k}
                        reachedP(x, k) ==
                          /\ before(k) = {} => x = 1
                          /\ \A i \in before(k) :
                               (\A j \in before(k) : j <= i) => x = ops'[i].to
                    IN /\ reachedP(version'[g], Len(ops') + 1)
                       /\ \A i \in keptP(g) : reachedP(ops'[i].from, i)
  BY DEF VersionFollowsSyncs
<1>3. reached(g, version[g], n + 1) /\ \A i \in kept(g) : reached(g, ops[i].from, i)
  BY DEF IInv, VersionFollowsSyncs
<1>4. CASE g # f
  <2>1. keptP(g) = kept(g)
    BY <1>1, <1>4
  <2>2. \A k \in 1..(n + 1) : {i \in keptP(g) : i < k} = {i \in kept(g) : i < k}
    BY <2>1
  <2>3. {i \in keptP(g) : i < n + 2} = {i \in kept(g) : i < n + 1}
    BY <1>1, <2>1
  <2> QED BY <1>1, <1>2, <1>3, <1>4, <2>1, <2>2, <2>3
<1>5. CASE g = f
  <2>1. keptP(g) = kept(g) \cup {n + 1}
    BY <1>1, <1>5
  <2>2. \A k \in 1..(n + 1) : {i \in keptP(g) : i < k} = {i \in kept(g) : i < k}
    BY <1>1, <2>1
  <2>3. {i \in keptP(g) : i < n + 2} = keptP(g)
    BY <1>1
  <2>4. \A i \in keptP(g) : (\A j \in keptP(g) : j <= i) => i = n + 1
    BY <1>1, <2>1
  <2>5. version'[g] = v /\ ops'[n + 1].to = v /\ ops'[n + 1].from = version[g]
    BY <1>1, <1>2, <1>5
  <2> QED BY <1>1, <1>3, <2>1, <2>2, <2>3, <2>4, <2>5
<1> QED BY <1>4, <1>5

LEMMA SyncWriteStep ==
  ASSUME IInv, NEW w \in Workers, SyncWrite(w)
  PROVE  IInv'
<1>1. PICK f \in Frameworks, v \in Versions, u \in Undo :
        /\ v \in DOMAIN Manifests[f] /\ IsManifest(Manifests[f][v])
        /\ ReadRows(job[w].seen)
        /\ Recorded(u, db, job[w].seen, Manifests[f][v], Len(ops))
        /\ Appliable(db, u)
        /\ db' = Synced(db, u, Manifests[f][v])
        /\ version' = [version EXCEPT ![f] = v]
        /\ ops' = Append(ops, [f |-> f, from |-> version[f], to |-> v, undo |-> u,
                               rolledBack |-> FALSE])
  BY SyncWriteFacts
<1>2. PICK op : op = [f |-> f, from |-> version[f], to |-> v, undo |-> u,
                      rolledBack |-> FALSE]
  OBVIOUS
<1>3. version[f] \in DOMAIN Manifests[f] /\ op \in Op
  BY <1>2 DEF IInv, Control, Versions, Op
<1>4. /\ job[w].kind = "sync" /\ job[w] # NoJob /\ lock = w
      /\ Len(ops) < MaxOps /\ Finish(w, Busy)
      /\ edits' = edits /\ crossed' = crossed /\ lost' = lost /\ drifted' = drifted
  BY DEF SyncWrite, NoJob, IInv, Control
<1>5. /\ Len(ops) \in Nat /\ DOMAIN ops = 1..Len(ops)
      /\ ops' \in Seq(Op) /\ Len(ops') = Len(ops) + 1
      /\ DOMAIN ops' = 1..(Len(ops) + 1)
      /\ ops'[Len(ops) + 1] = op /\ \A i \in DOMAIN ops : ops'[i] = ops[i]
  BY <1>1, <1>2, <1>3 DEF IInv, History
<1>6. Tables(db, Len(ops))'
  BY <1>1, <1>5, SyncedTables DEF IInv
<1>7. History'
  BY <1>2, <1>3, <1>5 DEF IInv, History
<1>8. Jobs'
  BY <1>4, <1>5, CommitJobs
<1>9. Control'
  <2>1. /\ DOMAIN version' = Frameworks
        /\ \A g \in Frameworks : version'[g] \in DOMAIN Manifests[g]
    BY <1>1 DEF IInv, Control
  <2>2. Len(ops') <= MaxOps
    BY <1>4, <1>5, BoundsAssumption
  <2>3. /\ lock' \in Workers \cup {None}
        /\ \A x \in Workers : job'[x].kind = "sync" <=> lock' = x
        /\ overtaken' \subseteq Workers
    BY <1>4, FinishControl DEF Busy
  <2> QED BY <1>4, <2>1, <2>2, <2>3 DEF IInv, Control
<1>10. VersionFollowsSyncs'
  <2>1. op.f = f /\ op.from = version[f] /\ op.to = v /\ ~op.rolledBack
    BY <1>2
  <2> QED BY <1>1, <1>2, <1>3, <1>4, <2>1, SyncVersions
<1> QED BY <1>6, <1>7, <1>8, <1>9, <1>10 DEF IInv

LEMMA RollbackCheckStep ==
  ASSUME IInv, NEW w \in Workers, RollbackCheck(w)
  PROVE  IInv'
<1>1. PICK i \in DOMAIN ops :
        /\ IsLatest(i) /\ NoDataLoss(ops[i].undo)
        /\ job' = [job EXCEPT ![w] = [kind |-> "rollback", op |-> i]]
  BY DEF RollbackCheck
<1>2. /\ job[w] = NoJob /\ lock' = lock
      /\ db' = db /\ version' = version /\ ops' = ops /\ edits' = edits
      /\ overtaken' = overtaken /\ crossed' = crossed /\ lost' = lost /\ drifted' = drifted
  BY DEF RollbackCheck
<1>3. Tables(db, Len(ops))' /\ History' /\ VersionFollowsSyncs'
  BY <1>2 DEF IInv, History, VersionFollowsSyncs
<1>4. /\ DOMAIN job' = Workers
      /\ job'[w] = [kind |-> "rollback", op |-> i]
      /\ \A x \in Workers \ {w} : job'[x] = job[x]
  BY <1>1 DEF IInv, Jobs
<1>5. Control'
  BY <1>2, <1>4 DEF IInv, Control, NoJob
<1>6. RollbackJob(w)'
  BY <1>1, <1>2, <1>4 DEF RollbackJob, IsLatest, NoDataLoss
<1>7. \A x \in Workers \ {w} : /\ SyncJob(x) => SyncJob(x)'
                               /\ RollbackJob(x) => RollbackJob(x)'
  BY <1>2, <1>4 DEF SyncJob, RollbackJob, IsLatest, NoDataLoss
<1>8. Jobs'
  BY <1>4, <1>6, <1>7 DEF IInv, Jobs
<1> QED BY <1>3, <1>5, <1>8 DEF IInv

\* Undoing the latest sync of f, and only that, keeps every framework on the
\* version its history says.
LEMMA RollbackVersions ==
  ASSUME IInv, NEW i \in DOMAIN ops, NEW f, f = ops[i].f,
         version' = [version EXCEPT ![f] = ops[i].from],
         ops' = [ops EXCEPT ![i].rolledBack = TRUE],
         crossed \subseteq crossed', <<f, f>> \notin crossed' => IsLatest(i)
  PROVE  VersionFollowsSyncs'
<1> DEFINE n == Len(ops)
           kept(g) == {j \in DOMAIN ops : ops[j].f = g /\ ~ops[j].rolledBack}
           keptP(g) == {j \in DOMAIN ops' : ops'[j].f = g /\ ~ops'[j].rolledBack}
           reached(g, x, k) ==
             LET before == {j \in kept(g) : j < k}
             IN /\ before = {} => x = 1
                /\ \A j \in before : (\A h \in before : h <= j) => x = ops[j].to
<1>1. /\ n \in Nat /\ DOMAIN ops = 1..n /\ \A j \in 1..n : ops[j] \in Op
      /\ Len(ops') = n /\ DOMAIN ops' = 1..n
      /\ ops'[i] = [ops[i] EXCEPT !.rolledBack = TRUE]
      /\ \A j \in 1..n : j # i => ops'[j] = ops[j]
  BY DEF IInv, History
<1>2. \A j \in 1..n : /\ ops'[j].f = ops[j].f /\ ops'[j].from = ops[j].from
                      /\ ops'[j].to = ops[j].to
                      /\ ops'[j].rolledBack <=> ops[j].rolledBack \/ j = i
  BY <1>1 DEF Op
<1>3. \A g \in Frameworks : version'[g] = IF g = f THEN ops[i].from ELSE version[g]
  BY DEF IInv, Control
<1> SUFFICES ASSUME NEW g \in Frameworks, <<g, g>> \notin crossed'
             PROVE  LET before(k) == {j \in keptP(g) : j < k}
                        reachedP(x, k) ==
                          /\ before(k) = {} => x = 1
                          /\ \A j \in before(k) :
                               (\A h \in before(k) : h <= j) => x = ops'[j].to
                    IN /\ reachedP(version'[g], Len(ops') + 1)
                       /\ \A j \in keptP(g) : reachedP(ops'[j].from, j)
  BY DEF VersionFollowsSyncs
<1>4. reached(g, version[g], n + 1) /\ \A j \in kept(g) : reached(g, ops[j].from, j)
  BY DEF IInv, VersionFollowsSyncs
<1>5. CASE g # f
  <2>1. keptP(g) = kept(g)
    BY <1>1, <1>2, <1>5
  <2> QED BY <1>1, <1>2, <1>3, <1>4, <1>5, <2>1
<1>6. CASE g = f
  <2>1. IsLatest(i)
    BY <1>6
  <2>2. i \in kept(g) /\ keptP(g) = kept(g) \ {i}
    BY <1>1, <1>2, <1>6, <2>1 DEF IsLatest
  <2>3. \A j \in kept(g) : j <= i
    BY <1>1, <1>6, <2>1 DEF IsLatest
  <2>4. {j \in keptP(g) : j < n + 1} = {j \in kept(g) : j < i}
    BY <1>1, <2>2, <2>3
  <2>5. \A k \in keptP(g) : {j \in keptP(g) : j < k} = {j \in kept(g) : j < k}
    BY <1>1, <2>2, <2>3
  <2>6. version'[g] = ops[i].from
    BY <1>3, <1>6
  <2> QED BY <1>1, <1>2, <1>4, <2>2, <2>4, <2>5, <2>6
<1> QED BY <1>5, <1>6

LEMMA RollbackWriteStep ==
  ASSUME IInv, NEW w \in Workers, RollbackWrite(w)
  PROVE  IInv'
<1>1. PICK i : i = job[w].op
  OBVIOUS
<1>2. RollbackJob(w) /\ i \in DOMAIN ops
  BY <1>1, JobKinds DEF RollbackWrite, RollbackJob, IInv
<1>3. /\ job[w].kind = "rollback" /\ job[w] # NoJob /\ lock = None
      /\ Replayable(db, ops[i].undo) /\ db' = Undone(db, ops[i].undo)
      /\ version' = [version EXCEPT ![ops[i].f] = ops[i].from]
      /\ ops' = [ops EXCEPT ![i].rolledBack = TRUE]
      /\ crossed' = crossed \cup Crossing(w, i)
      /\ Finish(w, Busy) /\ edits' = edits /\ lost' = lost /\ drifted' = drifted
  BY <1>1 DEF RollbackWrite, LockFree, NoJob
<1>4. /\ Len(ops) \in Nat /\ DOMAIN ops = 1..Len(ops)
      /\ ops[i] \in Op /\ ops[i].from \in DOMAIN Manifests[ops[i].f]
  BY <1>2 DEF IInv, History
<1>5. /\ ops' \in Seq(Op) /\ Len(ops') = Len(ops) /\ DOMAIN ops' = DOMAIN ops
      /\ \A j \in DOMAIN ops : ops'[j].f = ops[j].f /\ ops'[j].from = ops[j].from
  <2>1. [ops[i] EXCEPT !.rolledBack = TRUE] \in Op
    BY <1>4 DEF Op
  <2>2. /\ [ops[i] EXCEPT !.rolledBack = TRUE].f = ops[i].f
        /\ [ops[i] EXCEPT !.rolledBack = TRUE].from = ops[i].from
    BY <1>4 DEF Op
  <2>3. ops' = [ops EXCEPT ![i] = [ops[i] EXCEPT !.rolledBack = TRUE]]
    BY <1>2, <1>3 DEF IInv, History
  <2> QED BY <1>2, <2>1, <2>2, <2>3 DEF IInv, History
<1>6. Tables(db, Len(ops))'
  <2>1. ops[i].undo \in Undo
    BY <1>4 DEF Op
  <2> QED BY <1>3, <1>4, <1>5, <2>1, UndoneTables DEF IInv
<1>7. History'
  BY <1>5 DEF IInv, History
<1>8. Jobs'
  BY <1>3, <1>5, CommitJobs
<1>9. Control'
  <2>1. /\ DOMAIN version' = Frameworks
        /\ \A g \in Frameworks : version'[g] \in DOMAIN Manifests[g]
    BY <1>3, <1>4 DEF IInv, Control
  <2>2. crossed' \subseteq Frameworks \X Frameworks
    <3>1. \A j \in DOMAIN ops : ops[j] \in Op
      BY DEF IInv, History
    <3>2. \A j \in DOMAIN ops : ops[j].f \in Frameworks
      BY <3>1 DEF Op
    <3> QED BY <1>2, <1>3, <3>2 DEF IInv, Control, Crossing
  <2>3. /\ lock' \in Workers \cup {None}
        /\ \A x \in Workers : job'[x].kind = "sync" <=> lock' = x
        /\ overtaken' \subseteq Workers
    BY <1>3, FinishControl DEF Busy
  <2> QED BY <1>3, <1>5, <2>1, <2>2, <2>3 DEF IInv, Control
<1>10. VersionFollowsSyncs'
  <2>1. <<ops[i].f, ops[i].f>> \notin crossed' => IsLatest(i)
    BY <1>1, <1>2, <1>3 DEF Crossing, RollbackJob
  <2> QED BY <1>2, <1>3, <2>1, RollbackVersions
<1> QED BY <1>6, <1>7, <1>8, <1>9, <1>10 DEF IInv

LEMMA NextIInv == IInv /\ [Next]_vars => IInv'
<1> SUFFICES ASSUME IInv, [Next]_vars PROVE IInv'
  OBVIOUS
<1>1. CASE UNCHANGED vars
  <2>1. /\ Tables(db, Len(ops))' /\ History' /\ Control' /\ VersionFollowsSyncs'
    BY <1>1 DEF vars, IInv, History, Control, VersionFollowsSyncs
  <2>2. Jobs'
    BY <1>1 DEF vars, IInv, Jobs, SyncJob, RollbackJob, IsLatest, NoDataLoss
  <2> QED BY <2>1, <2>2 DEF IInv
<1>2. ASSUME NEW w \in Workers, SyncRead(w) PROVE IInv'
  BY <1>2, SyncReadStep
<1>3. ASSUME NEW w \in Workers, SyncWrite(w) PROVE IInv'
  BY <1>3, SyncWriteStep
<1>4. ASSUME NEW w \in Workers, Abort(w) PROVE IInv'
  BY <1>4, AbortStep
<1>5. ASSUME NEW w \in Workers, RollbackCheck(w) PROVE IInv'
  BY <1>5, RollbackCheckStep
<1>6. ASSUME NEW w \in Workers, RollbackWrite(w) PROVE IInv'
  BY <1>6, RollbackWriteStep
<1>7. CASE Edit
  BY <1>7, EditStep
<1>8. CASE SetStatus
  BY <1>8, SetStatusStep
<1>9. CASE Delete
  BY <1>9, DeleteStep
<1>10. CASE DeleteDraft
  BY <1>10, DeleteDraftStep
<1> QED BY <1>1, <1>2, <1>3, <1>4, <1>5, <1>6, <1>7, <1>8, <1>9, <1>10 DEF Next

LEMMA SpecIInv == Spec => []IInv
<1>1. Init => IInv
  BY InitIInv
<1>2. IInv /\ [Next]_vars => IInv'
  BY NextIInv
<1> QED BY <1>1, <1>2, PTL DEF Spec

-----------------------------------------------------------------------------
(* The theorems *)

\* Whatever is synced, rolled back, edited and deleted in whatever order, maps,
\* links, edges and drafts belong to rows that exist, and only a sync holds the
\* lock (applySync, replayUndo and the users' deletions).
THEOREM TypeCorrect == Spec => []TypeOK
<1>1. IInv => TypeOK
  BY IInvTypeOK
<1> QED BY <1>1, SpecIInv, PTL

\* Every framework is on the version that its syncs which were not rolled back
\* lead to, unless a rollback acted on an outdated check (currentVersionId
\* against framework_sync_operations).
THEOREM VersionsFollow == Spec => []VersionFollowsSyncs
<1>1. IInv => VersionFollowsSyncs
  BY DEF IInv
<1> QED BY <1>1, SpecIInv, PTL

LEMMA SyncWriteUndoable ==
  ASSUME IInv, NEW w \in Workers, SyncWrite(w), w \notin overtaken
  PROVE  LET undo == ops'[Len(ops')].undo
         IN Replayable(db', undo) /\ Undone(db', undo) = db
<1>1. PICK f \in Frameworks, v \in Versions, u \in Undo :
        /\ Recorded(u, db, job[w].seen, Manifests[f][v], Len(ops))
        /\ db' = Synced(db, u, Manifests[f][v])
        /\ ops' = Append(ops, [f |-> f, from |-> version[f], to |-> v, undo |-> u,
                               rolledBack |-> FALSE])
  BY SyncWriteFacts
<1>2. job[w].seen = db
  BY JobKinds DEF SyncWrite, SyncJob, IInv
<1>3. Len(ops) \in Nat /\ ops \in Seq(Op) /\ Tables(db, Len(ops))
  BY DEF IInv, History
<1>4. ops'[Len(ops')].undo = u
  BY <1>1, <1>3
<1>5. Replayable(db', u) /\ Undone(db', u) = db
  BY <1>1, <1>2, <1>3, UndoneSynced
<1> QED BY <1>4, <1>5

\* What a sync records is enough to undo it: right after it, the rollback would
\* find every row it needs and bring the tables back to what they were
\* (applySync's undo payload and replayUndo).
THEOREM SyncsUndoable == Spec => SyncIsUndoable
<1> DEFINE Step == Len(ops') > Len(ops) /\ (\A w \in Workers : job'[w] # job[w] => w \notin overtaken)
                     => LET undo == ops'[Len(ops')].undo
                        IN Replayable(db', undo) /\ Undone(db', undo) = db
<1>1. IInv /\ [Next]_vars => [Step]_vars
  <2> SUFFICES ASSUME IInv, [Next]_vars, Len(ops') > Len(ops),
                      \A w \in Workers : job'[w] # job[w] => w \notin overtaken
               PROVE  LET undo == ops'[Len(ops')].undo
                      IN Replayable(db', undo) /\ Undone(db', undo) = db
    OBVIOUS
  <2>1. PICK w \in Workers : SyncWrite(w)
    <3>1. Len(ops) \in Nat /\ ops \in Seq(Op)
      BY DEF IInv, History
    <3>2. ops' # ops
      BY <3>1
    <3>3. ASSUME NEW w \in Workers, RollbackWrite(w) PROVE FALSE
      <4>1. ops' = [ops EXCEPT ![job[w].op].rolledBack = TRUE]
        BY <3>3 DEF RollbackWrite
      <4>2. Len(ops') = Len(ops)
        BY <3>1, <4>1
      <4> QED BY <3>1, <4>2
    <3> QED BY <3>2, <3>3 DEF Next, vars, SyncRead, Abort, RollbackCheck, Edit, SetStatus,
                              Delete, DeleteDraft, UserStep
  <2>2. job'[w] # job[w]
    BY <2>1, FinishControl DEF SyncWrite, NoJob, Busy
  <2> QED BY <2>1, <2>2, SyncWriteUndoable
<1> QED BY <1>1, SpecIInv, PTL DEF Spec, SyncIsUndoable

\* No rollback that was not overtaken deletes a task that is done or a policy
\* that is published (assertNoDataLoss).
THEOREM WorkIsKept == Spec => WorkKept
<1> DEFINE Step == \A w \in Workers :
                     job[w].kind = "rollback" /\ job'[w] = NoJob /\ w \notin overtaken
                       => \A i \in Rows(db) : i[1] \notin Controls /\ db.rows[i].finished
                                                => i \in Rows(db')
<1>1. IInv /\ [Next]_vars => [Step]_vars
  <2> SUFFICES ASSUME IInv, [Next]_vars, NEW w \in Workers,
                      job[w].kind = "rollback", job'[w] = NoJob, w \notin overtaken,
                      NEW i \in Rows(db), i[1] \notin Controls, db.rows[i].finished
               PROVE  i \in Rows(db')
    OBVIOUS
  <2>1. job'[w] # job[w]
    BY DEF NoJob
  <2>2. Abort(w) \/ RollbackWrite(w)
    <3>1. job' # job
      BY <2>1
    <3>2. DOMAIN job = Workers
      BY DEF IInv, Jobs
    <3>3. ASSUME NEW x \in Workers, SyncRead(x) \/ RollbackCheck(x) PROVE FALSE
      <4>1. job'[w] = job[w] \/ job'[w].kind \in {"sync", "rollback"}
        BY <3>2, <3>3 DEF SyncRead, RollbackCheck
      <4> QED BY <2>1, <4>1 DEF NoJob
    <3>4. ASSUME NEW x \in Workers, SyncWrite(x) \/ Abort(x) \/ RollbackWrite(x) PROVE x = w
      BY <2>1, <3>2, <3>4 DEF SyncWrite, Abort, RollbackWrite, Finish
    <3>5. ~SyncWrite(w)
      BY DEF SyncWrite
    <3> QED BY <3>1, <3>3, <3>4, <3>5
            DEF Next, vars, Edit, SetStatus, Delete, DeleteDraft, UserStep
  <2>3. CASE Abort(w)
    BY <2>3 DEF Abort
  <2>4. CASE RollbackWrite(w)
    <3>1. RollbackJob(w)
      BY JobKinds DEF IInv
    <3>2. PICK u : u = ops[job[w].op].undo
      OBVIOUS
    <3>3. NoDataLoss(u) /\ Replayable(db, u) /\ db' = Undone(db, u)
      BY <2>4, <3>1, <3>2 DEF RollbackJob, RollbackWrite
    <3>4. u \in Undo
      <4>1. ops[job[w].op] \in Op
        BY <3>1 DEF RollbackJob, IInv, History
      <4> QED BY <3>2, <4>1 DEF Op
    <3>5. i \notin u.created
      BY <3>3 DEF NoDataLoss
    <3>6. Tables(db, Len(ops)) /\ Len(ops) \in Nat
      BY DEF IInv, History
    <3> QED BY <3>3, <3>4, <3>5, <3>6, UndoneTables
  <2> QED BY <2>2, <2>3, <2>4
<1> QED BY <1>1, SpecIInv, PTL DEF Spec, WorkKept

-----------------------------------------------------------------------------
(* Frameworks do not take rows from each other.                            *)
(*                                                                         *)
(* ManifestCovered is not inductive, since a rollback brings back tables   *)
(* that an earlier state had.  What those tables were can be told from the *)
(* present ones and the records of the syncs that still stand: the         *)
(* invariant says that the manifests were covered before each sync, too.   *)
(* Below, d and o are the tables and the operations, and k stands for the  *)
(* moment before operation k (the present is k = Len(o) + 1).              *)

Standing(o, k) == {j \in DOMAIN o : j >= k /\ ~o[j].rolledBack}

\* The rows of template t that were active: those made since are left out, those
\* archived since are counted.
ActiveBefore(d, o, k, t) ==
  {i \in Rows(d) :
     /\ i[1] = t
     /\ \A j \in Standing(o, k) : i \notin o[j].undo.created
     /\ d.rows[i].archived => \E j \in Standing(o, k) : i \in o[j].undo.archived}

\* Requirement m was mapped, and not retired.
MappedBefore(d, o, k, m) ==
  /\ m \in d.maps /\ \A j \in Standing(o, k) : m \notin o[j].undo.mapped
  /\ \/ m \notin d.retired /\ \A j \in Standing(o, k) : m \notin o[j].undo.revived
     \/ \E j \in Standing(o, k) :
          /\ m \in o[j].undo.retired
          /\ \A h \in Standing(o, k) : h < j => m \notin o[h].undo.revived

\* Link l was there.
LinkedBefore(d, o, k, l) ==
  \/ l \in d.links /\ \A j \in Standing(o, k) : l \notin o[j].undo.linked
  \/ \E j \in Standing(o, k) :
       /\ l \in o[j].undo.unlinked
       /\ \A h \in Standing(o, k) : h < j => l \notin o[h].undo.linked

\* Edge e was there.
JoinedBefore(d, o, k, e) ==
  e \in d.edges /\ \A j \in Standing(o, k) : e \notin o[j].undo.joined

\* Framework f was on version v, where ver are the present versions.
WasOn(o, ver, k, f, v) ==
  \/ v = ver[f] /\ \A j \in Standing(o, k) : o[j].f # f
  \/ \E j \in Standing(o, k) :
       /\ o[j].f = f /\ v = o[j].from
       /\ \A h \in Standing(o, k) : o[h].f = f => j <= h

\* Template t of version v of framework f had one active row, mapped and linked as
\* the manifest says.
FullBefore(d, o, gone, k, f, v, t) ==
  \E i \in ActiveBefore(d, o, k, t) :
    /\ ActiveBefore(d, o, k, t) = {i}
    /\ \A m \in Manifests[f][v].maps : m[1] = t => MappedBefore(d, o, k, <<f, i, m[2]>>)
    /\ \A e \in Manifests[f][v].edges : e[1] = t /\ e[2] \notin gone =>
         \E x \in IF e[2] \in FormTypes THEN {e[2]} ELSE ActiveBefore(d, o, k, e[2]) :
           LinkedBefore(d, o, k, <<f, i, x>>) /\ JoinedBefore(d, o, k, <<i, x>>)

\* That was so of the manifests of the frameworks in tr.  Of every framework the
\* policies had a row (a sync would not create it), and no template had two.
\* Templates in gone are left out.
CoveredBefore(d, o, ver, gone, tr, k) ==
  /\ \A f \in tr : \A v \in DOMAIN Manifests[f] : WasOn(o, ver, k, f, v) =>
       \A t \in In(Manifests[f][v]) \ gone : FullBefore(d, o, gone, k, f, v, t)
  /\ \A f \in Frameworks : \A v \in DOMAIN Manifests[f] : WasOn(o, ver, k, f, v) =>
       \A t \in (In(Manifests[f][v]) \cap Policies) \ gone : ActiveBefore(d, o, k, t) # {}
  /\ \A t \in Templates \ gone : \A i, j \in ActiveBefore(d, o, k, t) : i = j

\* The frameworks that were reconciled.
Trusted(o, k) ==
  (Frameworks \ drifted) \cup {o[j].f : j \in {j \in DOMAIN o : j < k /\ ~o[j].rolledBack}}

AlwaysCovered ==
  crossed = {} =>
    \A k \in 1..(Len(ops) + 1) :
      CoveredBefore(db, ops, version, lost, Trusted(ops, k), k)

\* No record both adds and removes.
Consistent(u) == u.revived \cap u.retired = {} /\ u.linked \cap u.unlinked = {}

\* While a sync holds the lock, rows can only be deleted.
StillThere(seen) ==
  /\ \A i \in Rows(db) : i \in Rows(seen) /\ seen.rows[i].archived = db.rows[i].archived
  /\ \A i \in Rows(seen) \ Rows(db) : i[1] \in lost

CInv ==
  /\ AlwaysCovered
  /\ \A j \in DOMAIN ops : Consistent(ops[j].undo)
  /\ \A w \in Workers : job[w].kind = "sync" => StillThere(job[w].seen)

\* The same versions were current and the same rows were active, but for those of
\* templates that are gone now, and their mappings, links and edges are still to
\* be seen.
Kept(d, o, ver, k, d2, o2, ver2, gone2, k2) ==
  /\ \A f \in Frameworks : \A v \in DOMAIN Manifests[f] :
       WasOn(o2, ver2, k2, f, v) <=> WasOn(o, ver, k, f, v)
  /\ \A t \in Templates \ gone2 : ActiveBefore(d2, o2, k2, t) = ActiveBefore(d, o, k, t)
  /\ \A t \in Templates \ gone2 : \A i \in ActiveBefore(d, o, k, t) :
       \A f \in Frameworks : \A r \in Requirements :
         MappedBefore(d, o, k, <<f, i, r>>) => MappedBefore(d2, o2, k2, <<f, i, r>>)
  /\ \A t \in Templates \ gone2 : \A i \in ActiveBefore(d, o, k, t) : \A x :
       (x \in FormTypes \/ \E y \in Templates \ gone2 : x \in ActiveBefore(d, o, k, y)) =>
         /\ \A f \in Frameworks :
              LinkedBefore(d, o, k, <<f, i, x>>) => LinkedBefore(d2, o2, k2, <<f, i, x>>)
         /\ JoinedBefore(d, o, k, <<i, x>>) => JoinedBefore(d2, o2, k2, <<i, x>>)

\* What was covered stays so.
LEMMA CoveredKept ==
  ASSUME NEW d, NEW o, NEW ver, NEW gone, NEW k, NEW tr \in SUBSET Frameworks,
         NEW d2, NEW o2, NEW ver2, NEW gone2, NEW k2, gone \subseteq gone2,
         Kept(d, o, ver, k, d2, o2, ver2, gone2, k2), CoveredBefore(d, o, ver, gone, tr, k)
  PROVE  CoveredBefore(d2, o2, ver2, gone2, tr, k2)
<1> USE DEF Kept
<1>1. ASSUME NEW f \in tr, NEW v \in DOMAIN Manifests[f],
             WasOn(o2, ver2, k2, f, v), NEW t \in In(Manifests[f][v]) \ gone2
      PROVE  FullBefore(d2, o2, gone2, k2, f, v, t)
  <2>0. FullBefore(d, o, gone, k, f, v, t)
    BY <1>1 DEF CoveredBefore
  <2>1. PICK i \in ActiveBefore(d, o, k, t) :
          /\ ActiveBefore(d, o, k, t) = {i}
          /\ \A m \in Manifests[f][v].maps :
               m[1] = t => MappedBefore(d, o, k, <<f, i, m[2]>>)
          /\ \A e \in Manifests[f][v].edges : e[1] = t /\ e[2] \notin gone =>
               \E x \in IF e[2] \in FormTypes THEN {e[2]} ELSE ActiveBefore(d, o, k, e[2]) :
                 LinkedBefore(d, o, k, <<f, i, x>>) /\ JoinedBefore(d, o, k, <<i, x>>)
    BY <2>0 DEF FullBefore
  <2>2. /\ t \in Templates
        /\ \A m \in Manifests[f][v].maps : m[2] \in Requirements
        /\ \A e \in Manifests[f][v].edges : e[2] \notin FormTypes => e[2] \in Templates
    BY ManifestsAssumption DEF IsManifest, In
  <2>3. ActiveBefore(d2, o2, k2, t) = {i}
    BY <2>1, <2>2
  <2>4. \A m \in Manifests[f][v].maps :
          m[1] = t => MappedBefore(d2, o2, k2, <<f, i, m[2]>>)
    BY <2>1, <2>2
  <2>5. ASSUME NEW e \in Manifests[f][v].edges, e[1] = t, e[2] \notin gone2
        PROVE  \E x \in IF e[2] \in FormTypes THEN {e[2]}
                        ELSE ActiveBefore(d2, o2, k2, e[2]) :
                 /\ LinkedBefore(d2, o2, k2, <<f, i, x>>)
                 /\ JoinedBefore(d2, o2, k2, <<i, x>>)
    <3>1. PICK x \in IF e[2] \in FormTypes THEN {e[2]} ELSE ActiveBefore(d, o, k, e[2]) :
            LinkedBefore(d, o, k, <<f, i, x>>) /\ JoinedBefore(d, o, k, <<i, x>>)
      BY <2>1, <2>5
    <3>2. x \in FormTypes \/ \E y \in Templates \ gone2 : x \in ActiveBefore(d, o, k, y)
      BY <2>2, <2>5
    <3>3. LinkedBefore(d2, o2, k2, <<f, i, x>>) /\ JoinedBefore(d2, o2, k2, <<i, x>>)
      BY <2>2, <3>1, <3>2
    <3>4. x \in IF e[2] \in FormTypes THEN {e[2]} ELSE ActiveBefore(d2, o2, k2, e[2])
      BY <2>2, <2>5
    <3> QED BY <3>3, <3>4
  <2> QED BY <2>3, <2>4, <2>5 DEF FullBefore
<1>2. ASSUME NEW f \in Frameworks, NEW v \in DOMAIN Manifests[f],
             WasOn(o2, ver2, k2, f, v), NEW t \in (In(Manifests[f][v]) \cap Policies) \ gone2
      PROVE  ActiveBefore(d2, o2, k2, t) # {}
  <2>1. WasOn(o, ver, k, f, v) /\ t \in Templates
    BY <1>2 DEF Templates
  <2>2. ActiveBefore(d, o, k, t) # {}
    BY <2>1 DEF CoveredBefore
  <2> QED BY <2>1, <2>2
<1>3. \A t \in Templates \ gone2 : \A i, j \in ActiveBefore(d2, o2, k2, t) : i = j
  BY DEF CoveredBefore
<1> QED BY <1>1, <1>2, <1>3 DEF CoveredBefore

\* What users do to tables: rows may be deleted, with what hangs on them.
UserChange(d, d2, gone2) ==
  /\ Rows(d2) \subseteq Rows(d)
  /\ \A i \in Rows(d) \ Rows(d2) : i[1] \in gone2
  /\ \A i \in Rows(d2) : d2.rows[i].archived = d.rows[i].archived
  /\ \A m \in d.maps : m[2] \in Rows(d2) => m \in d2.maps
  /\ d2.retired \subseteq d.retired
  /\ \A l \in d.links :
       l[2] \in Rows(d2) /\ l[3] \in Rows(d2) \cup FormTypes => l \in d2.links
  /\ \A e \in d.edges :
       e[1] \in Rows(d2) /\ e[2] \in Rows(d2) \cup FormTypes => e \in d2.edges

LEMMA UserCovered ==
  ASSUME NEW d, NEW d2, NEW o, NEW ver, NEW gone, NEW gone2, NEW k, gone \subseteq gone2,
         NEW tr \in SUBSET Frameworks,
         UserChange(d, d2, gone2), CoveredBefore(d, o, ver, gone, tr, k)
  PROVE  CoveredBefore(d2, o, ver, gone2, tr, k)
<1>1. \A t \in Templates \ gone2 : ActiveBefore(d2, o, k, t) = ActiveBefore(d, o, k, t)
  BY DEF UserChange, ActiveBefore
<1>2. \A t \in Templates \ gone2 : ActiveBefore(d, o, k, t) \subseteq Rows(d2)
  BY DEF UserChange, ActiveBefore
<1>3. \A f, i, r : i \in Rows(d2) /\ MappedBefore(d, o, k, <<f, i, r>>)
                     => MappedBefore(d2, o, k, <<f, i, r>>)
  BY DEF UserChange, MappedBefore
<1>4. \A f, i, x : i \in Rows(d2) /\ x \in Rows(d2) \cup FormTypes
                     /\ LinkedBefore(d, o, k, <<f, i, x>>)
                     => LinkedBefore(d2, o, k, <<f, i, x>>)
  BY DEF UserChange, LinkedBefore
<1>5. \A i, x : i \in Rows(d2) /\ x \in Rows(d2) \cup FormTypes
                  /\ JoinedBefore(d, o, k, <<i, x>>)
                  => JoinedBefore(d2, o, k, <<i, x>>)
  BY DEF UserChange, JoinedBefore
<1>6. Kept(d, o, ver, k, d2, o, ver, gone2, k)
  BY <1>1, <1>2, <1>3, <1>4, <1>5 DEF Kept
<1> QED BY <1>6, CoveredKept

\* Sync n + 1 changes nothing of what was before it.
LEMMA PastOfSync ==
  ASSUME NEW o, o \in Seq(Op), NEW n, n = Len(o), NEW d, NEW seen, NEW u, NEW to,
         IsManifest(to), Tables(d, n), Recorded(u, d, seen, to, n), Appliable(d, u),
         \A i \in u.archived \cap Rows(d) : ~d.rows[i].archived,
         NEW ver, DOMAIN ver = Frameworks, NEW f \in Frameworks, NEW v,
         NEW op, op.undo = u, op.f = f, op.from = ver[f], ~op.rolledBack,
         NEW d2, d2 = Synced(d, u, to), NEW o2, o2 = Append(o, op),
         NEW ver2, ver2 = [ver EXCEPT ![f] = v],
         NEW gone, NEW tr \in SUBSET Frameworks, NEW k \in 1..(n + 1),
         CoveredBefore(d, o, ver, gone, tr, k)
  PROVE  CoveredBefore(d2, o2, ver2, gone, tr, k)
<1> DEFINE st == Standing(o, k)
           st2 == Standing(o2, k)
<1>1. /\ n \in Nat /\ DOMAIN o = 1..n /\ DOMAIN o2 = 1..(n + 1)
      /\ o2[n + 1] = op /\ \A j \in 1..n : o2[j] = o[j]
  OBVIOUS
<1>2. st2 = st \cup {n + 1} /\ st \subseteq 1..n
  BY <1>1 DEF Standing
<1>3. o2[n + 1] = op /\ \A j \in st : o2[j] = o[j] /\ j < n + 1
  BY <1>1, <1>2
<1> HIDE DEF st, st2
<1>4. \A g \in Frameworks : \A x \in DOMAIN Manifests[g] :
        WasOn(o2, ver2, k, g, x) <=> WasOn(o, ver, k, g, x)
  <2> TAKE g \in Frameworks
  <2> TAKE x \in DOMAIN Manifests[g]
  <2>1. ver2[g] = IF g = f THEN v ELSE ver[g]
    OBVIOUS
  <2>2. WasOn(o, ver, k, g, x) <=>
          \/ x = ver[g] /\ \A j \in st : o[j].f # g
          \/ \E j \in st : /\ o[j].f = g /\ x = o[j].from
                           /\ \A h \in st : o[h].f = g => j <= h
    BY DEF WasOn, st
  <2>3. WasOn(o2, ver2, k, g, x) <=>
          \/ x = ver2[g] /\ \A j \in st2 : o2[j].f # g
          \/ \E j \in st2 : /\ o2[j].f = g /\ x = o2[j].from
                            /\ \A h \in st2 : o2[h].f = g => j <= h
    BY DEF WasOn, st2
  <2>4. CASE \E j \in st : o[j].f = g
    <3>1. ASSUME NEW j \in st
          PROVE  /\ j \in st2 /\ o2[j] = o[j] /\ j < n + 1
                 /\ (\A h \in st2 : o2[h].f = g => j <= h) <=> (\A h \in st : o[h].f = g => j <= h)
      BY <1>1, <1>2, <1>3
    <3>2. ~ \A h \in st2 : o2[h].f = g => n + 1 <= h
      BY <1>1, <1>2, <1>3, <2>4
    <3>3. WasOn(o, ver, k, g, x) <=>
            \E j \in st : /\ o[j].f = g /\ x = o[j].from
                          /\ \A h \in st : o[h].f = g => j <= h
      BY <2>2, <2>4
    <3>4. WasOn(o2, ver2, k, g, x) <=>
            \E j \in st2 : /\ o2[j].f = g /\ x = o2[j].from
                           /\ \A h \in st2 : o2[h].f = g => j <= h
      BY <2>3, <2>4, <3>1
    <3> QED BY <1>2, <3>1, <3>2, <3>3, <3>4
  <2>5. CASE \A j \in st : o[j].f # g
    BY <1>1, <1>2, <1>3, <2>1, <2>2, <2>3, <2>5
  <2> QED BY <2>4, <2>5
<1>5. /\ u.created \cap Rows(d) = {}
      /\ Rows(d2) = Rows(d) \cup u.created
  <2>1. u.created \cap Rows(d) = {}
    BY <1>1 DEF Tables, Recorded
  <2>2. Firsts(u.updated) \cup u.archived \subseteq Rows(d) \cup u.created
    BY DEF Appliable
  <2> QED BY <2>1, <2>2, SyncedRows
<1>6. \A i \in Rows(d) : d2.rows[i].archived <=> (d.rows[i].archived \/ i \in u.archived)
  <2> TAKE i \in Rows(d)
  <2>1. d2.rows[i] = SyncedRow(d, u, to, i) /\ i \notin u.created /\ d.rows[i] \in Row
    BY <1>5, SyncedRows DEF Tables
  <2> QED BY <2>1 DEF SyncedRow, Row
<1>7. \A t \in Templates \ gone : ActiveBefore(d2, o2, k, t) = ActiveBefore(d, o, k, t)
  <2> TAKE t \in Templates \ gone
  <2>1. ActiveBefore(d, o, k, t) =
          {i \in Rows(d) :
             /\ i[1] = t /\ \A j \in st : i \notin o[j].undo.created
             /\ d.rows[i].archived => \E j \in st : i \in o[j].undo.archived}
    BY DEF ActiveBefore, st
  <2>2. ActiveBefore(d2, o2, k, t) =
          {i \in Rows(d2) :
             /\ i[1] = t /\ \A j \in st2 : i \notin o2[j].undo.created
             /\ d2.rows[i].archived => \E j \in st2 : i \in o2[j].undo.archived}
    BY DEF ActiveBefore, st2
  <2>3. ASSUME NEW i \in Rows(d)
        PROVE  i \in ActiveBefore(d2, o2, k, t) <=> i \in ActiveBefore(d, o, k, t)
    <3>1. (\A j \in st2 : i \notin o2[j].undo.created)
            <=> (\A j \in st : i \notin o[j].undo.created)
      BY <1>2, <1>3, <1>5
    <3>2. (\E j \in st2 : i \in o2[j].undo.archived)
            <=> (i \in u.archived \/ \E j \in st : i \in o[j].undo.archived)
      BY <1>2, <1>3
    <3>3. i \in u.archived => ~d.rows[i].archived
      OBVIOUS
    <3>4. i \in Rows(d2) /\ (d2.rows[i].archived <=> (d.rows[i].archived \/ i \in u.archived))
      BY <1>5, <1>6
    <3> QED BY <2>1, <2>2, <3>1, <3>2, <3>3, <3>4
  <2>4. \A i \in Rows(d2) \ Rows(d) : i \notin ActiveBefore(d2, o2, k, t)
    BY <1>2, <1>3, <1>5, <2>2
  <2> QED BY <1>5, <2>1, <2>2, <2>3, <2>4
<1>8. /\ u.mapped \cap d.maps = {} /\ u.revived \subseteq d.retired
      /\ u.retired \cap d.retired = {}
      /\ u.linked \cap d.links = {} /\ u.unlinked \subseteq d.links
      /\ u.joined \cap d.edges = {}
      /\ d2.maps = d.maps \cup u.mapped
      /\ d2.retired = (d.retired \ u.revived) \cup u.retired
      /\ d2.links = (d.links \cup u.linked) \ u.unlinked
      /\ d2.edges = d.edges \cup u.joined
  BY DEF Recorded, Synced
<1>9. \A m : MappedBefore(d, o, k, m) => MappedBefore(d2, o2, k, m)
  <2> SUFFICES ASSUME NEW m, MappedBefore(d, o, k, m) PROVE MappedBefore(d2, o2, k, m)
    OBVIOUS
  <2>1. /\ m \in d.maps /\ \A j \in st : m \notin o[j].undo.mapped
        /\ \/ m \notin d.retired /\ \A j \in st : m \notin o[j].undo.revived
           \/ \E j \in st : /\ m \in o[j].undo.retired
                            /\ \A h \in st : h < j => m \notin o[h].undo.revived
    BY DEF MappedBefore, st
  <2>2. m \in d2.maps /\ \A j \in st2 : m \notin o2[j].undo.mapped
    BY <1>2, <1>3, <1>8, <2>1
  <2>3. \/ m \notin d2.retired /\ \A j \in st2 : m \notin o2[j].undo.revived
        \/ \E j \in st2 : /\ m \in o2[j].undo.retired
                          /\ \A h \in st2 : h < j => m \notin o2[h].undo.revived
    <3>1. CASE m \notin d.retired /\ \A j \in st : m \notin o[j].undo.revived
      <4>1. \A h \in st2 : m \notin o2[h].undo.revived
        BY <1>2, <1>3, <1>8, <3>1
      <4>2. CASE m \in u.retired
        BY <1>2, <1>3, <4>1, <4>2
      <4>3. CASE m \notin u.retired
        BY <1>8, <3>1, <4>1, <4>3
      <4> QED BY <4>2, <4>3
    <3>2. ASSUME NEW j \in st, m \in o[j].undo.retired,
                 \A h \in st : h < j => m \notin o[h].undo.revived
          PROVE  \E i \in st2 : /\ m \in o2[i].undo.retired
                                /\ \A h \in st2 : h < i => m \notin o2[h].undo.revived
      <4>1. j \in st2 /\ m \in o2[j].undo.retired
        BY <1>2, <1>3, <3>2
      <4>2. \A h \in st2 : h < j => m \notin o2[h].undo.revived
        BY <1>1, <1>2, <1>3, <3>2
      <4> QED BY <4>1, <4>2
    <3> QED BY <2>1, <3>1, <3>2
  <2> QED BY <2>2, <2>3 DEF MappedBefore, st2
<1>10. \A l : LinkedBefore(d, o, k, l) => LinkedBefore(d2, o2, k, l)
  <2> SUFFICES ASSUME NEW l, LinkedBefore(d, o, k, l) PROVE LinkedBefore(d2, o2, k, l)
    OBVIOUS
  <2>1. \/ l \in d.links /\ \A j \in st : l \notin o[j].undo.linked
        \/ \E j \in st : /\ l \in o[j].undo.unlinked
                         /\ \A h \in st : h < j => l \notin o[h].undo.linked
    BY DEF LinkedBefore, st
  <2>2. CASE l \in d.links /\ \A j \in st : l \notin o[j].undo.linked
    <3>1. \A h \in st2 : l \notin o2[h].undo.linked
      BY <1>2, <1>3, <1>8, <2>2
    <3>2. CASE l \in u.unlinked
      BY <1>2, <1>3, <3>1, <3>2 DEF LinkedBefore, st2
    <3>3. CASE l \notin u.unlinked
      BY <1>8, <2>2, <3>1, <3>3 DEF LinkedBefore, st2
    <3> QED BY <3>2, <3>3
  <2>3. ASSUME NEW j \in st, l \in o[j].undo.unlinked,
               \A h \in st : h < j => l \notin o[h].undo.linked
        PROVE  LinkedBefore(d2, o2, k, l)
    <3>1. j \in st2 /\ l \in o2[j].undo.unlinked
      BY <1>2, <1>3, <2>3
    <3>2. \A h \in st2 : h < j => l \notin o2[h].undo.linked
      BY <1>1, <1>2, <1>3, <2>3
    <3> QED BY <3>1, <3>2 DEF LinkedBefore, st2
  <2> QED BY <2>1, <2>2, <2>3
<1>11. \A e : JoinedBefore(d, o, k, e) => JoinedBefore(d2, o2, k, e)
  BY <1>2, <1>3, <1>8 DEF JoinedBefore, st, st2
<1>12. \A t \in Templates \ gone : \A i \in ActiveBefore(d, o, k, t) :
         \A g \in Frameworks : \A r \in Requirements :
           MappedBefore(d, o, k, <<g, i, r>>) => MappedBefore(d2, o2, k, <<g, i, r>>)
  BY <1>9
<1>13. \A t \in Templates \ gone : \A i \in ActiveBefore(d, o, k, t) : \A x :
         (x \in FormTypes \/ \E y \in Templates \ gone : x \in ActiveBefore(d, o, k, y)) =>
           /\ \A g \in Frameworks :
                LinkedBefore(d, o, k, <<g, i, x>>) => LinkedBefore(d2, o2, k, <<g, i, x>>)
           /\ JoinedBefore(d, o, k, <<i, x>>) => JoinedBefore(d2, o2, k, <<i, x>>)
  BY <1>10, <1>11
<1>14. Kept(d, o, ver, k, d2, o2, ver2, gone, k)
  BY <1>4, <1>7, <1>12, <1>13 DEF Kept
<1> QED BY <1>14, CoveredKept

\* Operation i is the last sync that stands.
LastStands(o, i) == ~o[i].rolledBack /\ \A j \in DOMAIN o : j > i => o[j].rolledBack

\* When the last standing sync, i, is undone, what is before k > i is what was
\* before i.
Moment(k, i) == IF k <= i THEN k ELSE i

\* The operations and versions after a rollback of operation i.
Reversed(o, i) == [o EXCEPT ![i].rolledBack = TRUE]
Returned(o, i, ver) == [ver EXCEPT ![o[i].f] = o[i].from]

\* Undoing the last sync that stands, i, changes nothing of what was before it,
\* and makes that the present.
LEMMA PastOfRollback ==
  ASSUME NEW o, o \in Seq(Op), NEW n, n = Len(o), NEW d, Tables(d, n),
         NEW i \in DOMAIN o, LastStands(o, i),
         NEW u, u = o[i].undo, Replayable(d, u), Consistent(u),
         NEW ver, DOMAIN ver = Frameworks,
         NEW d2, d2 = Undone(d, u), NEW o2, o2 = Reversed(o, i),
         NEW ver2, ver2 = Returned(o, i, ver),
         NEW gone, NEW tr \in SUBSET Frameworks, NEW k \in 1..(n + 1),
         NEW k0, k0 = Moment(k, i),
         CoveredBefore(d, o, ver, gone, tr, k0)
  PROVE  CoveredBefore(d2, o2, ver2, gone, tr, k)
<1> DEFINE st == Standing(o, k0)
           st2 == Standing(o2, k)
<1>1. /\ n \in Nat /\ DOMAIN o = 1..n /\ DOMAIN o2 = 1..n
      /\ \A j \in 1..n : o[j] \in Op
      /\ o2[i] = [o[i] EXCEPT !.rolledBack = TRUE]
      /\ \A j \in 1..n : j # i => o2[j] = o[j]
  BY DEF Reversed
<1>2. \A j \in 1..n : /\ o2[j].f = o[j].f /\ o2[j].from = o[j].from
                      /\ o2[j].undo = o[j].undo
                      /\ o2[j].rolledBack <=> o[j].rolledBack \/ j = i
  BY <1>1 DEF Op
<1>3. /\ st \subseteq 1..n /\ i \in st /\ st2 = st \ {i}
      /\ \A j \in st : j <= i
  BY <1>1, <1>2 DEF Standing, LastStands, Moment
<1>4. /\ o[i].undo = u
      /\ \A j \in st : o2[j].f = o[j].f /\ o2[j].from = o[j].from /\ o2[j].undo = o[j].undo
  BY <1>2, <1>3
<1> HIDE DEF st, st2
<1>5. \A g \in Frameworks : \A x \in DOMAIN Manifests[g] :
        WasOn(o2, ver2, k, g, x) <=> WasOn(o, ver, k0, g, x)
  <2> TAKE g \in Frameworks
  <2> TAKE x \in DOMAIN Manifests[g]
  <2>1. ver2[g] = IF g = o[i].f THEN o[i].from ELSE ver[g]
    BY DEF Returned
  <2>2. WasOn(o, ver, k0, g, x) <=>
          \/ x = ver[g] /\ \A j \in st : o[j].f # g
          \/ \E j \in st : /\ o[j].f = g /\ x = o[j].from
                           /\ \A h \in st : o[h].f = g => j <= h
    BY DEF WasOn, st
  <2>3. WasOn(o2, ver2, k, g, x) <=>
          \/ x = ver2[g] /\ \A j \in st2 : o2[j].f # g
          \/ \E j \in st2 : /\ o2[j].f = g /\ x = o2[j].from
                            /\ \A h \in st2 : o2[h].f = g => j <= h
    BY DEF WasOn, st2
  <2>4. CASE \E j \in st2 : o2[j].f = g
    <3>1. PICK j \in st2 : o[j].f = g
      BY <1>3, <1>4, <2>4
    <3>2. j \in st /\ j # i /\ j <= i
      BY <1>3, <3>1
    <3>3. ~ \A h \in st : o[h].f = g => i <= h
      BY <1>1, <1>3, <3>1, <3>2
    <3>4. ASSUME NEW y \in st2
          PROVE  (\A h \in st2 : o2[h].f = g => y <= h) <=> (\A h \in st : o[h].f = g => y <= h)
      BY <1>3, <1>4
    <3>5. WasOn(o, ver, k0, g, x) <=>
            \E y \in st2 : /\ o[y].f = g /\ x = o[y].from
                           /\ \A h \in st : o[h].f = g => y <= h
      BY <1>3, <2>2, <3>1, <3>2, <3>3
    <3>6. WasOn(o2, ver2, k, g, x) <=>
            \E y \in st2 : /\ o[y].f = g /\ x = o[y].from
                           /\ \A h \in st : o[h].f = g => y <= h
      <4>1. WasOn(o2, ver2, k, g, x) <=>
              \E y \in st2 : /\ o2[y].f = g /\ x = o2[y].from
                             /\ \A h \in st2 : o2[h].f = g => y <= h
        BY <2>3, <2>4
      <4>2. \A y \in st2 : o2[y].f = o[y].f /\ o2[y].from = o[y].from
        BY <1>3, <1>4
      <4> QED BY <3>4, <4>1, <4>2
    <3> QED BY <3>5, <3>6
  <2>5. CASE \A j \in st2 : o2[j].f # g
    <3>1. \A j \in st : o[j].f = g => j = i
      BY <1>3, <1>4, <2>5
    <3>2. CASE g = o[i].f
      BY <1>1, <1>3, <2>1, <2>2, <2>3, <2>5, <3>1, <3>2
    <3>3. CASE g # o[i].f
      BY <1>3, <2>1, <2>2, <2>3, <2>5, <3>1, <3>3
    <3> QED BY <3>2, <3>3
  <2> QED BY <2>4, <2>5
<1>6. u \in Undo
  BY <1>1, <1>3, <1>4 DEF Op
<1>7. PICK cut : cut = Deleted(d, u.created)
  OBVIOUS
<1>8. Rows(d2) = Rows(d) \ u.created /\ Rows(cut) = Rows(d2) /\ Tables(cut, n)
  <2>1. Rows(d2) = Rows(d) \ u.created
    BY <1>1, <1>6, UndoneTables
  <2>2. Tables(cut, n) /\ Rows(cut) = Rows(d) \ u.created
    BY <1>7, DeletedTables
  <2> QED BY <2>1, <2>2
<1>9. \A r \in Rows(d2) : d2.rows[r].archived <=> (d.rows[r].archived /\ r \notin u.archived)
  <2> TAKE r \in Rows(d2)
  <2>1. d2.rows[r] = UndoneRow(cut, u, r)
    BY <1>7, UndoneRows
  <2>2. cut.rows[r] \in Row /\ cut.rows[r] = d.rows[r]
    BY <1>7, <1>8 DEF Tables, Deleted, Rows
  <2> QED BY <2>1, <2>2 DEF UndoneRow, Row
<1>10. \A t \in Templates \ gone : ActiveBefore(d2, o2, k, t) = ActiveBefore(d, o, k0, t)
  <2> TAKE t \in Templates \ gone
  <2>1. ActiveBefore(d, o, k0, t) =
          {r \in Rows(d) :
             /\ r[1] = t /\ \A j \in st : r \notin o[j].undo.created
             /\ d.rows[r].archived => \E j \in st : r \in o[j].undo.archived}
    BY DEF ActiveBefore, st
  <2>2. ActiveBefore(d2, o2, k, t) =
          {r \in Rows(d2) :
             /\ r[1] = t /\ \A j \in st2 : r \notin o2[j].undo.created
             /\ d2.rows[r].archived => \E j \in st2 : r \in o2[j].undo.archived}
    BY DEF ActiveBefore, st2
  <2>3. ASSUME NEW r \in Rows(d2)
        PROVE  r \in ActiveBefore(d2, o2, k, t) <=> r \in ActiveBefore(d, o, k0, t)
    <3>1. (\A j \in st2 : r \notin o2[j].undo.created)
            <=> (\A j \in st : r \notin o[j].undo.created)
      BY <1>3, <1>4, <1>8
    <3>2. (\E j \in st : r \in o[j].undo.archived)
            <=> (r \in u.archived \/ \E j \in st2 : r \in o2[j].undo.archived)
      BY <1>3, <1>4
    <3>3. r \in Rows(d) /\ (d2.rows[r].archived <=> (d.rows[r].archived /\ r \notin u.archived))
      BY <1>8, <1>9
    <3> QED BY <2>1, <2>2, <3>1, <3>2, <3>3
  <2>4. \A r \in Rows(d) \ Rows(d2) : r \notin ActiveBefore(d, o, k0, t)
    BY <1>3, <1>4, <1>8, <2>1
  <2> QED BY <1>8, <2>1, <2>2, <2>3, <2>4
<1>11. \A t : ActiveBefore(d, o, k0, t) \subseteq Rows(d2)
  BY <1>3, <1>4, <1>8 DEF ActiveBefore, st
<1>12. /\ u.revived \cap u.retired = {} /\ u.linked \cap u.unlinked = {}
       /\ \A m \in d.maps : m[2] \in Rows(d2) /\ m \notin u.mapped => m \in d2.maps
       /\ d2.retired \subseteq (d.retired \ u.retired) \cup u.revived
       /\ \A l \in d.links : l[2] \in Rows(d2) /\ l[3] \in Rows(d2) \cup FormTypes
                               /\ l \notin u.linked => l \in d2.links
       /\ u.unlinked \subseteq d2.links
       /\ \A e \in d.edges : e[1] \in Rows(d2) /\ e[2] \in Rows(d2) \cup FormTypes
                               /\ e \notin u.joined => e \in d2.edges
  <2>1. u.created \cap FormTypes = {}
    BY <1>6 DEF Undo, Ids
  <2>2. /\ cut.maps = {m \in d.maps : m[2] \notin u.created}
        /\ cut.retired = {m \in d.retired : m[2] \notin u.created}
        /\ cut.links = {l \in d.links : l[2] \notin u.created /\ l[3] \notin u.created}
        /\ cut.edges = {e \in d.edges : e[1] \notin u.created /\ e[2] \notin u.created}
    BY <1>7 DEF Deleted
  <2>3. /\ d2.maps = cut.maps \ u.mapped
        /\ d2.retired = ((cut.retired \ u.mapped) \ u.retired) \cup u.revived
        /\ d2.links = (cut.links \ u.linked) \cup u.unlinked
        /\ d2.edges = cut.edges \ u.joined
    BY <1>7, UndoneFields
  <2> QED BY <1>8, <2>1, <2>2, <2>3 DEF Consistent
<1>13. \A g, r, q : r \in Rows(d2) /\ MappedBefore(d, o, k0, <<g, r, q>>)
                      => MappedBefore(d2, o2, k, <<g, r, q>>)
  <2> SUFFICES ASSUME NEW g, NEW r \in Rows(d2), NEW q, MappedBefore(d, o, k0, <<g, r, q>>)
               PROVE  MappedBefore(d2, o2, k, <<g, r, q>>)
    OBVIOUS
  <2> DEFINE m == <<g, r, q>>
  <2>1. /\ m \in d.maps /\ \A j \in st : m \notin o[j].undo.mapped
        /\ \/ m \notin d.retired /\ \A j \in st : m \notin o[j].undo.revived
           \/ \E j \in st : /\ m \in o[j].undo.retired
                            /\ \A h \in st : h < j => m \notin o[h].undo.revived
    BY DEF MappedBefore, st
  <2>2. m \in d2.maps /\ \A j \in st2 : m \notin o2[j].undo.mapped
    BY <1>3, <1>4, <1>12, <2>1
  <2> HIDE DEF m
  <2>3. \/ m \notin d2.retired /\ \A j \in st2 : m \notin o2[j].undo.revived
        \/ \E j \in st2 : /\ m \in o2[j].undo.retired
                          /\ \A h \in st2 : h < j => m \notin o2[h].undo.revived
    <3>1. CASE m \notin d.retired /\ \A j \in st : m \notin o[j].undo.revived
      BY <1>3, <1>4, <1>12, <3>1
    <3>2. ASSUME NEW j \in st, m \in o[j].undo.retired,
                 \A h \in st : h < j => m \notin o[h].undo.revived
          PROVE  \/ m \notin d2.retired /\ \A h \in st2 : m \notin o2[h].undo.revived
                 \/ \E h \in st2 : /\ m \in o2[h].undo.retired
                                   /\ \A y \in st2 : y < h => m \notin o2[y].undo.revived
      <4>1. CASE j = i
        <5>1. m \in u.retired
          BY <1>4, <3>2, <4>1
        <5>2. m \notin d2.retired
          BY <1>12, <5>1
        <5>3. \A h \in st2 : m \notin o2[h].undo.revived
          BY <1>1, <1>3, <1>4, <3>2, <4>1
        <5> QED BY <5>2, <5>3
      <4>2. CASE j # i
        <5>1. j \in st2 /\ m \in o2[j].undo.retired
          BY <1>3, <1>4, <3>2, <4>2
        <5>2. \A y \in st2 : y < j => m \notin o2[y].undo.revived
          BY <1>3, <1>4, <3>2
        <5> QED BY <5>1, <5>2
      <4> QED BY <4>1, <4>2
    <3> QED BY <2>1, <3>1, <3>2
  <2>4. MappedBefore(d2, o2, k, m)
    BY <2>2, <2>3 DEF MappedBefore, st2
  <2> QED BY <2>4 DEF m
<1>14. \A g, r, x : r \in Rows(d2) /\ x \in Rows(d2) \cup FormTypes
                      /\ LinkedBefore(d, o, k0, <<g, r, x>>)
                      => LinkedBefore(d2, o2, k, <<g, r, x>>)
  <2> SUFFICES ASSUME NEW g, NEW r \in Rows(d2), NEW x \in Rows(d2) \cup FormTypes,
                      LinkedBefore(d, o, k0, <<g, r, x>>)
               PROVE  LinkedBefore(d2, o2, k, <<g, r, x>>)
    OBVIOUS
  <2> DEFINE l == <<g, r, x>>
  <2>1. \/ l \in d.links /\ \A j \in st : l \notin o[j].undo.linked
        \/ \E j \in st : /\ l \in o[j].undo.unlinked
                         /\ \A h \in st : h < j => l \notin o[h].undo.linked
    BY DEF LinkedBefore, st
  <2>2. l \in d.links /\ l \notin u.linked => l \in d2.links
    BY <1>12
  <2> HIDE DEF l
  <2>3. CASE l \in d.links /\ \A j \in st : l \notin o[j].undo.linked
    <3>1. l \in d2.links
      BY <1>3, <1>4, <2>2, <2>3
    <3>2. \A j \in st2 : l \notin o2[j].undo.linked
      BY <1>3, <1>4, <2>3
    <3> QED BY <3>1, <3>2 DEF LinkedBefore, st2, l
  <2>4. ASSUME NEW j \in st, l \in o[j].undo.unlinked,
               \A h \in st : h < j => l \notin o[h].undo.linked
        PROVE  LinkedBefore(d2, o2, k, l)
    <3>1. CASE j = i
      <4>1. l \in d2.links
        BY <1>4, <1>12, <2>4, <3>1
      <4>2. \A h \in st2 : l \notin o2[h].undo.linked
        BY <1>1, <1>3, <1>4, <2>4, <3>1
      <4> QED BY <4>1, <4>2 DEF LinkedBefore, st2
    <3>2. CASE j # i
      <4>1. j \in st2 /\ l \in o2[j].undo.unlinked
        BY <1>3, <1>4, <2>4, <3>2
      <4>2. \A h \in st2 : h < j => l \notin o2[h].undo.linked
        BY <1>3, <1>4, <2>4
      <4> QED BY <4>1, <4>2 DEF LinkedBefore, st2
    <3> QED BY <3>1, <3>2
  <2> QED BY <2>1, <2>3, <2>4 DEF l
<1>15. \A r, x : r \in Rows(d2) /\ x \in Rows(d2) \cup FormTypes
                   /\ JoinedBefore(d, o, k0, <<r, x>>)
                   => JoinedBefore(d2, o2, k, <<r, x>>)
  BY <1>3, <1>4, <1>12 DEF JoinedBefore, st, st2
<1>16. \A t \in Templates \ gone : \A r \in ActiveBefore(d, o, k0, t) :
         \A g \in Frameworks : \A q \in Requirements :
           MappedBefore(d, o, k0, <<g, r, q>>) => MappedBefore(d2, o2, k, <<g, r, q>>)
  BY <1>11, <1>13
<1>17. \A t \in Templates \ gone : \A r \in ActiveBefore(d, o, k0, t) : \A x :
         (x \in FormTypes \/ \E y \in Templates \ gone : x \in ActiveBefore(d, o, k0, y)) =>
           /\ \A g \in Frameworks :
                LinkedBefore(d, o, k0, <<g, r, x>>) => LinkedBefore(d2, o2, k, <<g, r, x>>)
           /\ JoinedBefore(d, o, k0, <<r, x>>) => JoinedBefore(d2, o2, k, <<r, x>>)
  BY <1>11, <1>14, <1>15
<1>18. Kept(d, o, ver, k0, d2, o2, ver2, gone, k)
  BY <1>5, <1>10, <1>16, <1>17 DEF Kept
<1> QED BY <1>18, CoveredKept

\* The present is what was before a sync that is not there yet.
Present(d, ver, gone, tr) ==
  /\ \A f \in tr : \A t \in In(Manifests[f][ver[f]]) \ gone :
       \E i \in Active(d, t) :
         /\ Active(d, t) = {i}
         /\ \A m \in Manifests[f][ver[f]].maps :
              m[1] = t => <<f, i, m[2]>> \in d.maps \ d.retired
         /\ \A e \in Manifests[f][ver[f]].edges : e[1] = t /\ e[2] \notin gone =>
              \E x \in IF e[2] \in FormTypes THEN {e[2]} ELSE Active(d, e[2]) :
                <<f, i, x>> \in d.links /\ <<i, x>> \in d.edges
  /\ \A f \in Frameworks : \A t \in (In(Manifests[f][ver[f]]) \cap Policies) \ gone :
       Active(d, t) # {}
  /\ \A t \in Templates \ gone : \A i, j \in Active(d, t) : i = j

LEMMA PresentCovered ==
  ASSUME NEW d, NEW o, o \in Seq(Op), NEW ver, NEW gone, NEW tr \in SUBSET Frameworks,
         \A f \in Frameworks : ver[f] \in DOMAIN Manifests[f]
  PROVE  CoveredBefore(d, o, ver, gone, tr, Len(o) + 1) <=> Present(d, ver, gone, tr)
<1> DEFINE k == Len(o) + 1
<1>1. Standing(o, k) = {}
  BY DEF Standing
<1> HIDE DEF k
<1>2. \A t : ActiveBefore(d, o, k, t) = Active(d, t)
  BY <1>1 DEF ActiveBefore, Active
<1>3. \A m : MappedBefore(d, o, k, m) <=> m \in d.maps \ d.retired
  BY <1>1 DEF MappedBefore
<1>4. \A l : LinkedBefore(d, o, k, l) <=> l \in d.links
  BY <1>1 DEF LinkedBefore
<1>5. \A e : JoinedBefore(d, o, k, e) <=> e \in d.edges
  BY <1>1 DEF JoinedBefore
<1>6. \A f, v : WasOn(o, ver, k, f, v) <=> v = ver[f]
  BY <1>1 DEF WasOn
<1>7. ASSUME CoveredBefore(d, o, ver, gone, tr, k) PROVE Present(d, ver, gone, tr)
  <2>1. ASSUME NEW f \in tr, NEW t \in In(Manifests[f][ver[f]]) \ gone
        PROVE  \E i \in Active(d, t) :
             /\ Active(d, t) = {i}
             /\ \A m \in Manifests[f][ver[f]].maps : m[1] = t => <<f, i, m[2]>> \in d.maps \ d.retired
             /\ \A e \in Manifests[f][ver[f]].edges : e[1] = t /\ e[2] \notin gone =>
                  \E x \in IF e[2] \in FormTypes THEN {e[2]} ELSE Active(d, e[2]) :
                    <<f, i, x>> \in d.links /\ <<i, x>> \in d.edges
    <3>0. ver[f] \in DOMAIN Manifests[f] /\ WasOn(o, ver, k, f, ver[f])
      BY <1>6
    <3>1. FullBefore(d, o, gone, k, f, ver[f], t)
      BY <1>7, <3>0 DEF CoveredBefore
    <3>5. PICK i \in ActiveBefore(d, o, k, t) :
            /\ ActiveBefore(d, o, k, t) = {i}
            /\ \A m \in Manifests[f][ver[f]].maps : m[1] = t => MappedBefore(d, o, k, <<f, i, m[2]>>)
            /\ \A e \in Manifests[f][ver[f]].edges : e[1] = t /\ e[2] \notin gone =>
                 \E x \in IF e[2] \in FormTypes THEN {e[2]} ELSE ActiveBefore(d, o, k, e[2]) :
                   LinkedBefore(d, o, k, <<f, i, x>>) /\ JoinedBefore(d, o, k, <<i, x>>)
      BY <3>1 DEF FullBefore
    <3>2. Active(d, t) = {i}
      BY <1>2, <3>5
    <3>3. \A m \in Manifests[f][ver[f]].maps : m[1] = t => <<f, i, m[2]>> \in d.maps \ d.retired
      BY <1>3, <3>5
    <3>4. ASSUME NEW e \in Manifests[f][ver[f]].edges, e[1] = t, e[2] \notin gone
          PROVE  \E x \in IF e[2] \in FormTypes THEN {e[2]} ELSE Active(d, e[2]) :
                   <<f, i, x>> \in d.links /\ <<i, x>> \in d.edges
      BY <1>2, <1>4, <1>5, <3>5, <3>4
    <3> QED BY <3>2, <3>3, <3>4
  <2>2. \A f \in Frameworks : \A t \in (In(Manifests[f][ver[f]]) \cap Policies) \ gone :
          Active(d, t) # {}
    BY <1>2, <1>6, <1>7 DEF CoveredBefore
  <2>3. \A t \in Templates \ gone : \A i, j \in Active(d, t) : i = j
    BY <1>2, <1>7 DEF CoveredBefore
  <2> QED BY <2>1, <2>2, <2>3 DEF Present
<1>8. ASSUME Present(d, ver, gone, tr) PROVE CoveredBefore(d, o, ver, gone, tr, k)
  <2>1. ASSUME NEW f \in tr, NEW v \in DOMAIN Manifests[f], WasOn(o, ver, k, f, v),
               NEW t \in In(Manifests[f][v]) \ gone
        PROVE  FullBefore(d, o, gone, k, f, v, t)
    <3>0. v = ver[f]
      BY <1>6, <2>1
    <3>1. PICK i \in Active(d, t) :
            /\ Active(d, t) = {i}
            /\ \A m \in Manifests[f][ver[f]].maps : m[1] = t => <<f, i, m[2]>> \in d.maps \ d.retired
            /\ \A e \in Manifests[f][ver[f]].edges : e[1] = t /\ e[2] \notin gone =>
                 \E x \in IF e[2] \in FormTypes THEN {e[2]} ELSE Active(d, e[2]) :
                   <<f, i, x>> \in d.links /\ <<i, x>> \in d.edges
      BY <1>8, <3>0 DEF Present
    <3>2. ActiveBefore(d, o, k, t) = {i}
      BY <1>2, <3>1
    <3>3. \A m \in Manifests[f][ver[f]].maps : m[1] = t => MappedBefore(d, o, k, <<f, i, m[2]>>)
      BY <1>3, <3>0, <3>1
    <3>4. ASSUME NEW e \in Manifests[f][ver[f]].edges, e[1] = t, e[2] \notin gone
          PROVE  \E x \in IF e[2] \in FormTypes THEN {e[2]} ELSE ActiveBefore(d, o, k, e[2]) :
                   LinkedBefore(d, o, k, <<f, i, x>>) /\ JoinedBefore(d, o, k, <<i, x>>)
      BY <1>2, <1>4, <1>5, <3>0, <3>1, <3>4
    <3> QED BY <3>0, <3>2, <3>3, <3>4 DEF FullBefore
  <2>2. ASSUME NEW f \in Frameworks, NEW v \in DOMAIN Manifests[f], WasOn(o, ver, k, f, v),
               NEW t \in (In(Manifests[f][v]) \cap Policies) \ gone
        PROVE  ActiveBefore(d, o, k, t) # {}
    BY <1>2, <1>6, <1>8, <2>2 DEF Present
  <2>3. \A t \in Templates \ gone : \A i, j \in ActiveBefore(d, o, k, t) : i = j
    BY <1>2, <1>8 DEF Present
  <2> QED BY <2>1, <2>2, <2>3 DEF CoveredBefore
<1> QED BY <1>7, <1>8 DEF k

\* The row a sync takes for a template, and the end of an edge.
RowOf(from, to, found, t) ==
  IF t \in Missing(from, to, found) THEN <<t, Len(ops) + 1>> ELSE found[t]
EndOf(from, to, found, x) == IF x \in FormTypes THEN x ELSE RowOf(from, to, found, x)

\* A sync creates the rows that are missing and archives those that are removed;
\* its mappings and links are those of its framework.
LEMMA PlanRows ==
  ASSUME NEW d, NEW seen, NEW f, NEW from, NEW to, NEW found,
         NEW u, u = Plan(d, seen, f, from, to, found)
  PROVE  /\ u.created = {<<t, Len(ops) + 1>> : t \in Missing(from, to, found)}
         /\ u.archived = {found[t] : t \in Removed(f, from, to, found)}
         /\ \A m \in u.retired : m[1] = f
         /\ \A l \in u.unlinked : l[1] = f
BY DEF Plan

\* What a row of a template is, when there is one.
LEMMA RowOfFacts ==
  ASSUME NEW seen, ReadRows(seen), NEW from, NEW to, IsManifest(from), IsManifest(to),
         Len(ops) \in Nat, NEW found \in Choices(seen, In(from) \cup In(to)),
         NEW t \in In(from) \cup In(to), RowOf(from, to, found, t) # None
  PROVE  RowOf(from, to, found, t) \in Ids /\ RowOf(from, to, found, t)[1] = t
<1>1. In(from) \cup In(to) \subseteq Templates /\ Missing(from, to, found) \subseteq In(to)
  BY DEF IsManifest, In, Missing
<1>2. CASE t \in Missing(from, to, found)
  BY <1>1, <1>2 DEF RowOf, Ids
<1>3. CASE t \notin Missing(from, to, found)
  <2>1. RowOf(from, to, found, t) = found[t] /\ found[t] # None
    BY <1>3 DEF RowOf
  <2> QED BY <2>1, FoundFacts DEF ReadRows, Ids
<1> QED BY <1>2, <1>3

\* What a sync planned.
Planned(u, d, seen, f, from, to, found) ==
  /\ ReadRows(seen) /\ IsManifest(from) /\ IsManifest(to) /\ Len(ops) \in Nat
  /\ found \in Choices(seen, In(from) \cup In(to))
  /\ u = Plan(d, seen, f, from, to, found)

\* After a sync the framework's rows are mapped and linked as the target says.
MapsWritten(u, d, f, from, to, found) ==
  \A m \in to.maps : RowOf(from, to, found, m[1]) # None =>
    <<f, RowOf(from, to, found, m[1]), m[2]>>
      \in (d.maps \cup u.mapped) \ ((d.retired \ u.revived) \cup u.retired)

LinksWritten(u, d, f, from, to, found) ==
  \A e \in to.edges :
    RowOf(from, to, found, e[1]) # None /\ EndOf(from, to, found, e[2]) # None =>
      /\ <<f, RowOf(from, to, found, e[1]), EndOf(from, to, found, e[2])>>
           \in (d.links \cup u.linked) \ u.unlinked
      /\ <<RowOf(from, to, found, e[1]), EndOf(from, to, found, e[2])>>
           \in d.edges \cup u.joined

LEMMA PlanMaps ==
  ASSUME NEW u, NEW d, NEW seen, NEW f, NEW from, NEW to, NEW found,
         Planned(u, d, seen, f, from, to, found)
  PROVE  MapsWritten(u, d, f, from, to, found)
<1> USE DEF Planned
<1> SUFFICES ASSUME NEW m \in to.maps, RowOf(from, to, found, m[1]) # None,
                    NEW mm, mm = <<f, RowOf(from, to, found, m[1]), m[2]>>
             PROVE  mm \in (d.maps \cup u.mapped) \ ((d.retired \ u.revived) \cup u.retired)
  BY DEF MapsWritten
<1> DEFINE inst(t) == RowOf(from, to, found, t)
           maps(ms) == {<<f, inst(x[1]), x[2]>> : x \in {x \in ms : inst(x[1]) # None}}
<1>1. /\ u.mapped = maps(to.maps) \ d.maps
      /\ u.revived = maps(to.maps) \cap d.retired
      /\ u.retired = (maps(from.maps \ to.maps) \cap d.maps) \ d.retired
  BY DEF Plan, RowOf
<1>2. mm \in maps(to.maps)
  OBVIOUS
<1>3. mm \notin maps(from.maps \ to.maps)
  <2> SUFFICES ASSUME NEW x \in from.maps \ to.maps, inst(x[1]) # None,
                      mm = <<f, inst(x[1]), x[2]>>
               PROVE  FALSE
    OBVIOUS
  <2>1. /\ x = <<x[1], x[2]>> /\ x[1] \in In(from)
        /\ m = <<m[1], m[2]>> /\ m[1] \in In(to)
    BY DEF IsManifest, In
  <2>2. inst(x[1])[1] = x[1] /\ inst(m[1])[1] = m[1]
    BY <2>1, RowOfFacts
  <2>3. x[2] = m[2] /\ inst(x[1]) = inst(m[1])
    OBVIOUS
  <2>4. x = m
    BY <2>1, <2>2, <2>3
  <2> QED BY <2>4
<1> HIDE DEF maps
<1> QED BY <1>1, <1>2, <1>3

LEMMA PlanLinks ==
  ASSUME NEW u, NEW d, NEW seen, NEW f, NEW from, NEW to, NEW found,
         Planned(u, d, seen, f, from, to, found)
  PROVE  LinksWritten(u, d, f, from, to, found)
<1> USE DEF Planned
<1> SUFFICES ASSUME NEW e \in to.edges,
                    RowOf(from, to, found, e[1]) # None, EndOf(from, to, found, e[2]) # None,
                    NEW l, l = <<f, RowOf(from, to, found, e[1]), EndOf(from, to, found, e[2])>>
             PROVE  /\ l \in (d.links \cup u.linked) \ u.unlinked
                    /\ <<l[2], l[3]>> \in d.edges \cup u.joined
  BY DEF LinksWritten
<1> DEFINE inst(t) == RowOf(from, to, found, t)
           end(x) == EndOf(from, to, found, x)
           joins(es) == {<<f, inst(x[1]), end(x[2])>> :
                           x \in {x \in es : inst(x[1]) # None /\ end(x[2]) # None}}
           pairs == {<<y[2], y[3]>> : y \in joins(to.edges)}
<1>1. /\ u.linked = joins(to.edges) \ d.links
      /\ u.unlinked = joins(from.edges \ to.edges) \cap d.links
      /\ u.joined = pairs \ d.edges
  BY DEF Plan, RowOf, EndOf, NewEdges
<1>2. l \in joins(to.edges)
  OBVIOUS
<1>3. l \notin joins(from.edges \ to.edges)
  <2> SUFFICES ASSUME NEW x \in from.edges \ to.edges, inst(x[1]) # None, end(x[2]) # None,
                      l = <<f, inst(x[1]), end(x[2])>>
               PROVE  FALSE
    OBVIOUS
  <2>1. /\ x = <<x[1], x[2]>> /\ x[1] \in In(from) /\ x[2] \in In(from) \cup FormTypes
        /\ e = <<e[1], e[2]>> /\ e[1] \in In(to) /\ e[2] \in In(to) \cup FormTypes
    BY DEF IsManifest, In
  <2>2. inst(x[1])[1] = x[1] /\ inst(e[1])[1] = e[1]
    BY <2>1, RowOfFacts
  <2>3. end(x[2]) = end(e[2]) /\ inst(x[1]) = inst(e[1])
    OBVIOUS
  <2>4. ASSUME NEW y \in In(from) \cup In(to) \cup FormTypes, end(y) # None
        PROVE  IF y \in FormTypes THEN end(y) = y ELSE end(y) \in Ids /\ end(y)[1] = y
    BY <2>4, RowOfFacts DEF EndOf
  <2>5. /\ IF x[2] \in FormTypes THEN end(x[2]) = x[2]
           ELSE end(x[2]) \in Ids /\ end(x[2])[1] = x[2]
        /\ IF e[2] \in FormTypes THEN end(e[2]) = e[2]
           ELSE end(e[2]) \in Ids /\ end(e[2])[1] = e[2]
    BY <2>1, <2>4
  <2>6. x[2] = e[2]
    BY <2>3, <2>5 DEF Ids
  <2>7. x = e
    BY <2>1, <2>2, <2>3, <2>6
  <2> QED BY <2>7
<1>4. <<l[2], l[3]>> \in pairs
  BY <1>2
<1> HIDE DEF joins, pairs
<1> QED BY <1>1, <1>2, <1>3, <1>4

\* The rows of a template after a sync.
LEMMA ActiveSynced ==
  ASSUME NEW d, NEW seen, NEW u, NEW to, NEW n \in Nat,
         Tables(d, n), Recorded(u, d, seen, to, n), Appliable(d, u),
         NEW d2, d2 = Synced(d, u, to), NEW t
  PROVE  Active(d2, t) = (Active(d, t) \ u.archived) \cup {i \in u.created : i[1] = t}
<1>1. /\ u.created \cap Rows(d) = {} /\ u.created \cap u.archived = {}
      /\ Rows(d2) = Rows(d) \cup u.created
  <2>1. u.created \cap Rows(d) = {} /\ u.created \cap u.archived = {}
    BY DEF Tables, Recorded
  <2>2. Firsts(u.updated) \cup u.archived \subseteq Rows(d) \cup u.created
    BY DEF Appliable
  <2> QED BY <2>1, <2>2, SyncedRows
<1>2. \A i \in Rows(d) : d2.rows[i].archived <=> (d.rows[i].archived \/ i \in u.archived)
  <2> TAKE i \in Rows(d)
  <2>1. d2.rows[i] = SyncedRow(d, u, to, i) /\ i \notin u.created /\ d.rows[i] \in Row
    BY <1>1, SyncedRows DEF Tables
  <2> QED BY <2>1 DEF SyncedRow, Row
<1>3. \A i \in u.created : ~d2.rows[i].archived
  <2> TAKE i \in u.created
  <2>1. d2.rows[i] = SyncedRow(d, u, to, i)
    BY <1>1, SyncedRows
  <2> QED BY <2>1 DEF SyncedRow, NewRow
<1> QED BY <1>1, <1>2, <1>3 DEF Active

\* A sync leads from covered manifests to covered manifests, whatever its own
\* framework lacked: rows are created for what has none, mapped and linked, and
\* rows other frameworks need are left alone.
LEMMA SyncPresent ==
  ASSUME IInv, NEW f \in Frameworks, NEW v \in DOMAIN Manifests[f],
         NEW seen, ReadRows(seen), StillThere(seen),
         NEW tr \in SUBSET Frameworks, Present(db, version, lost, tr),
         NEW from, from = Manifests[f][version[f]], NEW to, to = Manifests[f][v],
         NEW found \in Choices(seen, In(from) \cup In(to)),
         NEW u, u = Plan(db, seen, f, from, to, found), Appliable(db, u),
         NEW d2, d2 = Synced(db, u, to), NEW ver2, ver2 = [version EXCEPT ![f] = v]
  PROVE  Present(d2, ver2, lost, tr \cup {f})
<1> DEFINE n == Len(ops)
           missing == Missing(from, to, found)
           removed == Removed(f, from, to, found)
           inst(t) == RowOf(from, to, found, t)
           end(x) == EndOf(from, to, found, x)
           M(g) == Manifests[g][version[g]]
           M2(g) == Manifests[g][ver2[g]]
<1>1. /\ n \in Nat /\ Tables(db, n) /\ IsManifest(from) /\ IsManifest(to)
      /\ \A g \in Frameworks : /\ IsManifest(M(g))
                               /\ M2(g) = IF g = f THEN to ELSE M(g)
      /\ M(f) = from
  BY ManifestsAssumption DEF IInv, History, Control
<1>2. Recorded(u, db, seen, to, n)
  BY <1>1, PlanFacts
<1>3. /\ u.created = {<<t, n + 1>> : t \in missing}
      /\ u.archived = {found[t] : t \in removed}
      /\ \A m \in u.retired : m[1] = f
      /\ \A l \in u.unlinked : l[1] = f
  BY PlanRows
<1>4. /\ d2.maps = db.maps \cup u.mapped
      /\ d2.retired = (db.retired \ u.revived) \cup u.retired
      /\ d2.links = (db.links \cup u.linked) \ u.unlinked
      /\ d2.edges = db.edges \cup u.joined
  BY DEF Synced
<1>5. Planned(u, db, seen, f, from, to, found)
  BY <1>1 DEF Planned
<1>6. MapsWritten(u, db, f, from, to, found) /\ LinksWritten(u, db, f, from, to, found)
  BY <1>5, PlanMaps, PlanLinks
<1>7. \A g \in tr : \A t \in In(M(g)) \ lost :
        \E i \in Active(db, t) :
          /\ Active(db, t) = {i}
          /\ \A m \in M(g).maps : m[1] = t => <<g, i, m[2]>> \in db.maps \ db.retired
          /\ \A e \in M(g).edges : e[1] = t /\ e[2] \notin lost =>
               \E x \in IF e[2] \in FormTypes THEN {e[2]} ELSE Active(db, e[2]) :
                 <<g, i, x>> \in db.links /\ <<i, x>> \in db.edges
  BY DEF Present
<1>8. \A g \in Frameworks : \A t \in (In(M(g)) \cap Policies) \ lost : Active(db, t) # {}
  BY DEF Present
<1>9. /\ In(from) \cup In(to) \subseteq Templates
      /\ \A g \in Frameworks : In(M(g)) \subseteq Templates
  BY <1>1 DEF IsManifest, In
<1>10. Refs(f) = UNION {In(M(g)) : g \in Frameworks \ {f}}
  BY DEF Refs, Manifest
<1>11. \A t \in Templates \ lost : Active(db, t) = {} \/ \E i : Active(db, t) = {i}
  <2> TAKE t \in Templates \ lost
  <2>1. \A i, j \in Active(db, t) : i = j
    BY DEF Present
  <2> QED BY <2>1
<1>12. \A t \in Templates \ lost : Active(seen, t) = Active(db, t)
  BY DEF StillThere, Active
<1>13. \A t \in (In(from) \cup In(to)) \ lost :
         IF Active(db, t) = {} THEN found[t] = None
         ELSE found[t] # None /\ Active(db, t) = {found[t]}
  <2> TAKE t \in (In(from) \cup In(to)) \ lost
  <2>1. IF Active(db, t) = {} THEN found[t] = None ELSE found[t] \in Active(db, t)
    BY <1>9, <1>12 DEF Choices
  <2>2. Active(db, t) \subseteq Ids
    BY <1>1 DEF Active, Tables, Ids
  <2>3. Active(db, t) = {} \/ \E i : Active(db, t) = {i}
    BY <1>9, <1>11
  <2> QED BY <2>1, <2>2, <2>3 DEF Ids
<1>14. \A t : Active(d2, t) = (Active(db, t) \ u.archived) \cup {i \in u.created : i[1] = t}
  BY <1>1, <1>2, ActiveSynced
<1> HIDE DEF n, missing, removed, inst, end, M, M2
<1>15. \A t : t \notin missing => {i \in u.created : i[1] = t} = {}
  BY <1>3
<1>16. \A t : t \in missing => {i \in u.created : i[1] = t} = {<<t, n + 1>>}
  BY <1>3
<1>17. \A t \in removed : found[t] # None /\ found[t][1] = t /\ t \in In(from)
                          /\ t \notin In(to) /\ t \notin Refs(f)
  BY FoundFacts DEF Removed, removed
<1>18. \A t \in Templates : t \notin removed => Active(db, t) \cap u.archived = {}
  BY <1>3, <1>17 DEF Active
<1>19. \A t \in missing : t \in In(to) /\ found[t] = None
  BY DEF Missing, missing
<1>20. \A t \in In(to) \ lost : inst(t) # None /\ Active(d2, t) = {inst(t)}
  <2> TAKE t \in In(to) \ lost
  <2>1. t \notin removed /\ t \in Templates
    BY <1>9, <1>17
  <2>2. CASE t \in missing
    <3>1. Active(db, t) = {}
      BY <1>13, <1>19, <2>2
    <3>2. Active(d2, t) = {<<t, n + 1>>} /\ inst(t) = <<t, n + 1>>
      BY <1>14, <1>16, <2>2, <3>1 DEF RowOf, inst, n, missing
    <3>3. <<t, n + 1>> \in Templates \X Nat
      BY <1>1, <2>1 DEF n
    <3> QED BY <3>2, <3>3
  <2>3. CASE t \notin missing
    <3>1. found[t] # None
      <4>1. found[t] = None => t \in In(from) \cap Policies
        BY <2>3 DEF missing, Missing
      <4>2. t \in In(from) \cap Policies => Active(db, t) # {}
        BY <1>1, <1>8
      <4> QED BY <1>13, <4>1, <4>2
    <3>2. Active(db, t) = {found[t]}
      BY <1>13, <3>1
    <3>3. Active(d2, t) = {found[t]} /\ inst(t) = found[t]
      BY <1>14, <1>15, <1>18, <2>1, <2>3, <3>2 DEF RowOf, inst, missing
    <3> QED BY <3>1, <3>3
  <2> QED BY <2>2, <2>3
<1>21. \A g \in Frameworks \ {f} : \A t \in In(M(g)) \ lost :
         Active(db, t) # {} => Active(d2, t) = Active(db, t)
  <2> TAKE g \in Frameworks \ {f}
  <2> TAKE t \in In(M(g)) \ lost
  <2> HAVE Active(db, t) # {}
  <2>1. t \notin removed /\ t \in Templates
    BY <1>9, <1>10, <1>17
  <2>2. t \notin missing
    BY <1>13, <1>19
  <2>3. Active(db, t) \cap u.archived = {}
    BY <1>18, <2>1
  <2>4. {i \in u.created : i[1] = t} = {}
    BY <1>15, <2>2
  <2>5. Active(d2, t) = (Active(db, t) \ u.archived) \cup {i \in u.created : i[1] = t}
    BY <1>14
  <2> QED BY <2>3, <2>4, <2>5
<1>22. ASSUME NEW g \in Frameworks, NEW t \in (In(M2(g)) \cap Policies) \ lost
       PROVE  Active(d2, t) # {}
  <2>1. CASE g = f
    BY <1>1, <1>20, <2>1
  <2>2. CASE g # f
    <3>1. g \in Frameworks \ {f} /\ t \in (In(M(g)) \cap Policies) \ lost
      BY <1>1, <1>22, <2>2
    <3> QED BY <1>8, <1>21, <3>1
  <2> QED BY <2>1, <2>2
<1>24. ASSUME NEW t \in Templates \ lost, NEW i \in Active(d2, t), NEW j \in Active(d2, t)
       PROVE  i = j
  <2>1. CASE t \in missing
    <3>1. t \in In(to) \ lost
      BY <1>19, <2>1
    <3> QED BY <1>20, <3>1
  <2>2. CASE t \notin missing
    BY <1>11, <1>14, <1>15, <2>2
  <2> QED BY <2>1, <2>2
<1>23. ASSUME NEW g \in tr \cup {f}, NEW t \in In(M2(g)) \ lost
       PROVE  \E i \in Active(d2, t) :
                /\ Active(d2, t) = {i}
                /\ \A m \in M2(g).maps : m[1] = t => <<g, i, m[2]>> \in d2.maps \ d2.retired
                /\ \A e \in M2(g).edges : e[1] = t /\ e[2] \notin lost =>
                     \E x \in IF e[2] \in FormTypes THEN {e[2]} ELSE Active(d2, e[2]) :
                       <<g, i, x>> \in d2.links /\ <<i, x>> \in d2.edges
  <2>1. CASE g = f
    <3>0. M2(g) = to /\ t \in In(to) \ lost
      BY <1>1, <2>1
    <3>1. inst(t) # None /\ Active(d2, t) = {inst(t)}
      BY <1>20, <3>0
    <3>2. ASSUME NEW m \in M2(g).maps, m[1] = t
          PROVE  <<g, inst(t), m[2]>> \in d2.maps \ d2.retired
      <4>1. RowOf(from, to, found, m[1]) = inst(t)
        BY <3>2 DEF inst
      <4> QED BY <1>4, <1>6, <2>1, <3>0, <3>1, <3>2, <4>1 DEF MapsWritten
    <3>3. ASSUME NEW e \in M2(g).edges, e[1] = t, e[2] \notin lost
          PROVE  \E x \in IF e[2] \in FormTypes THEN {e[2]} ELSE Active(d2, e[2]) :
                   <<g, inst(t), x>> \in d2.links /\ <<inst(t), x>> \in d2.edges
      <4>1. e[2] \notin FormTypes => e[2] \in In(to)
        BY <1>1, <3>0, <3>3 DEF IsManifest, In
      <4>2. /\ end(e[2]) \in IF e[2] \in FormTypes THEN {e[2]} ELSE Active(d2, e[2])
            /\ end(e[2]) # None
        <5>1. CASE e[2] \in FormTypes
          <6>1. end(e[2]) = e[2] /\ e[2] # None
            BY <5>1 DEF end, EndOf
          <6> QED BY <5>1, <6>1
        <5>2. CASE e[2] \notin FormTypes
          <6>1. end(e[2]) = inst(e[2]) /\ e[2] \in In(to) \ lost
            BY <3>3, <4>1, <5>2 DEF end, inst, EndOf
          <6> QED BY <1>20, <5>2, <6>1
        <5> QED BY <5>1, <5>2
      <4>3. /\ RowOf(from, to, found, e[1]) = inst(t)
            /\ EndOf(from, to, found, e[2]) = end(e[2])
        BY <3>3 DEF inst, end
      <4>4. <<g, inst(t), end(e[2])>> \in d2.links /\ <<inst(t), end(e[2])>> \in d2.edges
        BY <1>4, <1>6, <2>1, <3>0, <3>1, <3>3, <4>2, <4>3 DEF LinksWritten
      <4> QED BY <4>2, <4>4
    <3> QED BY <3>1, <3>2, <3>3
  <2>2. CASE g # f
    <3>0. M2(g) = M(g) /\ g \in Frameworks \ {f} /\ g \in tr /\ t \in In(M(g)) \ lost
      BY <1>1, <2>2
    <3>1. PICK i \in Active(db, t) :
            /\ Active(db, t) = {i}
            /\ \A m \in M(g).maps : m[1] = t => <<g, i, m[2]>> \in db.maps \ db.retired
            /\ \A e \in M(g).edges : e[1] = t /\ e[2] \notin lost =>
                 \E x \in IF e[2] \in FormTypes THEN {e[2]} ELSE Active(db, e[2]) :
                   <<g, i, x>> \in db.links /\ <<i, x>> \in db.edges
      BY <1>7, <3>0
    <3>2. Active(d2, t) = {i}
      BY <1>21, <3>0, <3>1
    <3>3. ASSUME NEW m \in M2(g).maps, m[1] = t
          PROVE  <<g, i, m[2]>> \in d2.maps \ d2.retired
      BY <1>3, <1>4, <3>0, <3>1, <3>3
    <3>4. ASSUME NEW e \in M2(g).edges, e[1] = t, e[2] \notin lost
          PROVE  \E x \in IF e[2] \in FormTypes THEN {e[2]} ELSE Active(d2, e[2]) :
                   <<g, i, x>> \in d2.links /\ <<i, x>> \in d2.edges
      <4>1. PICK x \in IF e[2] \in FormTypes THEN {e[2]} ELSE Active(db, e[2]) :
              <<g, i, x>> \in db.links /\ <<i, x>> \in db.edges
        BY <3>0, <3>1, <3>4
      <4>2. e[2] \notin FormTypes => e[2] \in In(M(g))
        BY <1>1, <3>0, <3>4 DEF IsManifest, In
      <4>3. x \in IF e[2] \in FormTypes THEN {e[2]} ELSE Active(d2, e[2])
        BY <1>21, <3>0, <3>4, <4>1, <4>2
      <4>4. <<g, i, x>> \in d2.links /\ <<i, x>> \in d2.edges
        BY <1>3, <1>4, <3>0, <4>1
      <4> QED BY <4>3, <4>4
    <3> QED BY <3>2, <3>3, <3>4
  <2> QED BY <2>1, <2>2
<1> QED BY <1>22, <1>23, <1>24 DEF Present, M2

\* The sets of frameworks are what they are said to be.
LEMMA TrustedFrameworks ==
  ASSUME NEW o, o \in Seq(Op), NEW k
  PROVE  Trusted(o, k) \in SUBSET Frameworks
<1>1. \A j \in DOMAIN o : o[j] \in Op
  OBVIOUS
<1>2. \A j \in DOMAIN o : o[j].f \in Frameworks
  BY <1>1 DEF Op
<1> QED BY <1>2 DEF Trusted

\* At first every template of a complete framework has the row it was given.
LEMMA InitCInv == Init => CInv
<1> SUFFICES ASSUME Init PROVE CInv
  OBVIOUS
<1> DEFINE M(f) == Manifests[f][version[f]]
           tr == Frameworks \ drifted
<1>1. /\ ops = <<>> /\ Len(ops) = 0
      /\ version = [f \in Frameworks |-> 1] /\ job = [w \in Workers |-> NoJob]
      /\ drifted = {f \in Frameworks : ~Complete(db, f)}
  BY DEF Init
<1>2. \A f \in Frameworks : /\ M(f) = Manifests[f][1] /\ IsManifest(M(f))
                            /\ version[f] \in DOMAIN Manifests[f]
  BY <1>1, ManifestsAssumption
<1>3. /\ db.retired = {}
      /\ \A i \in Rows(db) : i = <<i[1], 0>> /\ ~db.rows[i].archived
      /\ \A f \in Frameworks : \A t \in (In(M(f)) \cap Policies) \ lost : FirstRow(t) \in Rows(db)
  BY <1>2, InitTables
<1>4. \A t : Active(db, t) = {i \in Rows(db) : i = <<t, 0>>}
  BY <1>3 DEF Active
<1>5. \A t : FirstRow(t) \in Rows(db) => Active(db, t) = {<<t, 0>>}
  BY <1>4 DEF FirstRow
<1>6. \A f \in tr : Complete(db, f)
  BY <1>1
<1>7. \A f \in tr : \A t \in In(M(f)) : Active(db, t) = {<<t, 0>>}
  BY <1>2, <1>5, <1>6 DEF Complete, FirstRows
<1>8. ASSUME NEW f \in tr, NEW t \in In(M(f))
      PROVE  \E i \in Active(db, t) :
               /\ Active(db, t) = {i}
               /\ \A m \in M(f).maps : m[1] = t => <<f, i, m[2]>> \in db.maps \ db.retired
               /\ \A e \in M(f).edges : e[1] = t =>
                    \E x \in IF e[2] \in FormTypes THEN {e[2]} ELSE Active(db, e[2]) :
                      <<f, i, x>> \in db.links /\ <<i, x>> \in db.edges
  <2>1. Active(db, t) = {<<t, 0>>}
    BY <1>7
  <2>2. ASSUME NEW m \in M(f).maps, m[1] = t
        PROVE  <<f, <<t, 0>>, m[2]>> \in db.maps \ db.retired
    <3>1. <<f, FirstRow(m[1]), m[2]>> \in FirstMaps(f)
      BY <1>2 DEF FirstMaps
    <3> QED BY <1>3, <1>6, <2>2, <3>1 DEF Complete, FirstRow
  <2>3. ASSUME NEW e \in M(f).edges, e[1] = t
        PROVE  \E x \in IF e[2] \in FormTypes THEN {e[2]} ELSE Active(db, e[2]) :
                 <<f, <<t, 0>>, x>> \in db.links /\ <<<<t, 0>>, x>> \in db.edges
    <3>1. /\ <<f, FirstRow(e[1]), Instance(e[2])>> \in FirstLinks(f)
          /\ <<FirstRow(e[1]), Instance(e[2])>> \in FirstEdges(f)
      BY <1>2 DEF FirstLinks, FirstEdges
    <3>2. /\ <<f, <<t, 0>>, Instance(e[2])>> \in db.links
          /\ <<<<t, 0>>, Instance(e[2])>> \in db.edges
      BY <1>6, <2>3, <3>1 DEF Complete, FirstRow
    <3>3. e[2] \notin FormTypes => e[2] \in In(M(f))
      BY <1>2 DEF IsManifest, In
    <3>4. Instance(e[2]) \in IF e[2] \in FormTypes THEN {e[2]} ELSE Active(db, e[2])
      BY <1>7, <3>3 DEF Instance, FirstRow
    <3> QED BY <3>2, <3>4
  <2> QED BY <2>1, <2>2, <2>3
<1>9. Present(db, version, lost, tr)
  <2>1. \A f \in tr : \A t \in In(M(f)) \ lost :
          \E i \in Active(db, t) :
            /\ Active(db, t) = {i}
            /\ \A m \in M(f).maps : m[1] = t => <<f, i, m[2]>> \in db.maps \ db.retired
            /\ \A e \in M(f).edges : e[1] = t /\ e[2] \notin lost =>
                 \E x \in IF e[2] \in FormTypes THEN {e[2]} ELSE Active(db, e[2]) :
                   <<f, i, x>> \in db.links /\ <<i, x>> \in db.edges
    BY <1>8
  <2>2. \A f \in Frameworks : \A t \in (In(M(f)) \cap Policies) \ lost : Active(db, t) # {}
    BY <1>3, <1>5
  <2>3. \A t \in Templates \ lost : \A i, j \in Active(db, t) : i = j
    BY <1>4
  <2> QED BY <2>1, <2>2, <2>3 DEF Present
<1>10. ops \in Seq(Op) /\ Trusted(ops, Len(ops) + 1) = tr
  BY <1>1 DEF Trusted
<1>11. CoveredBefore(db, ops, version, lost, tr, Len(ops) + 1)
  BY <1>2, <1>9, <1>10, PresentCovered
<1> HIDE DEF tr
<1> QED BY <1>1, <1>10, <1>11 DEF CInv, AlwaysCovered, NoJob

\* A record never adds what it removes.
LEMMA RecordedConsistent ==
  ASSUME NEW u, NEW d, NEW seen, NEW m, NEW n, Recorded(u, d, seen, m, n)
  PROVE  Consistent(u)
BY DEF Recorded, Consistent

\* Users may delete rows, which is noted.
LEMMA UserCInv ==
  ASSUME IInv, CInv, UserStep, UserChange(db, db', lost'), lost \subseteq lost'
  PROVE  CInv'
<1>1. /\ version' = version /\ ops' = ops /\ job' = job /\ crossed' = crossed
      /\ drifted' = drifted
  BY DEF UserStep
<1>2. AlwaysCovered'
  <2> SUFFICES ASSUME crossed = {}, NEW k \in 1..(Len(ops) + 1)
               PROVE  CoveredBefore(db', ops, version, lost', Trusted(ops, k), k)
    BY <1>1 DEF AlwaysCovered, Trusted
  <2>1. CoveredBefore(db, ops, version, lost, Trusted(ops, k), k)
    BY DEF CInv, AlwaysCovered
  <2>2. Trusted(ops, k) \in SUBSET Frameworks
    BY TrustedFrameworks DEF IInv, History
  <2> QED BY <2>1, <2>2, UserCovered
<1>3. \A j \in DOMAIN ops' : Consistent(ops'[j].undo)
  BY <1>1 DEF CInv
<1>4. ASSUME NEW w \in Workers, job'[w].kind = "sync"
      PROVE  StillThere(job[w].seen)'
  <2>1. StillThere(job[w].seen)
    BY <1>1, <1>4 DEF CInv
  <2> QED BY <1>1, <2>1 DEF StillThere, UserChange
<1> QED BY <1>2, <1>3, <1>4 DEF CInv

LEMMA EditCInv == ASSUME IInv, CInv, Edit PROVE CInv'
<1>1. PICK t \in Templates : \E i \in Active(db, t) :
        \E c \in Contents \ {db.rows[i].content} :
          db' = [db EXCEPT !.rows[i].content = c]
  BY DEF Edit
<1>2. PICK i \in Active(db, t) : \E c \in Contents \ {db.rows[i].content} :
        db' = [db EXCEPT !.rows[i].content = c]
  BY <1>1
<1>3. PICK c \in Contents : db' = [db EXCEPT !.rows[i].content = c]
  BY <1>2
<1>4. /\ Rows(db') = Rows(db) /\ \A j \in Rows(db) : db'.rows[j].archived = db.rows[j].archived
      /\ db'.maps = db.maps /\ db'.retired = db.retired
      /\ db'.links = db.links /\ db'.edges = db.edges
  BY <1>3 DEF IInv, Tables, Active, Rows, Row
<1>5. UserStep /\ lost' = lost
  BY DEF Edit
<1> QED BY <1>4, <1>5, UserCInv DEF UserChange

LEMMA SetStatusCInv == ASSUME IInv, CInv, SetStatus PROVE CInv'
<1>1. PICK t \in Tasks \cup Policies : \E i \in Active(db, t) :
        db' = [db EXCEPT !.rows[i].finished = ~@]
  BY DEF SetStatus
<1>2. PICK i \in Active(db, t) : db' = [db EXCEPT !.rows[i].finished = ~@]
  BY <1>1
<1>3. /\ Rows(db') = Rows(db) /\ \A j \in Rows(db) : db'.rows[j].archived = db.rows[j].archived
      /\ db'.maps = db.maps /\ db'.retired = db.retired
      /\ db'.links = db.links /\ db'.edges = db.edges
  BY <1>2 DEF IInv, Tables, Active, Rows, Row
<1>4. UserStep /\ lost' = lost
  BY DEF SetStatus
<1> QED BY <1>3, <1>4, UserCInv DEF UserChange

LEMMA DeleteCInv == ASSUME IInv, CInv, Delete PROVE CInv'
<1>1. PICK i \in Rows(db) : db' = Deleted(db, {i}) /\ lost' = lost \cup {i[1]}
  BY DEF Delete
<1>2. Rows(db') = Rows(db) \ {i} /\ \A j \in Rows(db') : db'.rows[j] = db.rows[j]
  BY <1>1 DEF Deleted, Rows
<1>3. i \notin FormTypes
  BY DEF IInv, Tables
<1>4. UserChange(db, db', lost')
  BY <1>1, <1>2, <1>3 DEF UserChange, Deleted
<1>5. UserStep /\ lost \subseteq lost'
  BY <1>1 DEF Delete
<1> QED BY <1>4, <1>5, UserCInv

LEMMA DeleteDraftCInv == ASSUME IInv, CInv, DeleteDraft PROVE CInv'
<1>1. PICK v \in db.drafts : db' = [db EXCEPT !.drafts = @ \ {v}]
  BY DEF DeleteDraft
<1>2. /\ db'.rows = db.rows /\ db'.maps = db.maps /\ db'.retired = db.retired
      /\ db'.links = db.links /\ db'.edges = db.edges
  BY <1>1 DEF IInv, Tables
<1>3. UserStep /\ lost' = lost
  BY DEF DeleteDraft
<1> QED BY <1>2, <1>3, UserCInv DEF UserChange, Rows

\* Requests that only read or end change nothing of this.
LEMMA ReadCInv ==
  ASSUME IInv, CInv, NEW w \in Workers, SyncRead(w) \/ Abort(w) \/ RollbackCheck(w)
  PROVE  CInv'
<1>1. /\ db' = db /\ version' = version /\ ops' = ops /\ crossed' = crossed
      /\ lost' = lost /\ drifted' = drifted
  BY DEF SyncRead, Abort, RollbackCheck
<1>2. AlwaysCovered' /\ \A j \in DOMAIN ops' : Consistent(ops'[j].undo)
  BY <1>1 DEF CInv, AlwaysCovered, Trusted
<1>3. ASSUME NEW x \in Workers, job'[x].kind = "sync"
      PROVE  job'[x] = job[x] \/ job'[x].seen = db
  BY <1>3 DEF SyncRead, Abort, RollbackCheck, Finish, NoJob, IInv, Jobs
<1>4. StillThere(db)
  BY DEF StillThere
<1>5. ASSUME NEW x \in Workers, job'[x].kind = "sync"
      PROVE  StillThere(job[x].seen)'
  <2>1. StillThere(job'[x].seen)
    BY <1>3, <1>4, <1>5 DEF CInv
  <2> QED BY <1>1, <2>1 DEF StillThere
<1> QED BY <1>2, <1>5 DEF CInv

\* A sync that commits: the past stays covered, and the present is.
LEMMA SyncWriteCInv ==
  ASSUME IInv, CInv, NEW w \in Workers, SyncWrite(w)
  PROVE  CInv'
<1>1. SyncJob(w) /\ job[w].kind = "sync" /\ lock = w
  BY JobKinds DEF SyncWrite, IInv, Control
<1>2. PICK f \in Frameworks : f = job[w].f
  BY <1>1 DEF SyncJob
<1>3. PICK v \in DOMAIN Manifests[f] : v = job[w].to
  BY <1>1, <1>2 DEF SyncJob
<1>4. PICK seen : seen = job[w].seen
  OBVIOUS
<1>5. PICK from, to : from = Manifests[f][version[f]] /\ to = Manifests[f][v]
  OBVIOUS
<1>6. PICK found \in Choices(seen, In(from) \cup In(to)) :
        /\ Appliable(db, Plan(db, seen, f, from, to, found))
        /\ db' = Synced(db, Plan(db, seen, f, from, to, found), to)
        /\ version' = [version EXCEPT ![f] = v]
        /\ ops' = Append(ops, [f |-> f, from |-> version[f], to |-> v,
                               undo |-> Plan(db, seen, f, from, to, found),
                               rolledBack |-> FALSE])
  BY <1>1, <1>2, <1>3, <1>4, <1>5 DEF SyncWrite, SyncJob
<1>7. PICK u : u = Plan(db, seen, f, from, to, found)
  OBVIOUS
<1>8. PICK op : op = [f |-> f, from |-> version[f], to |-> v, undo |-> u,
                      rolledBack |-> FALSE]
  OBVIOUS
<1>9. /\ Appliable(db, u) /\ db' = Synced(db, u, to)
      /\ version' = [version EXCEPT ![f] = v] /\ ops' = Append(ops, op)
  BY <1>6, <1>7, <1>8
<1>10. ReadRows(seen) /\ StillThere(seen)
  BY <1>1, <1>4 DEF SyncJob, CInv
<1>11. /\ Len(ops) \in Nat /\ ops \in Seq(Op) /\ Tables(db, Len(ops))
      /\ IsManifest(from) /\ IsManifest(to)
      /\ DOMAIN version = Frameworks
      /\ \A g \in Frameworks : version[g] \in DOMAIN Manifests[g]
  BY <1>5, ManifestsAssumption DEF IInv, History, Control
<1>12. Recorded(u, db, seen, to, Len(ops))
  BY <1>7, <1>10, <1>11, PlanFacts
<1>13. /\ ops' \in Seq(Op) /\ Len(ops') = Len(ops) + 1
       /\ \A g \in Frameworks : version'[g] \in DOMAIN Manifests[g]
       /\ IInv'
  <2>1. IInv'
    BY SyncWriteStep
  <2>2. ops' \in Seq(Op) /\ \A g \in Frameworks : version'[g] \in DOMAIN Manifests[g]
    BY <2>1 DEF IInv, History, Control
  <2>3. Len(ops') = Len(ops) + 1
    BY <1>9, <1>11
  <2> QED BY <2>1, <2>2, <2>3
<1>14. ASSUME crossed = {}, NEW k \in 1..(Len(ops) + 2)
       PROVE  CoveredBefore(db', ops', version', lost, Trusted(ops', k), k)
  <2>1. \A j \in 1..(Len(ops) + 1) :
          /\ CoveredBefore(db, ops, version, lost, Trusted(ops, j), j)
          /\ Trusted(ops, j) \in SUBSET Frameworks
    BY <1>11, <1>14, TrustedFrameworks DEF CInv, AlwaysCovered
  <2>2. /\ \A j : j \in DOMAIN ops' <=> j \in DOMAIN ops \/ j = Len(ops) + 1
        /\ \A j \in DOMAIN ops : ops'[j] = ops[j] /\ j < Len(ops) + 1
        /\ ops'[Len(ops) + 1] = op /\ op.f = f /\ ~op.rolledBack
    BY <1>8, <1>9, <1>11
  <2>3. CASE k \in 1..(Len(ops) + 1)
    <3>1. \A i \in u.archived \cap Rows(db) : ~db.rows[i].archived
      BY <1>10, <1>12 DEF Recorded, StillThere
    <3>2. op.undo = u /\ op.f = f /\ op.from = version[f] /\ ~op.rolledBack
      BY <1>8
    <3>3. CoveredBefore(db, ops, version, lost, Trusted(ops, k), k)
      BY <2>1, <2>3
    <3>4. Trusted(ops', k) = Trusted(ops, k)
      <4>1. \A j : j \in DOMAIN ops' /\ j < k /\ ~ops'[j].rolledBack
                     <=> j \in DOMAIN ops /\ j < k /\ ~ops[j].rolledBack
        BY <1>11, <2>2, <2>3
      <4> QED BY <2>2, <4>1 DEF Trusted
    <3>5. CoveredBefore(db', ops', version', lost, Trusted(ops, k), k)
      BY <1>9, <1>11, <1>12, <2>1, <2>3, <3>1, <3>2, <3>3, PastOfSync
    <3> QED BY <3>4, <3>5
  <2>4. CASE k = Len(ops) + 2
    <3>1. Len(ops) + 1 \in 1..(Len(ops) + 1) /\ Len(ops') + 1 = k
      BY <1>11, <1>13, <2>4
    <3>2. PICK tr \in SUBSET Frameworks : tr = Trusted(ops, Len(ops) + 1)
      BY <2>1, <3>1
    <3>3. Present(db, version, lost, tr)
      BY <1>11, <2>1, <3>1, <3>2, PresentCovered
    <3>4. Present(db', version', lost, tr \cup {f})
      BY <1>5, <1>7, <1>9, <1>10, <3>3, SyncPresent
    <3>5. CoveredBefore(db', ops', version', lost, tr \cup {f}, Len(ops') + 1)
      BY <1>13, <3>4, PresentCovered
    <3>6. Trusted(ops', k) = tr \cup {f}
      <4>1. \A j : j \in DOMAIN ops' /\ j < k /\ ~ops'[j].rolledBack
                     <=> \/ j \in DOMAIN ops /\ j < Len(ops) + 1 /\ ~ops[j].rolledBack
                         \/ j = Len(ops) + 1
        BY <1>11, <2>2, <2>4
      <4> QED BY <2>2, <3>2, <4>1 DEF Trusted
    <3> QED BY <3>1, <3>5, <3>6
  <2> QED BY <1>11, <2>3, <2>4
<1>15. crossed' = crossed /\ lost' = lost /\ drifted' = drifted
  BY DEF SyncWrite
<1>16. AlwaysCovered'
  BY <1>11, <1>13, <1>14, <1>15 DEF AlwaysCovered, Trusted
<1>17. \A j \in DOMAIN ops' : Consistent(ops'[j].undo)
  <2>1. Consistent(u) /\ op.undo = u
    BY <1>8, <1>12, RecordedConsistent
  <2>2. \A j \in DOMAIN ops' : (j \in DOMAIN ops /\ ops'[j] = ops[j]) \/ ops'[j] = op
    BY <1>9, <1>11
  <2> QED BY <2>1, <2>2 DEF CInv
<1>18. \A x \in Workers : job'[x].kind # "sync"
  <2>1. lock' = None
    BY <1>1 DEF SyncWrite, Finish
  <2> QED BY <1>13, <2>1 DEF IInv, Control
<1> QED BY <1>16, <1>17, <1>18 DEF CInv

\* A rollback that does not go under another sync brings back what was covered.
LEMMA RollbackWriteCInv ==
  ASSUME IInv, CInv, NEW w \in Workers, RollbackWrite(w)
  PROVE  CInv'
<1>1. PICK i : i = job[w].op
  OBVIOUS
<1>2. RollbackJob(w) /\ i \in DOMAIN ops
  BY <1>1, JobKinds DEF RollbackWrite, RollbackJob, IInv
<1>3. PICK u : u = ops[i].undo
  OBVIOUS
<1>4. /\ Replayable(db, u) /\ db' = Undone(db, u)
      /\ version' = [version EXCEPT ![ops[i].f] = ops[i].from]
      /\ ops' = [ops EXCEPT ![i].rolledBack = TRUE]
      /\ crossed' = crossed \cup Crossing(w, i) /\ lost' = lost /\ drifted' = drifted
      /\ lock = None /\ Finish(w, Busy)
  BY <1>1, <1>3 DEF RollbackWrite, LockFree
<1>5. /\ Len(ops) \in Nat /\ DOMAIN ops = 1..Len(ops) /\ ops \in Seq(Op)
      /\ Tables(db, Len(ops)) /\ DOMAIN version = Frameworks
      /\ \A j \in DOMAIN ops : ops[j] \in Op
  BY DEF IInv, History, Control
<1>6. /\ DOMAIN ops' = DOMAIN ops /\ Len(ops') = Len(ops)
      /\ \A j \in DOMAIN ops : ops'[j].undo = ops[j].undo
  BY <1>4, <1>5 DEF Op
<1>7. Consistent(u)
  BY <1>2, <1>3 DEF CInv
<1>8. ASSUME crossed' = {}
      PROVE  LastStands(ops, i)
  <2>1. Crossing(w, i) = {}
    BY <1>4, <1>8
  <2>2. IsLatest(i)
    BY <1>1, <1>2, <2>1 DEF Crossing, RollbackJob
  <2>3. \A j \in DOMAIN ops : j > i /\ ~ops[j].rolledBack => ops[j].f = ops[i].f
    <3>1. \A y \in {ops[j].f : j \in {j \in DOMAIN ops : j > i /\ ~ops[j].rolledBack}}
                     \ {ops[i].f} : <<ops[i].f, y>> \in Crossing(w, i)
      BY DEF Crossing
    <3> QED BY <2>1, <3>1
  <2> QED BY <2>2, <2>3 DEF IsLatest, LastStands
<1>9. ASSUME crossed' = {}, NEW k \in 1..(Len(ops) + 1)
      PROVE  CoveredBefore(db', ops', version', lost, Trusted(ops', k), k)
  <2>1. PICK k0 : k0 = Moment(k, i)
    OBVIOUS
  <2>2. /\ CoveredBefore(db, ops, version, lost, Trusted(ops, k0), k0)
        /\ Trusted(ops, k0) \in SUBSET Frameworks
    <3>1. k0 \in 1..(Len(ops) + 1)
      BY <1>2, <1>5, <1>9, <2>1 DEF Moment
    <3>2. crossed = {}
      BY <1>4, <1>9
    <3> QED BY <1>5, <3>1, <3>2, TrustedFrameworks DEF CInv, AlwaysCovered
  <2>3. LastStands(ops, i)
    BY <1>8, <1>9
  <2>4. k \in 1..(Len(ops) + 1)
    BY <1>9
  <2>5. ops' = Reversed(ops, i) /\ version' = Returned(ops, i, version)
    BY <1>4 DEF Reversed, Returned
  <2>6. db' = Undone(db, u) /\ Replayable(db, u)
    BY <1>4
  <2>7. Trusted(ops', k) = Trusted(ops, k0)
    <3>1. \A j \in DOMAIN ops : /\ ops'[j].f = ops[j].f
                                /\ ops'[j].rolledBack <=> ops[j].rolledBack \/ j = i
      BY <1>2, <1>4, <1>5 DEF Op
    <3>2. \A j \in DOMAIN ops : ~ops[j].rolledBack => j <= i
      BY <1>2, <1>5, <2>3 DEF LastStands
    <3>3. \A j \in DOMAIN ops :
            j < k /\ ~ops'[j].rolledBack <=> j < k0 /\ ~ops[j].rolledBack
      BY <1>2, <1>5, <2>1, <2>4, <3>1, <3>2 DEF Moment
    <3> QED BY <1>6, <3>1, <3>3 DEF Trusted
  <2>8. CoveredBefore(db', ops', version', lost, Trusted(ops, k0), k)
    BY <1>2, <1>3, <1>5, <1>7, <2>1, <2>2, <2>3, <2>4, <2>5, <2>6, PastOfRollback
  <2> QED BY <2>7, <2>8
<1>10. AlwaysCovered'
  BY <1>4, <1>6, <1>9 DEF AlwaysCovered, Trusted
<1>11. \A j \in DOMAIN ops' : Consistent(ops'[j].undo)
  BY <1>6 DEF CInv
<1>12. \A x \in Workers : job'[x].kind # "sync"
  <2>1. lock' = None /\ IInv'
    BY <1>4, RollbackWriteStep DEF Finish
  <2> QED BY <2>1 DEF IInv, Control
<1> QED BY <1>10, <1>11, <1>12 DEF CInv

LEMMA NextCInv == IInv /\ CInv /\ [Next]_vars => CInv'
<1> SUFFICES ASSUME IInv, CInv, [Next]_vars PROVE CInv'
  OBVIOUS
<1>1. CASE UNCHANGED vars
  BY <1>1 DEF vars, CInv, AlwaysCovered, Trusted, StillThere
<1>2. ASSUME NEW w \in Workers, SyncRead(w) \/ Abort(w) \/ RollbackCheck(w) PROVE CInv'
  BY <1>2, ReadCInv
<1>3. ASSUME NEW w \in Workers, SyncWrite(w) PROVE CInv'
  BY <1>3, SyncWriteCInv
<1>4. ASSUME NEW w \in Workers, RollbackWrite(w) PROVE CInv'
  BY <1>4, RollbackWriteCInv
<1>5. CASE Edit
  BY <1>5, EditCInv
<1>6. CASE SetStatus
  BY <1>6, SetStatusCInv
<1>7. CASE Delete
  BY <1>7, DeleteCInv
<1>8. CASE DeleteDraft
  BY <1>8, DeleteDraftCInv
<1> QED BY <1>1, <1>2, <1>3, <1>4, <1>5, <1>6, <1>7, <1>8 DEF Next

LEMMA CInvCovered == IInv /\ CInv => ManifestCovered
<1> SUFFICES ASSUME IInv, CInv, crossed = {} PROVE Present(db, version, lost, Reconciled)
  BY DEF ManifestCovered, Present, Manifest
<1>1. /\ ops \in Seq(Op) /\ Len(ops) \in Nat
      /\ \A f \in Frameworks : version[f] \in DOMAIN Manifests[f]
  BY DEF IInv, History, Control
<1>2. Reconciled = Trusted(ops, Len(ops) + 1) /\ Reconciled \in SUBSET Frameworks
  <2>1. \A i \in DOMAIN ops : i < Len(ops) + 1
    BY <1>1
  <2>2. Reconciled = Trusted(ops, Len(ops) + 1)
    BY <2>1 DEF Reconciled, Trusted
  <2> QED BY <1>1, <2>2, TrustedFrameworks
<1>3. CoveredBefore(db, ops, version, lost, Reconciled, Len(ops) + 1)
  BY <1>1, <1>2 DEF CInv, AlwaysCovered
<1> QED BY <1>1, <1>2, <1>3, PresentCovered

\* As long as no sync is undone under a later one, every template of the current
\* manifest of a framework that lacked nothing at first, or that was synced and not
\* rolled back, has one active row, mapped and linked as the manifest says; but for
\* rows users deleted and policies that were missing at first.  So frameworks do not
\* take each other's rows, and a sync mends what an instance lacked
\* (buildCrossFrameworkRefs, applySync and replayUndo).
THEOREM ManifestsCovered == Spec => []ManifestCovered
<1>1. Init => IInv /\ CInv
  BY InitIInv, InitCInv
<1>2. IInv /\ CInv /\ [Next]_vars => (IInv /\ CInv)'
  BY NextIInv, NextCInv
<1>3. IInv /\ CInv => ManifestCovered
  BY CInvCovered
<1> QED BY <1>1, <1>2, <1>3, PTL DEF Spec
=============================================================================
