SPECIFICATION Spec
CONSTANTS
  soc = soc
  iso = iso
  ctl1 = ctl1
  ctl2 = ctl2
  task1 = task1
  policy1 = policy1
  req1 = req1
  req2 = req2
  req3 = req3
  form1 = form1
  old = old
  new = new
  own = own
  Frameworks = {soc, iso}
  Manifests <- TwoFrameworks
  Controls = {ctl1, ctl2}
  Tasks = {task1}
  Policies = {policy1}
  Requirements = {req1, req2, req3}
  FormTypes = {form1}
  Contents = {old, new, own}
  Workers = {w1, w2}
  None = None
  MaxOps = 2
  MaxEdits = 2
SYMMETRY Symmetry
CHECK_DEADLOCK FALSE
INVARIANTS TypeOK VersionFollowsSyncs ManifestCovered
PROPERTIES SyncIsUndoable WorkKept
