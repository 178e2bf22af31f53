------------------------ MODULE MCFrameworkVersioning ------------------------
(* Two frameworks share a control, a task and a policy in some of their        *)
(* versions.  Soc's second version changes texts, remaps and adds, its third   *)
(* drops; iso gives up the shared control and takes on soc's task and policy.  *)
EXTENDS FrameworkVersioning, TLC

CONSTANTS soc, iso, ctl1, ctl2, task1, policy1, req1, req2, req3, form1,
          old, new, own

M(texts, maps, edges) == [content |-> texts, maps |-> maps, edges |-> edges]

TwoFrameworks ==
  (soc :> <<M(ctl1 :> old @@ policy1 :> old,
              {<<ctl1, req1>>}, {<<ctl1, policy1>>, <<ctl1, form1>>}),
            M(ctl1 :> new @@ policy1 :> new @@ task1 :> old,
              {<<ctl1, req2>>}, {<<ctl1, policy1>>, <<ctl1, task1>>}),
            M(ctl1 :> new, {<<ctl1, req1>>}, {<<ctl1, form1>>})>>)
  @@
  (iso :> <<M(ctl1 :> old, {<<ctl1, req3>>}, {}),
            M(ctl2 :> old @@ task1 :> old @@ policy1 :> old,
              {<<ctl2, req3>>}, {<<ctl2, task1>>, <<ctl2, policy1>>})>>)

Symmetry == Permutations(Workers)
=============================================================================
