--------------------------- MODULE MCMountProvider ---------------------------
(* MountProvider on small instances: see the runs mount_* in the README. *)
EXTENDS MountProvider

CONSTANTS m1, m2, d1, d2

Wish(n, ensure, device) == [name |-> n, attrs |-> [ensure |-> ensure, device |-> device]]

\* Every should for one mount point.
OneMount ==
  {<<Wish(m1, e, d)>> :
     e \in {None, "present", "mounted", "unmounted", "absent"}, d \in {None, d1}}
  \cup {<<Wish(m1, "defined", None)>>}

\* Two mount points, or one twice.
Some(n) == {Wish(n, "mounted", d1), Wish(n, "unmounted", None), Wish(n, "absent", None)}

TwoMounts == {<<x, y>> : x \in Some(m1), y \in Some(m1) \cup Some(m2)}

Everything == OneMount \cup TwoMounts
=============================================================================
