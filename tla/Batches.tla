-------------------------------- MODULE Batches --------------------------------
(* The batches that the runs simple_* and json_* give the script providers. *)
EXTENDS Packages

CONSTANTS p1, p2, v1, v2

Wish(n, ensure, version) == [name |-> n, attrs |-> [ensure |-> ensure, version |-> version]]

\* Every should for one package.
OnePackage ==
  {<<Wish(p1, e, v)>> : e \in {None, "present", "absent"}, v \in {None, v1}}

\* Two packages, or one twice.
Some(n) == {Wish(n, "present", None), Wish(n, "present", v1), Wish(n, "absent", None)}

TwoPackages ==
  {<<x, y>> : x \in Some(p1), y \in {Wish(p1, "absent", None), Wish(p2, "present", v1), Wish(p2, "absent", None)}}

Everything == OnePackage \cup TwoPackages \cup {<<>>}
=============================================================================
