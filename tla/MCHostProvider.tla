---------------------------- MODULE MCHostProvider ----------------------------
(* HostProvider on small instances: see the runs host_* in the README. *)
EXTENDS HostProvider

CONSTANTS h1, h2, i1, i2, a1

Wish(n, ensure, ip, aliases) ==
  [name |-> n, attrs |-> [ensure |-> ensure, ip |-> ip, aliases |-> aliases]]

\* Every should for one host.
OneHost ==
  {<<Wish(h1, e, ip, a)>> : e \in {None, "present", "absent"}, ip \in {None, i1}, a \in {None, a1}}

\* Two hosts, or one twice, among them hosts whose address is never given.
Some(n) == {Wish(n, "present", i1, None), Wish(n, "present", None, a1), Wish(n, "absent", None, None)}

TwoHosts == {<<x, y>> : x \in Some(h1), y \in Some(h1) \cup Some(h2)}

Everything == OneHost \cup TwoHosts
=============================================================================
