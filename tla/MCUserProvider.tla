---------------------------- MODULE MCUserProvider ----------------------------
(* UserProvider on a small instance: see the runs user_* in the README. *)
EXTENDS UserProvider

CONSTANTS u1, u2, g1, g2, h1, h2

Ask(n, ensure, gid, groups, home, managehome) ==
  Resource(n, [ensure |-> ensure, gid |-> gid, groups |-> groups, home |-> home,
               managehome |-> managehome])

GroupSets == {None, {}, {g2}, {g1, g2}}

\* One user who is to be there, with every combination of attributes, and one
\* who is to be absent or a role, whatever else is asked.
Single ==
  {<<Ask(u1, e, g, gs, h, m)>> :
     e \in {None, "present"}, g \in {None, g1, g2}, gs \in GroupSets,
     h \in {None, h1}, m \in {None, TRUE}}
  \cup {<<Ask(u1, e, g, None, h1, None)>> : e \in {"absent", "role"}, g \in {None, g1}}

\* Two shoulds, for one user or for two.
Simple(n) ==
  {Ask(n, "absent", None, None, None, None), Ask(n, None, g1, {g2}, None, None),
   Ask(n, "present", g2, None, h1, TRUE)}

Double == {<<a, b>> : a \in Simple(u1), b \in Simple(u1) \cup Simple(u2)}

\* u1 anyhow, u2 absent or in both groups.
MCFound ==
  {d \in [User -> Entry \cup {NoUser}] :
     d[u2] \in {NoUser, [gid |-> g1, home |-> h1, groups |-> {g2}]}}

MCCalls == Single \cup Double
=============================================================================
