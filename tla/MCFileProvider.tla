---------------------------- MODULE MCFileProvider ----------------------------
(* FileProvider on small instances: see the runs file_* in the README. *)
EXTENDS FileProvider

CONSTANTS p1, p2, r1, b1, b2, own1, own2, name1, c0, c1

ToFirst == [r \in Relative |-> p1]

Wish(n, ensure, mode, owner, content, target, force) ==
  [name |-> n,
   attrs |-> [ensure |-> ensure, type |-> None, mode |-> mode, owner |-> owner,
              content |-> content, target |-> target, force |-> force]]

\* A should that only asks for ensure.
Only(n, ensure) == Wish(n, ensure, None, None, None, None, None)

b1Padded == ModeString(b1, TRUE)

\* Every combination of the attributes, one file at a time: each cell of the
\* table of file types, with and without metadata, content and target.
OneFile ==
  {<<Wish(p1, e, m, o, c, t, f)>> :
     e \in {None, "link"}, m \in {None, b1Padded}, o \in {None, own1},
     c \in {None, c1}, t \in {None, p2}, f \in {None, "true"}}
  \cup {<<Wish(p1, e, m, o, c, None, f)>> :
     e \in {"present", "absent", "file", "directory"}, m \in {None, b1Padded},
     o \in {None, own1}, c \in {None, c1}, f \in {None, "true"}}
  \cup {<<Wish(p1, e, BadMode, o, c1, p2, None)>> :
          e \in {"file", "link"}, o \in {None, name1}}
  \cup {<<>>}

\* Two files, or one file twice, or one file under its relative name.
Some(n) ==
  {Only(n, "absent"),
   Wish(n, "present", b1Padded, None, c1, None, None),
   Wish(n, "directory", None, own1, None, None, None),
   Wish(n, "file", None, None, None, None, "true"),
   Wish(n, "link", None, None, None, IF n = p2 THEN p1 ELSE p2, "true"),
   Wish(n, None, b1Padded, own1, None, None, None)}

TwoFiles == {<<x, y>> : x \in Some(p1) \cup Some(r1), y \in Some(p1)}
            \cup {<<x, y>> : x \in Some(p1), y \in Some(p2)}

Everything == OneFile \cup TwoFiles
=============================================================================
