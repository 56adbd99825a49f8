------------------------------ MODULE AugeasTree ------------------------------
(***************************************************************************)
(* The part of an augeas::handle (augeas/handle.cc, augeas/node.cc) that   *)
(* the mount and host providers work on: the subtree of one table file,    *)
(* one node per line, and what the calls they make do to it.  The tree is  *)
(* loaded once, when the provider is prepared, and saved as a whole.       *)
(*                                                                         *)
(* A node carries the entry's name (its `file` or `canonical` child, None  *)
(* once its children are erased), its data and whether its label is a      *)
(* number, as the lens demands.                                            *)
(***************************************************************************)
EXTENDS Naturals, FiniteSets, Resources

Entry(name, data) == [name |-> name, data |-> data]

Node(name, data, numbered) == [name |-> name, data |-> data, numbered |-> numbered]

\* aug_load: one numbered node per entry of the file.
Loaded(file) == [i \in DOMAIN file |-> Node(file[i].name, file[i].data, TRUE)]

\* The text of the tree: the file aug_save writes.
Text(tree) == [i \in DOMAIN tree |-> Entry(tree[i].name, tree[i].data)]

\* aug_match of <table>/*[<name child> = name]: the positions that match.
Matches(tree, name) == {i \in DOMAIN tree : tree[i].name = name}

\* node::erase on a path: the matching nodes lose all their children.
Erase(tree, name) ==
  [i \in DOMAIN tree |->
     IF tree[i].name = name THEN Node(None, None, tree[i].numbered) ELSE tree[i]]

\* Rm on a path that has lost its predicate.
RmEveryLine(tree, name) == <<>>

\* node::rm on a path: the matching nodes go.
Rm(tree, name) == Without(tree, name)

\* erase, then one set for each child, on a path that leads to one node.
Rewrite(tree, i, name, data) == [tree EXCEPT ![i] = Node(name, data, @.numbered)]

\* The same on make_node_seq_next's path, which leads to no node yet.  The
\* label is "0" and the next value of a counter nobody initialises
\* (handle.hpp 120): garbage below zero makes a label that is no number.
AppendNode(tree, name, data, garbage) == Append(tree, Node(name, data, ~ garbage))

\* The lens can put the tree back into text: data has the children it demands.
Puttable(tree, data) ==
  \A i \in DOMAIN tree :
    tree[i].numbered /\ tree[i].name # None /\ tree[i].data \in data
=============================================================================
