----------------------------- MODULE HostProvider -----------------------------
(***************************************************************************)
(* The provider host::aug (host.cc): the lines of /etc/hosts, kept in an   *)
(* augeas tree that is loaded once, when the provider is prepared.         *)
(*                                                                         *)
(* The updates of a batch work on the tree; only the end of a batch saves  *)
(* it.  A call that fails leaves its changes in the tree, where get() sees *)
(* them and a later call saves them.                                       *)
(*                                                                         *)
(* Abstracted: `ip` is the address, the one child the lens demands;        *)
(* `aliases` stands for host_aliases and comment, which may be left out.   *)
(* Nobody else edits the file.                                             *)
(***************************************************************************)
EXTENDS AugeasTree

CONSTANTS
  Host,     \* host names
  Ip,       \* addresses
  Alias,    \* values of aliases
  Calls     \* the batches of shoulds set() is called with

VARIABLES
  hosts,    \* the lines of /etc/hosts, on disk
  tree,     \* /files/etc/hosts
  garbage,  \* the handle's counter started below zero
  pc,       \* "idle", "set", or "returned"
  upds,     \* the updates of the call
  next,     \* position of the update in hand
  chgs,     \* context::_changes, by host
  outcome,  \* result of the call; "exception" leaves provider::set too
  found     \* history: the file and the tree when the call began

vars == <<hosts, tree, garbage, pc, upds, next, chgs, outcome, found>>

Attr == {"ensure", "ip", "aliases"}

HostShould ==
  [name: Host,
   attrs: [ensure: {None, "present", "absent"}, ip: {None} \cup Ip, aliases: {None} \cup Alias]]

ASSUME HostAssumption ==
  /\ None \notin Host \cup Ip \cup Alias
  /\ Calls \subseteq Seq(HostShould)

\* What a line of the file holds besides its name: the lens demands an address.
Data == [ip: Ip, aliases: Alias \cup {None}]

\* host_provider::get: a resource for every line, two for a host that has two,
\* and an absent one for each name without a line.
Resources(names) ==
  AddAbsent([i \in DOMAIN tree |->
               Resource(tree[i].name, [ensure |-> "present", ip |-> tree[i].data.ip,
                                       aliases |-> tree[i].data.aliases])],
            names, Attr)

StateOf(u) == Lookup(u.is, "ensure", "absent")
EnsureOf(u) == Lookup(u.should, "ensure", StateOf(u))

\* DataOf without what the should leaves out.
ShouldDataOf(u) == [ip |-> u.should.attrs["ip"], aliases |-> u.should.attrs["aliases"]]

\* The children update_base sets.
DataOf(u) == [ip |-> Desired(u, "ip"), aliases |-> Desired(u, "aliases")]

-----------------------------------------------------------------------------
\* host_provider::describe has loaded the file.
Init ==
  /\ hosts \in BoundedSeq([name: Host, data: Data], 2)
  /\ tree = Loaded(hosts)
  /\ garbage \in BOOLEAN
  /\ pc = "idle"
  /\ upds = <<>>
  /\ next = 1
  /\ chgs = [n \in Host |-> <<>>]
  /\ outcome = "none"
  /\ found = [hosts |-> hosts, tree |-> tree]

Give(result) == pc' = "returned" /\ outcome' = result

\* provider::set up to the provider's own set: one update for each resource
\* that has the name of the should.
Call(shoulds) ==
  /\ pc = "idle"
  /\ pc' = "set"
  /\ upds' = Pair(shoulds, Resources([i \in DOMAIN shoulds |-> shoulds[i].name]), Attr)
  /\ found' = [hosts |-> hosts, tree |-> tree]
  /\ UNCHANGED <<hosts, tree, garbage, next, chgs, outcome>>

Processing == pc = "set" /\ next \in DOMAIN upds

Here == Matches(tree, UpdateName(upds[next]))

\* The changes of one update (125-128).
Recorded(u) ==
  LET c == AddDiff(chgs[UpdateName(u)], "ensure", u)
  IN  IF EnsureOf(u) = "present" THEN AddDiffs(c, <<"ip", "aliases">>, u) ELSE c

Record(u) == chgs' = [chgs EXCEPT ![UpdateName(u)] = Recorded(u)]

\* update_base: the host's line is rewritten, or added.
SetHost ==
  /\ Processing
  /\ LET u == upds[next] IN
     /\ EnsureOf(u) = "present"
     /\ Cardinality(Here) <= 1
     /\ tree' = IF Here = {} THEN AppendNode(tree, UpdateName(u), DataOf(u), garbage)
                ELSE Rewrite(tree, CHOOSE i \in Here : TRUE, UpdateName(u), DataOf(u))
     /\ Record(u)
  /\ next' = next + 1
  /\ UNCHANGED <<hosts, garbage, pc, upds, outcome, found>>

\* RemoveHost that empties the line instead of removing it.
EmptyHost ==
  /\ Processing
  /\ EnsureOf(upds[next]) = "absent"
  /\ Cardinality(Here) <= 1
  /\ tree' = Erase(tree, UpdateName(upds[next]))
  /\ Record(upds[next])
  /\ next' = next + 1
  /\ UNCHANGED <<hosts, garbage, pc, upds, outcome, found>>

\* The removal; with no line there is only a fresh path, which removes nothing.
RemoveHost ==
  /\ Processing
  /\ LET u == upds[next] IN
     /\ EnsureOf(u) = "absent"
     /\ Cardinality(Here) <= 1
     /\ tree' = Rm(tree, UpdateName(u))
     /\ Record(u)
  /\ next' = next + 1
  /\ UNCHANGED <<hosts, garbage, pc, upds, outcome, found>>

\* A host with several lines: base() is an error, which update_base returns
\* and which the removal takes the value of, so that ok() throws (131).
SeveralLines ==
  /\ Processing
  /\ Cardinality(Here) > 1
  /\ Record(upds[next])
  /\ Give(IF EnsureOf(upds[next]) = "absent" THEN "exception" ELSE "error")
  /\ UNCHANGED <<hosts, tree, garbage, upds, next, found>>

\* Finish that saves line by line and leaves out what the lens refuses.
FinishPartly ==
  /\ pc = "set"
  /\ next \notin DOMAIN upds
  /\ hosts' = Text(SelectSeq(tree, LAMBDA e : e.numbered /\ e.data \in Data))
  /\ Give("ok")
  /\ UNCHANGED <<tree, garbage, upds, next, chgs, found>>

\* handle::save at the end of the batch: all lines or none.
Finish ==
  /\ pc = "set"
  /\ next \notin DOMAIN upds
  /\ IF Puttable(tree, Data)
     THEN hosts' = Text(tree) /\ Give("ok")
     ELSE hosts' = hosts /\ Give("error")
  /\ UNCHANGED <<tree, garbage, upds, next, chgs, found>>

\* The file cannot be written.
SaveFails ==
  /\ pc = "set"
  /\ next \notin DOMAIN upds
  /\ Give("error")
  /\ UNCHANGED <<hosts, tree, garbage, upds, next, chgs, found>>

\* The caller drops the answer; the provider and its tree stay.
Release ==
  /\ pc = "returned"
  /\ pc' = "idle"
  /\ upds' = <<>>
  /\ next' = 1
  /\ chgs' = [n \in Host |-> <<>>]
  /\ outcome' = "none"
  /\ found' = [hosts |-> hosts, tree |-> tree]
  /\ UNCHANGED <<hosts, tree, garbage>>

\* libral is started anew and the provider prepared again.
Restart ==
  /\ pc = "idle"
  /\ tree' = Loaded(hosts)
  /\ found' = [hosts |-> hosts, tree |-> tree']
  /\ UNCHANGED <<hosts, garbage, pc, upds, next, chgs, outcome>>

HostStep == SetHost \/ RemoveHost \/ SeveralLines \/ Finish \/ SaveFails

Next == HostStep \/ Release \/ Restart \/ \E shoulds \in Calls : Call(shoulds)

Spec == Init /\ [][Next]_vars

-----------------------------------------------------------------------------
Distinct == \A i, j \in DOMAIN upds : UpdateName(upds[i]) = UpdateName(upds[j]) => i = j

Succeeded == pc = "returned" /\ outcome = "ok"

Lines(file, n) == Under(file, n)

TypeOK ==
  /\ hosts \in Seq([name: Host, data: Data])
  /\ tree \in Seq([name: Host, numbered: BOOLEAN,
                   data: [ip: Ip \cup {None}, aliases: Alias \cup {None}]])
  /\ pc \in {"idle", "set", "returned"}
  /\ next \in 1..(Len(upds) + 1)
  /\ outcome \in {"none", "ok", "error", "exception"}

\* After a successful call each host is on disk as asked, on one line, with
\* what the should does not mention as get() found it, whatever calls failed
\* before (provider.hpp 79-81).
Converged ==
  Succeeded /\ Distinct =>
    \A i \in DOMAIN upds :
      LET u == upds[i]
          n == UpdateName(u)
      IN  Lines(hosts, n) =
            IF EnsureOf(u) = "absent" THEN <<>>
            ELSE <<Entry(n, [ip |-> Desired(u, "ip"), aliases |-> Desired(u, "aliases")])>>

\* The file changes only when a call succeeds: a batch is written whole or
\* not at all, and an answer that is an error means that nothing was written.
AllOrNothing ==
  /\ pc = "set" \/ outcome \in {"error", "exception"} => hosts = found.hosts
  /\ Succeeded => hosts = Text(tree)
=============================================================================
