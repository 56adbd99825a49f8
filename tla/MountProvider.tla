---------------------------- MODULE MountProvider ----------------------------
(***************************************************************************)
(* The provider mount::aug (mount.cc): the entries of /etc/fstab, kept in  *)
(* an augeas tree, and the commands mount and umount.                      *)
(*                                                                         *)
(* Both /etc/fstab and /etc/mtab are loaded once, when the provider is     *)
(* prepared; every later call works on those trees, whatever happened to   *)
(* the machine since, and a call that fails leaves its changes in the tree *)
(* for a later one to save.                                                *)
(*                                                                         *)
(* Abstracted: `device` stands for device and fstype, which update_base    *)
(* treats alike; options, dump and pass, which have defaults, are left     *)
(* out.  Nobody else edits fstab, mounts or unmounts.                      *)
(***************************************************************************)
EXTENDS AugeasTree

CONSTANTS
  Mount,      \* mount points
  Device,     \* devices
  Calls,      \* the batches of shoulds set() is called with
  MaxEntries  \* bound: fstab entries beyond which no call starts

VARIABLES
  fstab,    \* the entries of /etc/fstab, on disk
  mounted,  \* the device mounted at each mount point, None when there is none
  tree,     \* /files/etc/fstab
  mtab,     \* /files/etc/mtab: what was mounted when the provider was prepared
  mtabBad,  \* /etc/mtab did not parse, which leaves an error in the tree
  garbage,  \* the handle's counter started below zero
  pc,       \* "idle", "set", or "returned"
  upds,     \* the updates of the call
  next,     \* position of the update in hand
  stages,   \* what is left to do for it
  chgs,     \* context::_changes, by mount point
  outcome,  \* result of the call
  found     \* history: fstab, mounted and whether the trees were up to date

system == <<fstab, mounted, tree>>
handle == <<mtab, mtabBad, garbage>>
vars == <<fstab, mounted, tree, mtab, mtabBad, garbage, pc, upds, next, stages, chgs,
          outcome, found>>

Attr == {"ensure", "device"}

Ensures == {"defined", "present", "mounted", "unmounted", "absent", "ghost"}

MountShould ==
  [name: Mount, attrs: [ensure: {None} \cup Ensures, device: {None} \cup Device]]

ASSUME MountAssumption ==
  /\ None \notin Mount \cup Device \cup Ensures
  /\ Calls \subseteq Seq(MountShould)
  /\ MaxEntries \in Nat

Entries == [name: Mount, data: Device]

\* mount_provider::get for one name: the first of the entries with the name,
\* since a map keeps the first; a mount without an entry is a ghost.
Is(n) ==
  LET here == Matches(tree, n) IN
  IF here # {}
  THEN Resource(n, [ensure |-> IF mtab[n] # None THEN "mounted" ELSE "unmounted",
                    device |-> tree[CHOOSE i \in here : \A j \in here : i <= j].data])
  ELSE IF mtab[n] # None
  THEN Resource(n, [ensure |-> "ghost", device |-> mtab[n]])
  ELSE Blank(n, Attr)

StateOf(u) == Lookup(u.is, "ensure", "absent")
EnsureOf(u) == Lookup(u.should, "ensure", StateOf(u))

\* Stages with the mount before the table is saved.
HastyStages(ensure) ==
  CASE ensure = "present" -> <<"fstab">>
    [] ensure = "absent" -> <<"flush", "umount", "remove">>
    [] ensure = "unmounted" -> <<"flush", "umount", "fstab">>
    [] ensure = "mounted" -> <<"fstab", "mount", "flush">>
    [] OTHER -> <<"illegal">>

\* Stages that remove the entry first.
RemoveFirstStages(ensure) ==
  CASE ensure = "present" -> <<"fstab">>
    [] ensure = "absent" -> <<"remove", "flush", "umount">>
    [] ensure = "unmounted" -> <<"flush", "umount", "fstab">>
    [] ensure = "mounted" -> <<"fstab", "flush", "mount">>
    [] OTHER -> <<"illegal">>

\* Stages that mount without asking for a table entry.
NoEntryStages(ensure) ==
  CASE ensure = "present" -> <<"fstab">>
    [] ensure = "absent" -> <<"flush", "umount", "remove">>
    [] ensure = "unmounted" -> <<"flush", "umount">>
    [] ensure = "mounted" -> <<"fstab", "flush", "mount">>
    [] OTHER -> <<"illegal">>

\* The calls set() makes for one update, unmount() and mount() each split in
\* their flush and their command.
Stages(ensure) ==
  CASE ensure = "present" -> <<"fstab">>
    [] ensure = "absent" -> <<"flush", "umount", "remove">>
    [] ensure = "unmounted" -> <<"flush", "umount", "fstab">>
    [] ensure = "mounted" -> <<"fstab", "flush", "mount">>
    [] OTHER -> <<"illegal">>

-----------------------------------------------------------------------------
\* mount_provider::describe has loaded both files.
Init ==
  /\ fstab \in BoundedSeq(Entries, 2)
  /\ mounted \in [Mount -> Device \cup {None}]
  /\ tree = Loaded(fstab)
  /\ mtabBad \in BOOLEAN
  /\ garbage \in BOOLEAN
  /\ mtab = IF mtabBad THEN [n \in Mount |-> None] ELSE mounted
  /\ pc = "idle"
  /\ upds = <<>>
  /\ next = 1
  /\ stages = <<>>
  /\ chgs = [n \in Mount |-> <<>>]
  /\ outcome = "none"
  /\ found = [fstab |-> fstab, mounted |-> mounted, fresh |-> TRUE]

Give(result) == pc' = "returned" /\ outcome' = result

\* provider::set up to the provider's own set.  get() returns one resource per
\* name, and fails once an entry has lost its children.
Call(shoulds) ==
  /\ pc = "idle"
  /\ Len(tree) <= MaxEntries
  /\ found' = [fstab |-> fstab, mounted |-> mounted,
               fresh |-> mtab = mounted /\ tree = Loaded(fstab)]
  /\ IF Matches(tree, None) # {}
     THEN upds' = <<>> /\ Give("error")
     ELSE /\ upds' = [i \in DOMAIN shoulds |-> Update(Is(shoulds[i].name), shoulds[i])]
          /\ pc' = "begin"
          /\ UNCHANGED outcome
  /\ UNCHANGED <<system, handle, next, stages, chgs>>

Updating(stage) ==
  /\ pc = "set"
  /\ stages # <<>>
  /\ Head(stages) = stage

StageDone == stages' = Tail(stages)

Record(u, c) == chgs' = [chgs EXCEPT ![UpdateName(u)] = c]

\* The start of one update (164-167).
Begin ==
  /\ pc = "begin"
  /\ next \in DOMAIN upds
  /\ LET u == upds[next] IN
     /\ stages' = Stages(EnsureOf(u))
     /\ Record(u, AddDiff(chgs[UpdateName(u)], "ensure", u))
  /\ pc' = "set"
  /\ UNCHANGED <<system, handle, upds, next, outcome, found>>

\* "defined" and "ghost" are in the provider's enum and set() knows neither.
IllegalEnsure ==
  /\ Updating("illegal")
  /\ Give("error")
  /\ UNCHANGED <<system, handle, upds, next, stages, chgs, found>>

\* update_fstab on an absent mount: a new entry, even when an earlier update
\* of the batch has made one.
AddEntry ==
  /\ Updating("fstab")
  /\ LET u == upds[next] IN
     /\ ~ Present(u)
     /\ Record(u, AddDiff(chgs[UpdateName(u)], "device", u))
     /\ IF Desired(u, "device") = None
        THEN Give("error") /\ UNCHANGED <<tree, stages>>
        ELSE /\ tree' = AppendNode(tree, UpdateName(u), Desired(u, "device"), garbage)
             /\ StageDone
             /\ UNCHANGED <<pc, outcome>>
  /\ UNCHANGED <<fstab, mounted, handle, upds, next, found>>

\* update_fstab on a mount that was there: base() ignores that its path may
\* lead to no node (a ghost, an entry the batch has removed) or to several.
\* erase() then empties them all and the path leads nowhere: setting a child
\* is an error or, should the library not report it, does nothing.
RewriteEntry ==
  /\ Updating("fstab")
  /\ LET u == upds[next]
         here == Matches(tree, UpdateName(u))
     IN  /\ Present(u)
         /\ Record(u, AddDiff(chgs[UpdateName(u)], "device", u))
         /\ \/ /\ Cardinality(here) = 1
               /\ tree' = Rewrite(tree, CHOOSE i \in here : TRUE, UpdateName(u),
                                  Desired(u, "device"))
               /\ StageDone
               /\ UNCHANGED <<pc, outcome>>
            \/ /\ Cardinality(here) # 1
               /\ tree' = Erase(tree, UpdateName(u))
               /\ StageDone
               /\ UNCHANGED <<pc, outcome>>
            \/ /\ Cardinality(here) # 1
               /\ tree' = Erase(tree, UpdateName(u))
               /\ Give("error")
               /\ UNCHANGED stages
  /\ UNCHANGED <<fstab, mounted, handle, upds, next, found>>

\* handle::save: all entries or none; the error that loading /etc/mtab left
\* makes it an error even when fstab was written.
Save ==
  /\ fstab' = IF Puttable(tree, Device) THEN Text(tree) ELSE fstab
  /\ UNCHANGED <<mounted, tree>>

Saves == Puttable(tree, Device) /\ ~ mtabBad

\* flush() within unmount() and mount().
Flush ==
  /\ Updating("flush")
  /\ Save
  /\ IF Saves THEN StageDone /\ UNCHANGED <<pc, outcome>>
     ELSE Give("error") /\ UNCHANGED stages
  /\ UNCHANGED <<handle, upds, next, chgs, found>>

\* umount, if the mount was mounted when looked up.
Unmount ==
  /\ Updating("umount")
  /\ LET n == UpdateName(upds[next]) IN
     IF StateOf(upds[next]) \in {"unmounted", "absent"}
     THEN UNCHANGED mounted
     ELSE mounted[n] # None /\ mounted' = [mounted EXCEPT ![n] = None]
  /\ StageDone
  /\ UNCHANGED <<fstab, tree, handle, pc, upds, next, chgs, outcome, found>>

\* mount, if it was not: mount(8) finds the device in fstab, on disk.
DoMount ==
  /\ Updating("mount")
  /\ LET n == UpdateName(upds[next]) IN
     IF StateOf(upds[next]) = "mounted"
     THEN UNCHANGED mounted
     ELSE /\ mounted[n] = None
          /\ \E i \in DOMAIN fstab :
               fstab[i].name = n /\ mounted' = [mounted EXCEPT ![n] = fstab[i].data]
  /\ StageDone
  /\ UNCHANGED <<fstab, tree, handle, pc, upds, next, chgs, outcome, found>>

\* remove_from_fstab: for an absent mount there is no node to remove.
RemoveEntry ==
  /\ Updating("remove")
  /\ LET u == upds[next]
     IN  tree' = IF Present(u) THEN Rm(tree, UpdateName(u)) ELSE tree
  /\ StageDone
  /\ UNCHANGED <<fstab, mounted, handle, pc, upds, next, chgs, outcome, found>>

\* UpdateDone that skips an update.
SkippingUpdateDone ==
  /\ pc = "set"
  /\ stages = <<>>
  /\ next' = next + 2
  /\ pc' = "begin"
  /\ UNCHANGED <<system, handle, upds, stages, chgs, outcome, found>>

UpdateDone ==
  /\ pc = "set"
  /\ stages = <<>>
  /\ next' = next + 1
  /\ pc' = "begin"
  /\ UNCHANGED <<system, handle, upds, stages, chgs, outcome, found>>

\* The flush at the end of a batch.
Finish ==
  /\ pc = "begin"
  /\ next \notin DOMAIN upds
  /\ Save
  /\ Give(IF Saves THEN "ok" ELSE "error")
  /\ UNCHANGED <<handle, upds, next, stages, chgs, found>>

\* The command or the write that is due fails: set() returns its error.
StageFails ==
  /\ \/ Updating("flush")
     \/ Updating("umount") /\ StateOf(upds[next]) \notin {"unmounted", "absent"}
     \/ Updating("mount") /\ StateOf(upds[next]) # "mounted"
     \/ pc = "begin" /\ next \notin DOMAIN upds
  /\ Give("error")
  /\ UNCHANGED <<system, handle, upds, next, stages, chgs, found>>

\* The caller drops the answer; the provider and its trees stay.
Release ==
  /\ pc = "returned"
  /\ pc' = "idle"
  /\ upds' = <<>>
  /\ next' = 1
  /\ stages' = <<>>
  /\ chgs' = [n \in Mount |-> <<>>]
  /\ outcome' = "none"
  /\ found' = [fstab |-> fstab, mounted |-> mounted, fresh |-> TRUE]
  /\ UNCHANGED <<system, handle>>

\* libral is started anew and the provider prepared again.
Restart ==
  /\ pc = "idle"
  /\ tree' = Loaded(fstab)
  /\ mtab' = IF mtabBad THEN [n \in Mount |-> None] ELSE mounted
  /\ UNCHANGED <<fstab, mounted, mtabBad, garbage, pc, upds, next, stages, chgs, outcome,
                 found>>

MountStep ==
  \/ Begin \/ IllegalEnsure \/ AddEntry \/ RewriteEntry \/ Flush \/ Unmount \/ DoMount
  \/ RemoveEntry \/ UpdateDone \/ Finish \/ StageFails

Next == MountStep \/ Release \/ Restart \/ \E shoulds \in Calls : Call(shoulds)

Spec == Init /\ [][Next]_vars

-----------------------------------------------------------------------------
Distinct == \A i, j \in DOMAIN upds : UpdateName(upds[i]) = UpdateName(upds[j]) => i = j

\* The provider knew the machine when the call began: it was prepared since
\* anything was mounted, and no failed call left changes in its tree.
Fresh == found.fresh

Succeeded == pc = "returned" /\ outcome = "ok"

Lines(file, n) == Under(file, n)

TypeOK ==
  /\ fstab \in Seq(Entries)
  /\ mounted \in [Mount -> Device \cup {None}]
  /\ tree \in Seq([name: Mount \cup {None}, data: Device \cup {None}, numbered: BOOLEAN])
  /\ mtab \in [Mount -> Device \cup {None}]
  /\ pc \in {"idle", "begin", "set", "returned"}
  /\ next \in 1..(Len(upds) + 1)
  /\ outcome \in {"none", "ok", "error"}

\* The table entry is on disk as asked: one line, with the device.
EntryAsAsked(u) ==
  Lines(fstab, UpdateName(u)) = <<Entry(UpdateName(u), Desired(u, "device"))>>

\* After a successful call on a provider that knows the machine, the table
\* and the mounts are as asked (mount.cc 150-161), except for ghosts and for
\* mount points with several entries, which the code cannot handle.
Converged ==
  Succeeded /\ Distinct /\ Fresh =>
    \A i \in DOMAIN upds :
      LET u == upds[i]
          n == UpdateName(u)
          e == EnsureOf(u)
      IN  /\ e = "absent" => Lines(fstab, n) = <<>> /\ mounted[n] = None
          /\ e = "unmounted" => mounted[n] = None
          /\ e = "mounted" => mounted[n] # None
          /\ e = "present" => mounted[n] = found.mounted[n]
          /\ e # "absent" /\ StateOf(u) # "ghost" /\ Len(Lines(found.fstab, n)) < 2
               => EntryAsAsked(u)

\* On every step of a call, failed or not, the entries and the mounts of the
\* mount points it does not name are as they were.
OthersKept ==
  Fresh =>
    \A n \in Mount :
      (\A i \in DOMAIN upds : UpdateName(upds[i]) # n) =>
        Lines(fstab, n) = Lines(found.fstab, n) /\ mounted[n] = found.mounted[n]

\* An entry leaves the table on disk only when nothing is mounted there: were
\* the removal saved before a umount that fails, the mount would be a ghost.
KeptUntilUnmounted ==
  Fresh /\ Distinct =>
    \A n \in Mount :
      Lines(found.fstab, n) # <<>> /\ Lines(fstab, n) = <<>> => mounted[n] = None

\* What gets mounted is what the should asks for, so the table was saved
\* before mount(8) read it, and had no other line for the mount point.
MountsWhatWasAsked ==
  [][ DoMount /\ Distinct /\ mounted' # mounted =>
        LET u == upds[next] IN mounted'[UpdateName(u)] = Desired(u, "device") ]_vars

\* A call never gives a mount point a second entry.
NoNewDuplicates ==
  Fresh /\ Distinct =>
    \A n \in Mount : Len(Lines(fstab, n)) <= Len(Lines(found.fstab, n)) \/ Len(Lines(fstab, n)) = 1
=============================================================================
