------------------------ MODULE MountProvider_proofs ------------------------
(* Proofs about MountProvider, for all mount points, devices and batches.     *)
EXTENDS MountProvider, Lists_proofs

-----------------------------------------------------------------------------
(* The inductive invariant. *)

TreeNode == [name: Mount \cup {None}, data: Device \cup {None}, numbered: BOOLEAN]

\* The lines of a mount point in the tree, and in the file when the call began.
Read(n) == Lines(Text(tree), n)

Was(n) == Lines(found.fstab, n)

\* An erased node: the lens cannot put the tree any more.
Torn == Matches(tree, None) # {}

InCall == pc \in {"begin", "set"}

\* Of the update in hand, the table entry or the mount is dealt with.
NoEntryLeft == {<<>>, <<"mount">>, <<"flush", "mount">>}

NoMountLeft == {<<>>, <<"remove">>, <<"fstab">>}

EntryDealt == stages \in NoEntryLeft

MountDealt == stages \in NoMountLeft

\* Of an update, the same is still to be done, or was done.
EntryLeft(i) == i > next \/ (i = next /\ (pc = "begin" \/ (pc = "set" /\ ~ EntryDealt)))

MountLeft(i) == i > next \/ (i = next /\ (pc = "begin" \/ (pc = "set" /\ ~ MountDealt)))

EntryMade(i) == i < next \/ (i = next /\ pc = "set" /\ EntryDealt)

MountMade(i) == i < next \/ (i = next /\ pc = "set" /\ MountDealt)

EntryNotYet(n) == \A i \in DOMAIN upds : UpdateName(upds[i]) = n => EntryLeft(i)

MountNotYet(n) == \A i \in DOMAIN upds : UpdateName(upds[i]) = n => MountLeft(i)

\* What get() makes of a mount point.
StateBy(lines, device) ==
  IF lines # <<>>
  THEN IF device # None THEN "mounted" ELSE "unmounted"
  ELSE IF device # None THEN "ghost" ELSE "absent"

UpdsOK ==
  /\ Len(upds) \in Nat
  /\ DOMAIN upds = 1..Len(upds)
  /\ \A i \in DOMAIN upds :
       /\ UpdateName(upds[i]) \in Mount
       /\ Desired(upds[i], "device") \in Device \cup {None}
       /\ StateOf(upds[i]) \in {"mounted", "unmounted", "ghost", "absent"}
       /\ Present(upds[i]) <=> StateOf(upds[i]) # "absent"

FoundOK ==
  /\ found.fstab \in Seq(Entries)
  /\ found.mounted \in [Mount -> Device \cup {None}]
  /\ pc = "idle" => /\ upds = <<>>
                    /\ next = 1
                    /\ found.fstab = fstab
                    /\ found.mounted = mounted

\* The stages left are the end of what the ensure of the update calls for.
StagesOK ==
  pc = "set" =>
    LET e == EnsureOf(upds[next]) IN
    /\ next \in DOMAIN upds
    /\ \/ e = "present" /\ stages \in {<<"fstab">>, <<>>}
       \/ e = "absent" /\ stages \in {<<"flush", "umount", "remove">>, <<"umount", "remove">>,
                                      <<"remove">>, <<>>}
       \/ e = "unmounted" /\ stages \in {<<"flush", "umount", "fstab">>, <<"umount", "fstab">>,
                                         <<"fstab">>, <<>>}
       \/ e = "mounted" /\ stages \in {<<"fstab", "flush", "mount">>, <<"flush", "mount">>,
                                       <<"mount">>, <<>>}
       \/ /\ e \notin {"present", "absent", "unmounted", "mounted"}
          /\ stages = <<"illegal">>

\* The provider saw the machine as it was.
LookedUp ==
  Fresh => \A i \in DOMAIN upds :
             StateOf(upds[i]) = StateBy(Was(UpdateName(upds[i])), found.mounted[UpdateName(upds[i])])

\* A mount point whose entry no update has dealt with has the lines it had.
EntriesKept ==
  InCall => \A n \in Mount : EntryNotYet(n) =>
    /\ Fresh => Read(n) = Was(n) /\ Lines(fstab, n) = Was(n)
    /\ \A i \in DOMAIN upds : UpdateName(upds[i]) = n /\ ~ Present(upds[i]) => Read(n) = <<>>

MountsKept ==
  InCall /\ Fresh => \A n \in Mount : MountNotYet(n) => mounted[n] = found.mounted[n]

\* What the updates dealt with have attained in the tree and on the machine.
EntriesMade ==
  Distinct /\ Fresh =>
    \A i \in DOMAIN upds : EntryMade(i) =>
      LET u == upds[i]
          n == UpdateName(u)
      IN  /\ EnsureOf(u) = "absent" => Read(n) = <<>>
          /\ EnsureOf(u) # "absent" /\ StateOf(u) # "ghost" /\ Len(Was(n)) < 2
               => Read(n) = <<Entry(n, Desired(u, "device"))>>

MountsMade ==
  Distinct /\ Fresh =>
    \A i \in DOMAIN upds : MountMade(i) =>
      LET u == upds[i]
          n == UpdateName(u)
      IN  /\ EnsureOf(u) \in {"absent", "unmounted"} => mounted[n] = None
          /\ EnsureOf(u) = "mounted" => mounted[n] # None
          /\ EnsureOf(u) = "present" => mounted[n] = found.mounted[n]

\* mount(8) will find the line that was asked for.
ReadyToMount ==
  pc = "set" /\ Distinct =>
    LET u == upds[next] IN
    /\ stages \in {<<"flush", "mount">>, <<"mount">>} =>
         \A i \in DOMAIN tree : tree[i].name = UpdateName(u) => tree[i].data = Desired(u, "device")
    /\ stages = <<"mount">> => fstab = Text(tree)

\* The same of the tree as KeptUntilUnmounted and NoNewDuplicates of the file.
KeptInTree ==
  pc # "idle" /\ Fresh /\ Distinct =>
    \A n \in Mount : Was(n) # <<>> /\ Read(n) = <<>> /\ ~ Torn => mounted[n] = None

OneInTree ==
  pc # "idle" /\ Fresh /\ Distinct =>
    \A n \in Mount : Len(Read(n)) <= Len(Was(n)) \/ Len(Read(n)) = 1

Saved ==
  outcome = "ok" => pc = "returned" /\ fstab = Text(tree) /\ next \notin DOMAIN upds

IndInv ==
  /\ TypeOK /\ UpdsOK /\ FoundOK /\ StagesOK /\ LookedUp
  /\ EntriesKept /\ MountsKept /\ OthersKept
  /\ EntriesMade /\ MountsMade /\ ReadyToMount
  /\ KeptInTree /\ KeptUntilUnmounted
  /\ OneInTree /\ NoNewDuplicates /\ Saved

-----------------------------------------------------------------------------
(* The stages of an update. *)

\* What each stage can follow and what it leaves.
LEMMA StageCases ==
  ASSUME StagesOK, NEW s, Updating(s)
  PROVE  LET e == EnsureOf(upds[next])
             t == Tail(stages)
         IN  /\ pc = "set" /\ next \in DOMAIN upds
             /\ s = "fstab" =>
                  /\ e \in {"present", "unmounted", "mounted"}
                  /\ stages \notin NoEntryLeft /\ t \in NoEntryLeft
                  /\ stages \in NoMountLeft <=> t \in NoMountLeft
                  /\ \/ e # "mounted" /\ t = <<>>
                     \/ e = "mounted" /\ t = <<"flush", "mount">>
             /\ s = "flush" =>
                  /\ stages \notin NoMountLeft /\ t \notin NoMountLeft
                  /\ \/ e = "absent" /\ stages \notin NoEntryLeft /\ t = <<"umount", "remove">>
                     \/ e = "unmounted" /\ stages \notin NoEntryLeft /\ t = <<"umount", "fstab">>
                     \/ e = "mounted" /\ stages = <<"flush", "mount">> /\ t = <<"mount">>
                  /\ stages \in NoEntryLeft <=> t \in NoEntryLeft
             /\ s = "umount" =>
                  /\ stages \notin NoEntryLeft /\ t \notin NoEntryLeft
                  /\ stages \notin NoMountLeft /\ t \in NoMountLeft
                  /\ \/ e = "absent" /\ t = <<"remove">>
                     \/ e = "unmounted" /\ t = <<"fstab">>
             /\ s = "mount" =>
                  /\ stages \in NoEntryLeft /\ t \in NoEntryLeft
                  /\ stages \notin NoMountLeft /\ t \in NoMountLeft
                  /\ e = "mounted" /\ stages = <<"mount">> /\ t = <<>>
             /\ s = "remove" =>
                  /\ stages \notin NoEntryLeft /\ t \in NoEntryLeft
                  /\ stages \in NoMountLeft /\ t \in NoMountLeft
                  /\ e = "absent" /\ stages = <<"remove">> /\ t = <<>>
<1>1. pc = "set" /\ next \in DOMAIN upds /\ stages # <<>> /\ Head(stages) = s
  BY DEF StagesOK, Updating
<1>2. CASE EnsureOf(upds[next]) = "present" /\ stages = <<"fstab">>
  BY <1>1, <1>2 DEF NoEntryLeft, NoMountLeft
<1>3. CASE EnsureOf(upds[next]) = "absent" /\ stages = <<"flush", "umount", "remove">>
  BY <1>1, <1>3 DEF NoEntryLeft, NoMountLeft
<1>4. CASE EnsureOf(upds[next]) = "absent" /\ stages = <<"umount", "remove">>
  BY <1>1, <1>4 DEF NoEntryLeft, NoMountLeft
<1>5. CASE EnsureOf(upds[next]) = "absent" /\ stages = <<"remove">>
  BY <1>1, <1>5 DEF NoEntryLeft, NoMountLeft
<1>6. CASE EnsureOf(upds[next]) = "unmounted" /\ stages = <<"flush", "umount", "fstab">>
  BY <1>1, <1>6 DEF NoEntryLeft, NoMountLeft
<1>7. CASE EnsureOf(upds[next]) = "unmounted" /\ stages = <<"umount", "fstab">>
  BY <1>1, <1>7 DEF NoEntryLeft, NoMountLeft
<1>8. CASE EnsureOf(upds[next]) = "unmounted" /\ stages = <<"fstab">>
  BY <1>1, <1>8 DEF NoEntryLeft, NoMountLeft
<1>9. CASE EnsureOf(upds[next]) = "mounted" /\ stages = <<"fstab", "flush", "mount">>
  BY <1>1, <1>9 DEF NoEntryLeft, NoMountLeft
<1>10. CASE EnsureOf(upds[next]) = "mounted" /\ stages = <<"flush", "mount">>
  BY <1>1, <1>10 DEF NoEntryLeft, NoMountLeft
<1>11. CASE EnsureOf(upds[next]) = "mounted" /\ stages = <<"mount">>
  BY <1>1, <1>11 DEF NoEntryLeft, NoMountLeft
<1>12. CASE stages = <<"illegal">>
  BY <1>1, <1>12 DEF NoEntryLeft, NoMountLeft
<1> QED BY <1>1, <1>2, <1>3, <1>4, <1>5, <1>6, <1>7, <1>8, <1>9, <1>10, <1>11, <1>12 DEF StagesOK

\* What an update starts with.
LEMMA StagesStart ==
  ASSUME NEW e
  PROVE  /\ Stages(e) \notin NoEntryLeft
         /\ Stages(e) \in NoMountLeft <=> e = "present"
         /\ Stages(e) \notin {<<"flush", "mount">>, <<"mount">>}
         /\ \/ e = "present" /\ Stages(e) = <<"fstab">>
            \/ e = "absent" /\ Stages(e) = <<"flush", "umount", "remove">>
            \/ e = "unmounted" /\ Stages(e) = <<"flush", "umount", "fstab">>
            \/ e = "mounted" /\ Stages(e) = <<"fstab", "flush", "mount">>
            \/ e \notin {"present", "absent", "unmounted", "mounted"} /\ Stages(e) = <<"illegal">>
<1>1. CASE e = "present"
  BY <1>1 DEF Stages, NoEntryLeft, NoMountLeft
<1>2. CASE e = "absent"
  BY <1>2 DEF Stages, NoEntryLeft, NoMountLeft
<1>3. CASE e = "unmounted"
  BY <1>3 DEF Stages, NoEntryLeft, NoMountLeft
<1>4. CASE e = "mounted"
  BY <1>4 DEF Stages, NoEntryLeft, NoMountLeft
<1>5. CASE e \notin {"present", "absent", "unmounted", "mounted"}
  <2>1. Stages(e) = <<"illegal">>
    BY <1>5 DEF Stages
  <2> QED BY <1>5, <2>1 DEF NoEntryLeft, NoMountLeft
<1> QED BY <1>1, <1>2, <1>3, <1>4, <1>5

-----------------------------------------------------------------------------
(* How far the updates are. *)

USE DEF InCall

\* The steps of a call keep its updates, and what is left to do never grows.
LEMMA Progress ==
  ASSUME IndInv, MountStep
  PROVE  /\ UNCHANGED <<upds, found, mtab, mtabBad, garbage>> /\ pc # "idle" /\ pc' # "idle"
         /\ InCall
         /\ InCall' => \A i \in DOMAIN upds : EntryLeft(i)' => EntryLeft(i)
         /\ InCall' => \A i \in DOMAIN upds : MountLeft(i)' => MountLeft(i)
         /\ \A i \in DOMAIN upds : EntryMade(i)' =>
              \/ EntryMade(i)
              \/ i = next /\ (AddEntry \/ RewriteEntry \/ RemoveEntry) /\ pc' = "set"
         /\ \A i \in DOMAIN upds : MountMade(i)' =>
              \/ MountMade(i)
              \/ i = next /\ (Unmount \/ DoMount) /\ pc' = "set"
              \/ i = next /\ Begin /\ EnsureOf(upds[i]) = "present"
<1> USE DEF EntryLeft, MountLeft, EntryMade, MountMade, EntryDealt, MountDealt
<1>0. StagesOK /\ next \in Nat /\ DOMAIN upds \subseteq Nat
  BY DEF IndInv, TypeOK, UpdsOK
<1>1. CASE Begin
  <2>1. /\ pc = "begin" /\ pc' = "set" /\ next \in DOMAIN upds
        /\ stages' = Stages(EnsureOf(upds[next]))
        /\ UNCHANGED <<upds, found, mtab, mtabBad, garbage, next>>
    BY <1>1 DEF Begin, handle
  <2>2. /\ stages' \notin NoEntryLeft
        /\ stages' \in NoMountLeft <=> EnsureOf(upds[next]) = "present"
    BY <2>1, StagesStart
  <2> QED BY <1>0, <1>1, <2>1, <2>2
<1>2. CASE IllegalEnsure
  BY <1>0, <1>2 DEF IllegalEnsure, Updating, Give, handle
<1>3. CASE AddEntry
  <2>1. Updating("fstab") /\ pc = "set"
    BY <1>3 DEF AddEntry, Updating
  <2>2. /\ UNCHANGED <<upds, found, mtab, mtabBad, garbage, next>>
        /\ pc' = "returned" \/ (pc' = pc /\ stages' = Tail(stages))
    BY <1>3 DEF AddEntry, Give, StageDone, handle
  <2> QED BY <1>0, <1>3, <2>1, <2>2, StageCases
<1>4. CASE RewriteEntry
  <2>1. Updating("fstab") /\ pc = "set"
    BY <1>4 DEF RewriteEntry, Updating
  <2>2. /\ UNCHANGED <<upds, found, mtab, mtabBad, garbage, next>>
        /\ pc' = "returned" \/ (pc' = pc /\ stages' = Tail(stages))
    BY <1>4 DEF RewriteEntry, Give, StageDone, handle
  <2> QED BY <1>0, <1>4, <2>1, <2>2, StageCases
<1>5. CASE Flush
  <2>1. Updating("flush") /\ pc = "set"
    BY <1>5 DEF Flush, Updating
  <2>2. /\ UNCHANGED <<upds, found, mtab, mtabBad, garbage, next>>
        /\ pc' = "returned" \/ (pc' = pc /\ stages' = Tail(stages))
    BY <1>5 DEF Flush, Give, StageDone, handle
  <2> QED BY <1>0, <2>1, <2>2, StageCases
<1>6. CASE Unmount
  <2>1. Updating("umount") /\ pc = "set"
    BY <1>6 DEF Unmount, Updating
  <2>2. /\ UNCHANGED <<upds, found, mtab, mtabBad, garbage, next>>
        /\ pc' = pc /\ stages' = Tail(stages)
    BY <1>6 DEF Unmount, StageDone, handle
  <2> QED BY <1>0, <1>6, <2>1, <2>2, StageCases
<1>7. CASE DoMount
  <2>1. Updating("mount") /\ pc = "set"
    BY <1>7 DEF DoMount, Updating
  <2>2. /\ UNCHANGED <<upds, found, mtab, mtabBad, garbage, next>>
        /\ pc' = pc /\ stages' = Tail(stages)
    BY <1>7 DEF DoMount, StageDone, handle
  <2> QED BY <1>0, <1>7, <2>1, <2>2, StageCases
<1>8. CASE RemoveEntry
  <2>1. Updating("remove") /\ pc = "set"
    BY <1>8 DEF RemoveEntry, Updating
  <2>2. /\ UNCHANGED <<upds, found, mtab, mtabBad, garbage, next>>
        /\ pc' = pc /\ stages' = Tail(stages)
    BY <1>8 DEF RemoveEntry, StageDone, handle
  <2> QED BY <1>0, <1>8, <2>1, <2>2, StageCases
<1>9. CASE UpdateDone
  <2>1. <<>> \in NoEntryLeft /\ <<>> \in NoMountLeft
    BY DEF NoEntryLeft, NoMountLeft
  <2> QED BY <1>0, <1>9, <2>1 DEF UpdateDone, handle
<1>10. CASE Finish
  BY <1>0, <1>10 DEF Finish, Give, handle
<1>11. CASE StageFails
  BY <1>0, <1>11 DEF StageFails, Updating, Give, handle
<1> QED BY <1>1, <1>2, <1>3, <1>4, <1>5, <1>6, <1>7, <1>8, <1>9, <1>10, <1>11 DEF MountStep

-----------------------------------------------------------------------------
(* What the steps do to the tree, the table and the mounts. *)

\* The tree is a list of nodes.
LEMMA TreeIsNodes ==
  ASSUME IndInv
  PROVE  /\ tree \in Seq(TreeNode)
         /\ \A n \in Mount : n # None
         /\ \A n \in Mount, d \in Device \cup {None}, b \in BOOLEAN : Node(n, d, b) \in TreeNode
         /\ \A x \in TreeNode : x.numbered \in BOOLEAN /\ Node(None, None, x.numbered) \in TreeNode
BY MountAssumption DEF IndInv, TypeOK, TreeNode, Node

\* handle::save leaves the file alone or writes the whole tree.
LEMMA SaveEffect ==
  ASSUME IndInv, Save
  PROVE  /\ UNCHANGED <<tree, mounted>>
         /\ \/ fstab' = fstab /\ ~ Puttable(tree, Device)
            \/ fstab' = Text(tree) /\ Text(tree) \in Seq(Entries) /\ ~ Torn /\ Puttable(tree, Device)
<1>1. UNCHANGED <<tree, mounted>> /\ fstab' = IF Puttable(tree, Device) THEN Text(tree) ELSE fstab
  BY DEF Save
<1>2. ASSUME Puttable(tree, Device) PROVE ~ Torn /\ Text(tree) \in Seq(Entries)
  <2>1. tree \in Seq(TreeNode) /\ DOMAIN tree = 1..Len(tree) /\ Len(tree) \in Nat
    BY TreeIsNodes
  <2>2. ~ Torn
    BY <1>2 DEF Puttable, Torn, Matches
  <2>3. \A i \in 1..Len(tree) : tree[i] \in TreeNode /\ tree[i].name # None /\ tree[i].data \in Device
    BY <1>2, <2>1 DEF Puttable
  <2>4. \A i \in 1..Len(tree) : Entry(tree[i].name, tree[i].data) \in Entries
    BY <2>3 DEF TreeNode, Entry, Entries
  <2>5. Text(tree) = [i \in 1..Len(tree) |-> Entry(tree[i].name, tree[i].data)]
    BY <2>1 DEF Text
  <2> DEFINE line(i) == Entry(tree[i].name, tree[i].data)
  <2>6. (\A i \in 1..Len(tree) : line(i) \in Entries) /\ Text(tree) = [i \in 1..Len(tree) |-> line(i)]
    BY <2>4, <2>5
  <2> HIDE DEF line
  <2> QED BY <2>1, <2>2, <2>6
<1> QED BY <1>1, <1>2

\* update_fstab on an absent mount: an error, or one more line.
LEMMA AddEffect ==
  ASSUME IndInv, AddEntry, NEW u, u = upds[next], NEW n, n = UpdateName(u),
         NEW d, d = Desired(u, "device")
  PROVE  /\ UNCHANGED <<fstab, mounted, next>> /\ ~ Present(u) /\ tree' \in Seq(TreeNode)
         /\ Torn => Torn'
         /\ \A m \in Mount : m # n => Read(m)' = Read(m)
         /\ \/ tree' = tree /\ pc' = "returned" /\ outcome' = "error"
            \/ /\ pc' = "set" /\ outcome' = outcome /\ stages' = Tail(stages)
               /\ Read(n)' = Append(Read(n), Entry(n, d))
               /\ Torn' => Torn
               /\ Read(n) = <<>> => \A i \in DOMAIN tree' : tree'[i].name = n => tree'[i].data = d
<1>1. Updating("fstab") /\ pc = "set" /\ next \in DOMAIN upds
  BY StageCases DEF AddEntry, Updating, IndInv
<1>3. /\ UNCHANGED <<fstab, mounted, next>> /\ ~ Present(u)
      /\ \/ tree' = tree /\ pc' = "returned" /\ outcome' = "error"
         \/ /\ pc' = "set" /\ outcome' = outcome /\ stages' = Tail(stages)
            /\ tree' = AppendNode(tree, n, d, garbage)
  BY <1>1 DEF AddEntry, Give, StageDone
<1>4. CASE tree' = tree /\ pc' = "returned" /\ outcome' = "error"
  BY <1>3, <1>4, TreeIsNodes DEF Read, Torn
<1>5. CASE /\ pc' = "set" /\ outcome' = outcome /\ stages' = Tail(stages)
           /\ tree' = AppendNode(tree, n, d, garbage)
  <2>1. n \in Mount /\ n # None /\ d \in Device \cup {None}
    BY <1>1, TreeIsNodes DEF IndInv, UpdsOK
  <2>2. tree \in Seq(TreeNode) /\ Node(n, d, ~ garbage) \in TreeNode
    BY <2>1, TreeIsNodes
  <2>3. /\ tree' \in Seq(TreeNode)
        /\ Under(Text(tree'), n) = Append(Under(Text(tree), n), Entry(n, d))
        /\ Matches(tree', n) = Matches(tree, n) \cup {Len(tree) + 1}
        /\ \A m : m # n => Under(Text(tree'), m) = Under(Text(tree), m)
        /\ \A m : m # n => Matches(tree', m) = Matches(tree, m)
        /\ tree'[Len(tree) + 1] = Node(n, d, ~ garbage)
    <3> DEFINE w == AppendNode(tree, n, d, garbage)
    <3>1. /\ w \in Seq(TreeNode)
          /\ Under(Text(w), n) = Append(Under(Text(tree), n), Entry(n, d))
          /\ Matches(w, n) = Matches(tree, n) \cup {Len(tree) + 1}
          /\ \A m : m # n => Under(Text(w), m) = Under(Text(tree), m)
          /\ \A m : m # n => Matches(w, m) = Matches(tree, m)
          /\ w[Len(tree) + 1] = Node(n, d, ~ garbage)
      BY <2>2, TextAppend
    <3> HIDE DEF w
    <3>2. tree' = w
      BY <1>5 DEF w
    <3> QED BY <3>1, <3>2
  <2>4. Torn' <=> Torn
    BY <2>1, <2>3 DEF Torn
  <2>5. \A m \in Mount : m # n => Read(m)' = Read(m)
    BY <2>3 DEF Read, Lines
  <2>6. Read(n)' = Append(Read(n), Entry(n, d))
    BY <2>3 DEF Read, Lines
  <2>7. ASSUME Read(n) = <<>> PROVE \A i \in DOMAIN tree' : tree'[i].name = n => tree'[i].data = d
    <3>1. Matches(tree, n) = {}
      BY <2>2, <2>7, TextMatches DEF Read, Lines
    <3>2. Matches(tree', n) = {Len(tree) + 1}
      BY <2>3, <3>1
    <3> QED BY <2>3, <3>2 DEF Matches, Node
  <2> QED BY <1>3, <1>5, <2>3, <2>4, <2>5, <2>6, <2>7
<1> QED BY <1>3, <1>4, <1>5

\* update_fstab on a mount that was there: its only line rewritten; without a
\* line nothing, and with several a tree that no lens puts.
LEMMA RewriteEffect ==
  ASSUME IndInv, RewriteEntry, NEW u, u = upds[next], NEW n, n = UpdateName(u),
         NEW d, d = Desired(u, "device")
  PROVE  /\ UNCHANGED <<fstab, mounted, next>> /\ Present(u) /\ tree' \in Seq(TreeNode)
         /\ Torn => Torn'
         /\ \A m \in Mount : m # n => Read(m)' = Read(m)
         /\ \/ Len(Read(n)) = 1 /\ Read(n)' = <<Entry(n, d)>> /\ pc' = "set"
            \/ Len(Read(n)) # 1 /\ Read(n)' = <<>> /\ (~ Torn' => Read(n) = <<>>)
         /\ \A i \in DOMAIN tree' : tree'[i].name = n => tree'[i].data = d
         /\ \/ pc' = "returned" /\ outcome' = "error"
            \/ pc' = "set" /\ outcome' = outcome /\ stages' = Tail(stages)
<1>1. Updating("fstab") /\ pc = "set" /\ next \in DOMAIN upds
  BY StageCases DEF RewriteEntry, Updating, IndInv
<1>2. n \in Mount /\ n # None /\ d \in Device \cup {None} /\ tree \in Seq(TreeNode)
  BY <1>1, TreeIsNodes DEF IndInv, UpdsOK
<1>3. /\ UNCHANGED <<fstab, mounted, next>> /\ Present(u)
      /\ \/ pc' = "returned" /\ outcome' = "error"
         \/ pc' = "set" /\ outcome' = outcome /\ stages' = Tail(stages)
      /\ \/ /\ Cardinality(Matches(tree, n)) = 1 /\ pc' = "set"
            /\ tree' = Rewrite(tree, CHOOSE i \in Matches(tree, n) : TRUE, n, d)
         \/ Cardinality(Matches(tree, n)) # 1 /\ tree' = Erase(tree, n)
  BY <1>1 DEF RewriteEntry, Give, StageDone
<1>4. IsFiniteSet(Matches(tree, n)) /\ Len(Read(n)) = Cardinality(Matches(tree, n))
  BY <1>2, TextMatches DEF Read, Lines
<1>5. CASE /\ Cardinality(Matches(tree, n)) = 1 /\ pc' = "set"
           /\ tree' = Rewrite(tree, CHOOSE i \in Matches(tree, n) : TRUE, n, d)
  <2>1. PICK i : Matches(tree, n) = {i}
    BY <1>4, <1>5, FS_Singleton
  <2>2. (CHOOSE j \in Matches(tree, n) : TRUE) = i
    BY <2>1
  <2>3. \A x \in TreeNode : Node(n, d, x.numbered) \in TreeNode
    BY <1>2, TreeIsNodes
  <2>4. /\ tree' \in Seq(TreeNode)
        /\ Under(Text(tree'), n) = <<Entry(n, d)>>
        /\ \A m : m # n => Under(Text(tree'), m) = Under(Text(tree), m)
        /\ \A m : Matches(tree', m) = Matches(tree, m)
        /\ tree'[i].data = d
    <3> DEFINE w == Rewrite(tree, i, n, d)
    <3>1. /\ w \in Seq(TreeNode)
          /\ Under(Text(w), n) = <<Entry(n, d)>>
          /\ \A m : m # n => Under(Text(w), m) = Under(Text(tree), m)
          /\ \A m : Matches(w, m) = Matches(tree, m)
          /\ w[i].data = d
      <4>1. tree \in Seq(TreeNode) /\ i \in Matches(tree, n) /\ \A j \in Matches(tree, n) : j = i
        BY <1>2, <2>1
      <4>2. w \in Seq(TreeNode) /\ Under(Text(w), n) = <<Entry(n, d)>> /\ w[i].data = d
        BY <4>1, <2>3, LinesAfterRewrite
      <4>3. \A m : m # n => Under(Text(w), m) = Under(Text(tree), m)
        BY <4>1, <2>3, LinesAfterRewrite
      <4>4. \A m : Matches(w, m) = Matches(tree, m)
        BY <4>1, <2>3, LinesAfterRewrite
      <4> QED BY <4>2, <4>3, <4>4
    <3>2. tree' = w
      BY <1>5, <2>2
    <3> HIDE DEF w
    <3> QED BY <3>1, <3>2
  <2>5. \A j \in DOMAIN tree' : tree'[j].name = n => tree'[j].data = d
    <3>1. Matches(tree', n) = {i}
      BY <2>1, <2>4
    <3> QED BY <2>4, <3>1 DEF Matches
  <2>6. Torn' <=> Torn
    BY <2>4 DEF Torn
  <2>7. Read(n)' = <<Entry(n, d)>> /\ \A m \in Mount : m # n => Read(m)' = Read(m)
    BY <2>4 DEF Read, Lines
  <2> QED BY <1>3, <1>4, <1>5, <2>4, <2>5, <2>6, <2>7
<1>6. CASE Cardinality(Matches(tree, n)) # 1 /\ tree' = Erase(tree, n)
  <2>1. \A x \in TreeNode : Node(None, None, x.numbered) \in TreeNode
    BY TreeIsNodes
  <2>2. /\ tree' \in Seq(TreeNode)
        /\ Under(Text(tree'), n) = <<>> /\ Matches(tree', n) = {}
        /\ \A m : m # None /\ m # n => Under(Text(tree'), m) = Under(Text(tree), m)
        /\ Matches(tree', None) = {} => Matches(tree, n) = {} /\ Matches(tree, None) = {}
    BY <1>2, <1>6, <2>1, LinesAfterErase
  <2>3. \A j \in DOMAIN tree' : tree'[j].name = n => tree'[j].data = d
    BY <2>2 DEF Matches
  <2>4. (Torn => Torn') /\ (~ Torn' => Read(n) = <<>>)
    BY <1>2, <2>2, TextMatches DEF Torn, Read, Lines
  <2>5. Read(n)' = <<>> /\ \A m \in Mount : m # n => Read(m)' = Read(m)
    BY <1>2, <2>2, TreeIsNodes DEF Read, Lines
  <2> QED BY <1>3, <1>4, <1>6, <2>2, <2>3, <2>4, <2>5
<1> QED BY <1>3, <1>5, <1>6

\* remove_from_fstab: no line is left; for an absent mount nothing is done.
LEMMA RemoveEffect ==
  ASSUME IndInv, RemoveEntry, NEW u, u = upds[next], NEW n, n = UpdateName(u)
  PROVE  /\ UNCHANGED <<fstab, mounted, next, outcome>> /\ tree' \in Seq(TreeNode)
         /\ EnsureOf(u) = "absent"
         /\ pc' = "set" /\ stages' = <<>>
         /\ Torn' <=> Torn
         /\ \A m \in Mount : m # n => Read(m)' = Read(m)
         /\ \/ ~ Present(u) /\ Read(n)' = Read(n)
            \/ Present(u) /\ Read(n)' = <<>>
<1>1. /\ Updating("remove") /\ pc = "set" /\ next \in DOMAIN upds /\ EnsureOf(u) = "absent"
      /\ Tail(stages) = <<>>
  BY StageCases DEF RemoveEntry, Updating, IndInv
<1>2. n \in Mount /\ n # None /\ tree \in Seq(TreeNode)
  BY <1>1, TreeIsNodes DEF IndInv, UpdsOK
<1>3. /\ UNCHANGED <<fstab, mounted, next, outcome>> /\ pc' = "set" /\ stages' = <<>>
      /\ tree' = IF Present(u) THEN Rm(tree, n) ELSE tree
  BY <1>1 DEF RemoveEntry, StageDone
<1>4. CASE ~ Present(u)
  BY <1>1, <1>2, <1>3, <1>4 DEF Read, Torn
<1>5. CASE Present(u)
  <2>1. /\ tree' \in Seq(TreeNode)
        /\ Under(Text(tree'), n) = <<>>
        /\ \A m : m # n => Under(Text(tree'), m) = Under(Text(tree), m)
        /\ \A m : m # n => (Matches(tree', m) = {} <=> Matches(tree, m) = {})
    <3> DEFINE w == Rm(tree, n)
    <3>1. /\ w \in Seq(TreeNode)
          /\ Under(Text(w), n) = <<>>
          /\ \A m : m # n => Under(Text(w), m) = Under(Text(tree), m)
          /\ \A m : m # n => (Matches(w, m) = {} <=> Matches(tree, m) = {})
      BY <1>2, LinesAfterRm
    <3>2. tree' = w
      BY <1>3, <1>5
    <3> HIDE DEF w
    <3> QED BY <3>1, <3>2
  <2>2. Torn' <=> Torn
    BY <1>2, <2>1 DEF Torn
  <2>3. Read(n)' = <<>> /\ \A m \in Mount : m # n => Read(m)' = Read(m)
    BY <2>1 DEF Read, Lines
  <2> QED BY <1>1, <1>3, <1>5, <2>1, <2>2, <2>3
<1> QED BY <1>4, <1>5

\* umount and mount change what is mounted at one mount point.
LEMMA MountEffect ==
  ASSUME IndInv, Unmount \/ DoMount, NEW u, u = upds[next], NEW n, n = UpdateName(u)
  PROVE  /\ UNCHANGED <<fstab, tree, next, outcome>> /\ pc' = "set" /\ n \in Mount
         /\ mounted' \in [Mount -> Device \cup {None}]
         /\ \A m \in Mount : m # n => mounted'[m] = mounted[m]
         /\ Unmount =>
              /\ EnsureOf(u) \in {"absent", "unmounted"}
              /\ \/ StateOf(u) \in {"unmounted", "absent"} /\ mounted' = mounted
                 \/ mounted'[n] = None
         /\ DoMount =>
              /\ EnsureOf(u) = "mounted" /\ stages = <<"mount">>
              /\ \/ StateOf(u) = "mounted" /\ mounted' = mounted
                 \/ \E i \in DOMAIN fstab : /\ fstab[i].name = n /\ fstab[i].data \in Device
                                           /\ mounted'[n] = fstab[i].data
<1>1. /\ pc = "set" /\ next \in DOMAIN upds
      /\ Unmount => EnsureOf(u) \in {"absent", "unmounted"}
      /\ DoMount => EnsureOf(u) = "mounted" /\ stages = <<"mount">>
  <2>1. CASE Unmount
    <3>1. Updating("umount") /\ StagesOK /\ ~ DoMount
      BY <2>1 DEF Unmount, DoMount, IndInv, Updating
    <3> QED BY <3>1, StageCases
  <2>2. CASE DoMount
    <3>1. Updating("mount") /\ StagesOK /\ ~ Unmount
      BY <2>2 DEF Unmount, DoMount, IndInv, Updating
    <3> QED BY <3>1, StageCases
  <2> QED BY <2>1, <2>2
<1>2. n \in Mount
  BY <1>1 DEF IndInv, UpdsOK
<1>3. mounted \in [Mount -> Device \cup {None}] /\ fstab \in Seq(Entries)
  BY DEF IndInv, TypeOK
<1>4. UNCHANGED <<fstab, tree, next, outcome>> /\ pc' = "set"
  BY <1>1 DEF Unmount, DoMount
<1>5. CASE Unmount
  <2>1. \/ StateOf(u) \in {"unmounted", "absent"} /\ mounted' = mounted
        \/ mounted' = [mounted EXCEPT ![n] = None]
    BY <1>5 DEF Unmount
  <2>2. ~ DoMount
    BY <1>5 DEF Unmount, DoMount, Updating
  <2> QED BY <1>1, <1>2, <1>3, <1>4, <2>1, <2>2
<1>6. CASE DoMount
  <2>1. \/ StateOf(u) = "mounted" /\ mounted' = mounted
        \/ \E i \in DOMAIN fstab : fstab[i].name = n /\ mounted' = [mounted EXCEPT ![n] = fstab[i].data]
    BY <1>6 DEF DoMount
  <2>2. ~ Unmount
    BY <1>6 DEF Unmount, DoMount, Updating
  <2>3. \A i \in DOMAIN fstab : fstab[i].data \in Device
    <3>1. \A i \in DOMAIN fstab : fstab[i] \in Entries
      BY <1>3
    <3> QED BY <3>1 DEF Entries
  <2> QED BY <1>1, <1>2, <1>3, <1>4, <2>1, <2>2, <2>3
<1> QED BY <1>5, <1>6

\* What handle::save, in flush() or at the end, leaves when it answers.
LEMMA FlushEffect ==
  ASSUME IndInv, Flush \/ Finish
  PROVE  /\ UNCHANGED <<tree, mounted, next>>
         /\ \/ fstab' = fstab
            \/ fstab' = Text(tree) /\ Text(tree) \in Seq(Entries) /\ ~ Torn
         /\ pc' \in {"set", "returned"} /\ outcome' \in {outcome, "ok", "error"}
         /\ pc' = "set" => /\ Updating("flush") /\ stages' = Tail(stages) /\ fstab' = Text(tree)
                           /\ outcome' = outcome
         /\ outcome' = "ok" => outcome = "ok" \/ (pc' = "returned" /\ fstab' = Text(tree) /\ next \notin DOMAIN upds)
<1>1. /\ UNCHANGED <<tree, mounted, next>>
      /\ \/ fstab' = fstab /\ ~ Saves
         \/ fstab' = Text(tree) /\ Text(tree) \in Seq(Entries) /\ ~ Torn
  <2>1. Save /\ UNCHANGED next /\ (Saves => Puttable(tree, Device))
    BY DEF Flush, Finish, Saves
  <2> QED BY <2>1, SaveEffect
<1>2. CASE Flush
  <2>1. /\ Updating("flush") /\ pc = "set"
        /\ \/ Saves /\ stages' = Tail(stages) /\ UNCHANGED <<pc, outcome>>
           \/ pc' = "returned" /\ outcome' = "error"
    BY <1>2 DEF Flush, Updating, StageDone, Give
  <2> QED BY <1>1, <2>1
<1>3. CASE Finish
  <2>1. /\ next \notin DOMAIN upds /\ pc' = "returned"
        /\ outcome' = IF Saves THEN "ok" ELSE "error"
    BY <1>3 DEF Finish, Give
  <2> QED BY <1>1, <2>1
<1> QED BY <1>2, <1>3

\* The other steps of a call leave the table, the mounts and the tree alone.
LEMMA QuietEffect ==
  ASSUME Begin \/ IllegalEnsure \/ UpdateDone \/ StageFails
  PROVE  /\ UNCHANGED <<fstab, mounted, tree>>
         /\ outcome' \in {outcome, "error"}
         /\ UpdateDone \/ next' = next
BY DEF Begin, IllegalEnsure, UpdateDone, StageFails, Give, system

\* What is known of the update in hand while its entry, or its mount, waits.
LEMMA InHand ==
  ASSUME IndInv, InCall, Distinct, next \in DOMAIN upds,
         NEW u, u = upds[next], NEW n, n = UpdateName(u)
  PROVE  /\ n \in Mount
         /\ EntryLeft(next) =>
              /\ Fresh => Read(n) = Was(n)
              /\ ~ Present(u) => Read(n) = <<>>
         /\ MountLeft(next) /\ Fresh => mounted[n] = found.mounted[n]
         /\ \A i \in DOMAIN upds : i # next => UpdateName(upds[i]) # n
<1>1. n \in Mount
  BY DEF IndInv, UpdsOK
<1>2. \A i \in DOMAIN upds : i # next => UpdateName(upds[i]) # n
  BY DEF Distinct
<1>3. ASSUME EntryLeft(next)
      PROVE  /\ Fresh => Read(n) = Was(n)
             /\ ~ Present(u) => Read(n) = <<>>
  <2>1. EntryNotYet(n)
    BY <1>2, <1>3 DEF EntryNotYet
  <2> QED BY <1>1, <2>1 DEF IndInv, EntriesKept
<1>4. ASSUME MountLeft(next), Fresh PROVE mounted[n] = found.mounted[n]
  <2>1. MountNotYet(n)
    BY <1>2, <1>4 DEF MountNotYet
  <2> QED BY <1>1, <1>4, <2>1 DEF IndInv, MountsKept
<1> QED BY <1>1, <1>2, <1>3, <1>4

\* The stage of the update in hand, for the three steps that deal with its entry
\* and the two that deal with its mount.
LEMMA HandStage ==
  ASSUME IndInv
  PROVE  /\ AddEntry \/ RewriteEntry =>
              /\ pc = "set" /\ next \in DOMAIN upds /\ EntryLeft(next) /\ ~ EntryMade(next)
              /\ EnsureOf(upds[next]) \in {"present", "unmounted", "mounted"}
              /\ Tail(stages) \in NoEntryLeft
         /\ RemoveEntry =>
              /\ pc = "set" /\ next \in DOMAIN upds /\ EntryLeft(next) /\ ~ EntryMade(next)
              /\ MountMade(next) /\ <<>> \in NoEntryLeft
         /\ Unmount \/ DoMount =>
              /\ pc = "set" /\ next \in DOMAIN upds /\ MountLeft(next) /\ ~ MountMade(next)
              /\ stages' = Tail(stages) /\ Tail(stages) \in NoMountLeft
<1> USE DEF EntryLeft, EntryMade, MountLeft, MountMade, EntryDealt, MountDealt
<1>0. StagesOK /\ next \in Nat
  BY DEF IndInv, TypeOK
<1>1. ASSUME AddEntry \/ RewriteEntry
      PROVE  /\ pc = "set" /\ next \in DOMAIN upds /\ EntryLeft(next) /\ ~ EntryMade(next)
             /\ EnsureOf(upds[next]) \in {"present", "unmounted", "mounted"}
             /\ Tail(stages) \in NoEntryLeft
  <2>1. Updating("fstab")
    BY <1>1 DEF AddEntry, RewriteEntry
  <2> QED BY <1>0, <2>1, StageCases
<1>2. ASSUME RemoveEntry
      PROVE  /\ pc = "set" /\ next \in DOMAIN upds /\ EntryLeft(next) /\ ~ EntryMade(next)
             /\ MountMade(next) /\ <<>> \in NoEntryLeft
  <2>1. Updating("remove")
    BY <1>2 DEF RemoveEntry
  <2>2. /\ pc = "set" /\ next \in DOMAIN upds /\ stages \notin NoEntryLeft
        /\ Tail(stages) \in NoEntryLeft /\ stages \in NoMountLeft /\ Tail(stages) = <<>>
    BY <1>0, <2>1, StageCases
  <2>3. <<>> \in NoEntryLeft
    BY DEF NoEntryLeft
  <2> QED BY <1>0, <2>2, <2>3
<1>3. ASSUME Unmount
      PROVE  /\ pc = "set" /\ next \in DOMAIN upds /\ MountLeft(next) /\ ~ MountMade(next)
             /\ stages' = Tail(stages) /\ Tail(stages) \in NoMountLeft
  <2>1. Updating("umount") /\ stages' = Tail(stages)
    BY <1>3 DEF Unmount, StageDone
  <2> QED BY <1>0, <2>1, StageCases
<1>4. ASSUME DoMount
      PROVE  /\ pc = "set" /\ next \in DOMAIN upds /\ MountLeft(next) /\ ~ MountMade(next)
             /\ stages' = Tail(stages) /\ Tail(stages) \in NoMountLeft
  <2>1. Updating("mount") /\ stages' = Tail(stages)
    BY <1>4 DEF DoMount, StageDone
  <2> QED BY <1>0, <2>1, StageCases
<1> QED BY <1>1, <1>2, <1>3, <1>4

-----------------------------------------------------------------------------
(* The steps of a call keep each part of the invariant. *)

EntrySteps == AddEntry \/ RewriteEntry \/ RemoveEntry

MountSteps == Unmount \/ DoMount

SaveSteps == Flush \/ Finish

QuietSteps == Begin \/ IllegalEnsure \/ UpdateDone \/ StageFails

LEMMA FourKinds == MountStep <=> EntrySteps \/ MountSteps \/ SaveSteps \/ QuietSteps
BY DEF MountStep, EntrySteps, MountSteps, SaveSteps, QuietSteps

\* What the three entry steps have in common.
LEMMA EntryEffect ==
  ASSUME IndInv, EntrySteps, NEW u, u = upds[next], NEW n, n = UpdateName(u),
         NEW d, d = Desired(u, "device")
  PROVE  /\ UNCHANGED <<fstab, mounted, next>> /\ tree' \in Seq(TreeNode) /\ (Torn => Torn')
         /\ pc = "set" /\ next \in DOMAIN upds /\ EntryLeft(next) /\ ~ EntryMade(next)
         /\ \A m \in Mount : m # n => Read(m)' = Read(m)
         /\ \/ pc' = "returned" /\ outcome' = "error"
            \/ /\ pc' = "set" /\ outcome' = outcome
               /\ stages' = Tail(stages) /\ stages' \in NoEntryLeft
<1>1. CASE AddEntry
  <2>1. pc = "set" /\ next \in DOMAIN upds /\ EntryLeft(next) /\ ~ EntryMade(next)
        /\ Tail(stages) \in NoEntryLeft
    BY <1>1, HandStage
  <2> QED BY <1>1, <2>1, AddEffect
<1>2. CASE RewriteEntry
  <2>1. pc = "set" /\ next \in DOMAIN upds /\ EntryLeft(next) /\ ~ EntryMade(next)
        /\ Tail(stages) \in NoEntryLeft
    BY <1>2, HandStage
  <2> QED BY <1>2, <2>1, RewriteEffect
<1>3. CASE RemoveEntry
  <2>1. /\ pc = "set" /\ next \in DOMAIN upds /\ EntryLeft(next) /\ ~ EntryMade(next)
        /\ <<>> \in NoEntryLeft
    BY <1>3, HandStage
  <2>2. stages' = Tail(stages)
    BY <1>3 DEF RemoveEntry, StageDone
  <2>3. /\ UNCHANGED <<fstab, mounted, next, outcome>> /\ tree' \in Seq(TreeNode)
        /\ pc' = "set" /\ stages' = <<>> /\ (Torn' <=> Torn)
        /\ \A m \in Mount : m # n => Read(m)' = Read(m)
    BY <1>3, RemoveEffect
  <2>4. stages' \in NoEntryLeft
    BY <2>3 DEF NoEntryLeft
  <2> QED BY <2>1, <2>2, <2>3, <2>4
<1> QED BY <1>1, <1>2, <1>3 DEF EntrySteps

LEMMA TypesStep ==
  ASSUME IndInv, MountStep
  PROVE  TypeOK' /\ UpdsOK' /\ FoundOK' /\ LookedUp'
<1>1. UNCHANGED <<upds, found, mtab, mtabBad, garbage>> /\ pc # "idle" /\ pc' # "idle" /\ InCall
  BY Progress
<1>2. UpdsOK' /\ FoundOK'
  BY <1>1 DEF IndInv, UpdsOK, FoundOK, UpdateName, Desired, Lookup, StateOf, Present
<1>3. LookedUp'
  BY <1>1 DEF IndInv, LookedUp, Fresh, Was, Lines, UpdateName, StateOf, Lookup
<1>4. /\ fstab' \in Seq(Entries) /\ mounted' \in [Mount -> Device \cup {None}]
      /\ tree' \in Seq(TreeNode)
      /\ pc' \in {"begin", "set", "returned"} /\ outcome' \in {"none", "ok", "error"}
  <2>0. /\ fstab \in Seq(Entries) /\ mounted \in [Mount -> Device \cup {None}]
        /\ tree \in Seq(TreeNode) /\ outcome \in {"none", "ok", "error"}
    BY DEF IndInv, TypeOK, TreeNode
  <2>1. CASE EntrySteps
    <3>1. PICK u : u = upds[next]
      OBVIOUS
    <3>2. PICK n : n = UpdateName(u)
      OBVIOUS
    <3>3. PICK d : d = Desired(u, "device")
      OBVIOUS
    <3> QED BY <2>0, <2>1, <3>1, <3>2, <3>3, EntryEffect
  <2>2. CASE MountSteps
    <3>1. PICK u : u = upds[next]
      OBVIOUS
    <3>2. PICK n : n = UpdateName(u)
      OBVIOUS
    <3> QED BY <2>0, <2>2, <3>1, <3>2, MountEffect DEF MountSteps
  <2>3. CASE SaveSteps
    BY <2>0, <2>3, FlushEffect DEF SaveSteps
  <2>4. CASE QuietSteps
    <3>1. pc' \in {"begin", "set", "returned"}
      BY <2>4 DEF QuietSteps, Begin, IllegalEnsure, UpdateDone, StageFails, Give
    <3> QED BY <2>0, <2>4, <3>1, QuietEffect DEF QuietSteps
  <2> QED BY <2>1, <2>2, <2>3, <2>4, FourKinds
<1>5. next' \in 1..(Len(upds') + 1)
  <2>1. next \in 1..(Len(upds) + 1) /\ DOMAIN upds = 1..Len(upds) /\ Len(upds) \in Nat /\ StagesOK
    BY DEF IndInv, TypeOK, UpdsOK
  <2>2. next' = next \/ (UpdateDone /\ next' = next + 1)
    BY DEF MountStep, Begin, IllegalEnsure, AddEntry, RewriteEntry, Flush, Unmount, DoMount,
           RemoveEntry, UpdateDone, Finish, StageFails
  <2>3. UpdateDone => next \in DOMAIN upds
    BY <2>1 DEF UpdateDone, StagesOK
  <2> QED BY <1>1, <2>1, <2>2, <2>3
<1>6. mtab' \in [Mount -> Device \cup {None}]
  BY <1>1 DEF IndInv, TypeOK
<1> QED BY <1>2, <1>3, <1>4, <1>5, <1>6 DEF TypeOK, TreeNode

LEMMA StagesStep ==
  ASSUME IndInv, MountStep
  PROVE  StagesOK'
<1>0. StagesOK /\ UNCHANGED upds
  BY Progress DEF IndInv
<1>1. CASE Begin
  <2>1. /\ pc' = "set" /\ next' = next /\ next \in DOMAIN upds
        /\ stages' = Stages(EnsureOf(upds[next]))
    BY <1>1 DEF Begin
  <2> DEFINE e == EnsureOf(upds[next])
  <2>2. \/ e = "present" /\ stages' = <<"fstab">>
        \/ e = "absent" /\ stages' = <<"flush", "umount", "remove">>
        \/ e = "unmounted" /\ stages' = <<"flush", "umount", "fstab">>
        \/ e = "mounted" /\ stages' = <<"fstab", "flush", "mount">>
        \/ e \notin {"present", "absent", "unmounted", "mounted"} /\ stages' = <<"illegal">>
    BY <2>1, StagesStart
  <2>3. e = EnsureOf(upds[next])'
    BY <1>0, <2>1 DEF EnsureOf, StateOf, Lookup
  <2> HIDE DEF e
  <2> QED BY <1>0, <2>1, <2>2, <2>3 DEF StagesOK
<1>2. CASE pc' # "set"
  BY <1>2 DEF StagesOK
<1>3. CASE pc' = "set" /\ ~ Begin
  <2>1. PICK s : Updating(s) /\ s \in {"fstab", "flush", "umount", "mount", "remove"}
    BY <1>3 DEF MountStep, IllegalEnsure, AddEntry, RewriteEntry, Flush, Unmount, DoMount,
           RemoveEntry, UpdateDone, Finish, StageFails, Give
  <2>2. stages' = Tail(stages) /\ next' = next
    BY <1>3 DEF MountStep, IllegalEnsure, AddEntry, RewriteEntry, Flush, Unmount, DoMount,
           RemoveEntry, UpdateDone, Finish, StageFails, Give, StageDone
  <2> DEFINE e == EnsureOf(upds[next])
             t == Tail(stages)
  <2>3. \/ e = "present" /\ t \in {<<"fstab">>, <<>>}
        \/ e = "absent" /\ t \in {<<"flush", "umount", "remove">>, <<"umount", "remove">>,
                                   <<"remove">>, <<>>}
        \/ e = "unmounted" /\ t \in {<<"flush", "umount", "fstab">>, <<"umount", "fstab">>,
                                      <<"fstab">>, <<>>}
        \/ e = "mounted" /\ t \in {<<"fstab", "flush", "mount">>, <<"flush", "mount">>,
                                    <<"mount">>, <<>>}
    <3>1. StagesOK /\ Updating(s)
      BY <1>0, <2>1
    <3>3. ASSUME Updating("fstab")
          PROVE  /\ e \in {"present", "unmounted", "mounted"}
                 /\ \/ e # "mounted" /\ t = <<>>
                    \/ e = "mounted" /\ t = <<"flush", "mount">>
      BY <3>1, <3>3, StageCases
    <3>4. ASSUME Updating("flush")
          PROVE  \/ e = "absent" /\ t = <<"umount", "remove">>
                 \/ e = "unmounted" /\ t = <<"umount", "fstab">>
                 \/ e = "mounted" /\ t = <<"mount">>
      BY <3>1, <3>4, StageCases
    <3>5. ASSUME Updating("umount")
          PROVE  \/ e = "absent" /\ t = <<"remove">>
                 \/ e = "unmounted" /\ t = <<"fstab">>
      BY <3>1, <3>5, StageCases
    <3>6. ASSUME Updating("mount") PROVE e = "mounted" /\ t = <<>>
      BY <3>1, <3>6, StageCases
    <3>7. ASSUME Updating("remove") PROVE e = "absent" /\ t = <<>>
      BY <3>1, <3>7, StageCases
    <3> HIDE DEF e, t
    <3>8. CASE Updating("fstab")
      BY <3>3, <3>8
    <3>9. CASE Updating("flush")
      BY <3>4, <3>9
    <3>10. CASE Updating("umount")
      BY <3>5, <3>10
    <3>11. CASE Updating("mount")
      BY <3>6, <3>11
    <3>12. CASE Updating("remove")
      BY <3>7, <3>12
    <3> QED BY <2>1, <3>8, <3>9, <3>10, <3>11, <3>12
  <2>4. e = EnsureOf(upds[next])' /\ stages' = t
    BY <1>0, <2>2 DEF EnsureOf, StateOf, Lookup
  <2>5. next' \in DOMAIN upds'
    BY <1>0, <2>1, <2>2 DEF StagesOK, Updating
  <2> HIDE DEF e, t
  <2> QED BY <2>3, <2>4, <2>5 DEF StagesOK
<1> QED BY <1>1, <1>2, <1>3

\* Fresh, Distinct and Was are settled when the call begins.
LEMMA Settled ==
  ASSUME IndInv, MountStep
  PROVE  /\ Fresh' <=> Fresh
         /\ Distinct' <=> Distinct
         /\ \A n \in Mount : Was(n)' = Was(n)
         /\ UNCHANGED <<upds, found>> /\ DOMAIN upds' = DOMAIN upds
BY Progress DEF Fresh, Distinct, Was, Lines, UpdateName

LEMMA EntriesKeptStep ==
  ASSUME IndInv, MountStep
  PROVE  EntriesKept'
<1> SUFFICES ASSUME InCall', NEW n \in Mount, EntryNotYet(n)'
             PROVE  /\ Fresh' => Read(n)' = Was(n)' /\ Lines(fstab', n) = Was(n)'
                    /\ \A i \in DOMAIN upds' :
                         UpdateName(upds[i])' = n /\ ~ Present(upds[i])' => Read(n)' = <<>>
  BY DEF EntriesKept, Lines
<1>1. UNCHANGED <<upds, found>> /\ InCall /\ Was(n)' = Was(n) /\ (Fresh' <=> Fresh)
  BY Progress, Settled
<1>2. EntryNotYet(n)
  <2>1. \A i \in DOMAIN upds : EntryLeft(i)' => EntryLeft(i)
    BY Progress
  <2>2. ASSUME NEW i \in DOMAIN upds, UpdateName(upds[i]) = n PROVE EntryLeft(i)
    <3>1. UpdateName(upds[i])' = n /\ i \in DOMAIN upds'
      BY <1>1, <2>2 DEF UpdateName
    <3>2. EntryLeft(i)'
      BY <3>1 DEF EntryNotYet
    <3> QED BY <2>1, <3>2
  <2> QED BY <2>2 DEF EntryNotYet
<1>3. /\ Fresh => Read(n) = Was(n) /\ Lines(fstab, n) = Was(n)
      /\ \A i \in DOMAIN upds : UpdateName(upds[i]) = n /\ ~ Present(upds[i]) => Read(n) = <<>>
  BY <1>1, <1>2 DEF IndInv, EntriesKept
<1>4. Read(n)' = Read(n) /\ (Lines(fstab', n) = Lines(fstab, n) \/ Lines(fstab', n) = Read(n))
  <2>1. CASE EntrySteps
    <3>1. PICK u : u = upds[next]
      OBVIOUS
    <3>2. PICK m : m = UpdateName(u)
      OBVIOUS
    <3>3. PICK d : d = Desired(u, "device")
      OBVIOUS
    <3>4. /\ UNCHANGED <<fstab, next>> /\ next \in DOMAIN upds
          /\ n # m => Read(n)' = Read(n)
          /\ pc' = "returned" \/ (pc' = "set" /\ stages' \in NoEntryLeft)
      BY <2>1, <3>1, <3>2, <3>3, EntryEffect
    <3>5. ~ EntryLeft(next)'
      BY <3>4 DEF EntryLeft, EntryDealt, IndInv, TypeOK
    <3>6. n # m
      BY <1>1, <3>1, <3>2, <3>4, <3>5 DEF EntryNotYet, UpdateName
    <3> QED BY <3>4, <3>6
  <2>2. CASE MountSteps
    <3>1. UNCHANGED <<fstab, tree>>
      BY <2>2 DEF MountSteps, Unmount, DoMount
    <3> QED BY <3>1 DEF Read, Lines
  <2>3. CASE SaveSteps
    BY <2>3, FlushEffect DEF SaveSteps, Read, Lines
  <2>4. CASE QuietSteps
    BY <2>4, QuietEffect DEF QuietSteps, Read, Lines
  <2> QED BY <2>1, <2>2, <2>3, <2>4, FourKinds
<1> QED BY <1>1, <1>3, <1>4 DEF UpdateName, Present, Lookup

LEMMA MountsKeptStep ==
  ASSUME IndInv, MountStep
  PROVE  MountsKept'
<1> SUFFICES ASSUME InCall', Fresh', NEW n \in Mount, MountNotYet(n)'
             PROVE  mounted'[n] = found'.mounted[n]
  BY DEF MountsKept
<1>1. UNCHANGED <<upds, found>> /\ InCall /\ Fresh
  BY Progress, Settled
<1>2. MountNotYet(n)
  <2>1. \A i \in DOMAIN upds : MountLeft(i)' => MountLeft(i)
    BY Progress
  <2>2. ASSUME NEW i \in DOMAIN upds, UpdateName(upds[i]) = n PROVE MountLeft(i)
    <3>1. UpdateName(upds[i])' = n /\ i \in DOMAIN upds'
      BY <1>1, <2>2 DEF UpdateName
    <3>2. MountLeft(i)'
      BY <3>1 DEF MountNotYet
    <3> QED BY <2>1, <3>2
  <2> QED BY <2>2 DEF MountNotYet
<1>3. mounted[n] = found.mounted[n]
  BY <1>1, <1>2 DEF IndInv, MountsKept
<1>4. mounted'[n] = mounted[n]
  <2>1. CASE EntrySteps
    BY <2>1 DEF EntrySteps, AddEntry, RewriteEntry, RemoveEntry
  <2>2. CASE MountSteps
    <3>1. PICK u : u = upds[next]
      OBVIOUS
    <3>2. PICK m : m = UpdateName(u)
      OBVIOUS
    <3>3. /\ UNCHANGED next /\ next \in DOMAIN upds /\ pc' = "set"
          /\ n # m => mounted'[n] = mounted[n]
          /\ stages' \in NoMountLeft
      BY <2>2, <3>1, <3>2, MountEffect, HandStage DEF MountSteps
    <3>4. ~ MountLeft(next)'
      BY <3>3 DEF MountLeft, MountDealt, IndInv, TypeOK
    <3>5. n # m
      BY <1>1, <3>1, <3>2, <3>3, <3>4 DEF MountNotYet, UpdateName
    <3> QED BY <3>3, <3>5
  <2>3. CASE SaveSteps
    BY <2>3, FlushEffect DEF SaveSteps
  <2>4. CASE QuietSteps
    BY <2>4, QuietEffect DEF QuietSteps
  <2> QED BY <2>1, <2>2, <2>3, <2>4, FourKinds
<1> QED BY <1>1, <1>3, <1>4

LEMMA OthersKeptStep ==
  ASSUME IndInv, MountStep
  PROVE  OthersKept'
<1> SUFFICES ASSUME Fresh', NEW n \in Mount, \A i \in DOMAIN upds' : UpdateName(upds[i])' # n
             PROVE  Lines(fstab', n) = Was(n)' /\ mounted'[n] = found'.mounted[n]
  BY DEF OthersKept, Was, Lines
<1>1. UNCHANGED <<upds, found>> /\ InCall /\ Was(n)' = Was(n) /\ Fresh
  BY Progress, Settled
<1>2. \A i \in DOMAIN upds : UpdateName(upds[i]) # n
  BY <1>1 DEF UpdateName
<1>3. EntryNotYet(n) /\ MountNotYet(n)
  BY <1>2 DEF EntryNotYet, MountNotYet
<1>4. Read(n) = Was(n) /\ Lines(fstab, n) = Was(n) /\ mounted[n] = found.mounted[n]
  BY <1>1, <1>3 DEF IndInv, EntriesKept, MountsKept
<1>5. (Lines(fstab', n) = Lines(fstab, n) \/ Lines(fstab', n) = Read(n)) /\ mounted'[n] = mounted[n]
  <2>1. CASE EntrySteps
    BY <2>1 DEF EntrySteps, AddEntry, RewriteEntry, RemoveEntry, Lines
  <2>2. CASE MountSteps
    <3>1. PICK u : u = upds[next]
      OBVIOUS
    <3>2. PICK m : m = UpdateName(u)
      OBVIOUS
    <3>3. UNCHANGED fstab /\ next \in DOMAIN upds /\ (n # m => mounted'[n] = mounted[n])
      BY <2>2, <3>1, <3>2, MountEffect, HandStage DEF MountSteps
    <3> QED BY <1>2, <3>1, <3>2, <3>3 DEF Lines
  <2>3. CASE SaveSteps
    BY <2>3, FlushEffect DEF SaveSteps, Read, Lines
  <2>4. CASE QuietSteps
    BY <2>4, QuietEffect DEF QuietSteps, Lines
  <2> QED BY <2>1, <2>2, <2>3, <2>4, FourKinds
<1> QED BY <1>1, <1>4, <1>5

LEMMA EntriesMadeStep ==
  ASSUME IndInv, MountStep
  PROVE  EntriesMade'
<1> SUFFICES ASSUME Distinct', Fresh', NEW i \in DOMAIN upds', EntryMade(i)',
                    NEW v, v = upds[i], NEW n, n = UpdateName(v)
             PROVE  /\ EnsureOf(v) = "absent" => Read(n)' = <<>>
                    /\ EnsureOf(v) # "absent" /\ StateOf(v) # "ghost" /\ Len(Was(n)) < 2
                         => Read(n)' = <<Entry(n, Desired(v, "device"))>>
  <2>1. UNCHANGED <<upds, found>>
    BY Settled
  <2>2. \A n \in Mount : Was(n)' = Was(n)
    BY Settled
  <2>3. \A i \in DOMAIN upds : UpdateName(upds[i]) \in Mount
    BY DEF IndInv, UpdsOK
  <2> QED BY <2>1, <2>2, <2>3 DEF EntriesMade, EnsureOf, StateOf, Desired, Lookup, UpdateName
<1>1. /\ UNCHANGED <<upds, found>> /\ InCall /\ Fresh /\ Distinct /\ i \in DOMAIN upds
      /\ \/ EntryMade(i)
         \/ i = next /\ EntrySteps /\ pc' = "set"
  BY Progress, Settled DEF EntrySteps
<1>2. n \in Mount
  BY <1>1 DEF IndInv, UpdsOK
<1>3. ASSUME EntryMade(i) PROVE Read(n)' = Read(n)
  <2>1. CASE EntrySteps
    <3>1. PICK u : u = upds[next]
      OBVIOUS
    <3>2. PICK m : m = UpdateName(u)
      OBVIOUS
    <3>3. PICK d : d = Desired(u, "device")
      OBVIOUS
    <3>4. (n # m => Read(n)' = Read(n)) /\ next \in DOMAIN upds /\ ~ EntryMade(next)
      BY <1>2, <2>1, <3>1, <3>2, <3>3, EntryEffect
    <3>5. n # m
      BY <1>1, <1>3, <3>1, <3>2, <3>4 DEF Distinct
    <3> QED BY <3>4, <3>5
  <2>2. CASE MountSteps
    BY <2>2 DEF MountSteps, Unmount, DoMount, Read
  <2>3. CASE SaveSteps
    BY <2>3, FlushEffect DEF SaveSteps, Read
  <2>4. CASE QuietSteps
    BY <2>4, QuietEffect DEF QuietSteps, Read
  <2> QED BY <2>1, <2>2, <2>3, <2>4, FourKinds
<1>4. CASE EntryMade(i)
  BY <1>1, <1>3, <1>4 DEF IndInv, EntriesMade
<1>5. CASE i = next /\ EntrySteps /\ pc' = "set"
  <2>1. PICK d : d = Desired(v, "device")
    OBVIOUS
  <2>2. v = upds[next] /\ EntryLeft(next)
    <3>1. v = upds[next]
      BY <1>5
    <3> QED BY <1>5, <2>1, <3>1, EntryEffect
  <2>3. Read(n) = Was(n) /\ (~ Present(v) => Read(n) = <<>>)
    BY <1>1, <1>5, <2>2, InHand
  <2>4. /\ StateOf(v) = StateBy(Was(n), found.mounted[n])
        /\ Present(v) <=> StateOf(v) # "absent"
    BY <1>1, <1>5 DEF IndInv, LookedUp, UpdsOK
  <2>5. Len(Read(n)) \in Nat /\ (Len(Read(n)) = 0 => Read(n) = <<>>)
    <3>1. tree \in Seq(TreeNode)
      BY TreeIsNodes
    <3>2. Text(tree) \in Seq(TextOf(TreeNode))
      BY <3>1, TextType
    <3>3. Read(n) \in Seq(TextOf(TreeNode))
      BY <3>2, UnderType DEF Read, Lines
    <3> QED BY <3>3
  <2>6. CASE AddEntry
    <3>1. EnsureOf(v) \in {"present", "unmounted", "mounted"}
      BY <2>2, <2>6, HandStage
    <3>2. ~ Present(v) /\ Read(n)' = Append(Read(n), Entry(n, d))
      BY <1>5, <2>1, <2>2, <2>6, AddEffect
    <3>3. Append(<<>>, Entry(n, d)) = <<Entry(n, d)>>
      OBVIOUS
    <3>4. Read(n)' = <<Entry(n, d)>>
      BY <2>3, <3>2, <3>3
    <3> QED BY <2>1, <3>1, <3>4
  <2>7. CASE RewriteEntry
    <3>1. EnsureOf(v) \in {"present", "unmounted", "mounted"}
      BY <2>2, <2>7, HandStage
    <3>2. /\ Present(v)
          /\ \/ Len(Read(n)) = 1 /\ Read(n)' = <<Entry(n, d)>>
             \/ Len(Read(n)) # 1
      BY <1>5, <2>1, <2>2, <2>7, RewriteEffect
    <3>3. ASSUME StateOf(v) # "ghost", Len(Was(n)) < 2 PROVE Len(Read(n)) = 1
      <4>1. Was(n) # <<>>
        BY <2>4, <3>2, <3>3 DEF StateBy
      <4>2. Len(Read(n)) # 0
        BY <2>3, <2>5, <4>1
      <4>3. Len(Read(n)) < 2
        BY <2>3, <3>3
      <4>4. \A k \in Nat : k # 0 /\ k < 2 => k = 1
        OBVIOUS
      <4> QED BY <2>5, <4>2, <4>3, <4>4
    <3> QED BY <2>1, <3>1, <3>2, <3>3
  <2>8. CASE RemoveEntry
    <3>1. EnsureOf(v) = "absent"
      BY <2>2, <2>8, RemoveEffect
    <3>2. \/ ~ Present(v) /\ Read(n)' = Read(n)
          \/ Present(v) /\ Read(n)' = <<>>
      BY <2>2, <2>8, RemoveEffect
    <3> QED BY <2>3, <3>1, <3>2
  <2> QED BY <1>5, <2>6, <2>7, <2>8 DEF EntrySteps
<1> QED BY <1>1, <1>4, <1>5

LEMMA MountsMadeStep ==
  ASSUME IndInv, MountStep
  PROVE  MountsMade'
<1> SUFFICES ASSUME Distinct', Fresh', NEW i \in DOMAIN upds', MountMade(i)',
                    NEW v, v = upds[i], NEW n, n = UpdateName(v)
             PROVE  /\ EnsureOf(v) \in {"absent", "unmounted"} => mounted'[n] = None
                    /\ EnsureOf(v) = "mounted" => mounted'[n] # None
                    /\ EnsureOf(v) = "present" => mounted'[n] = found.mounted[n]
  <2>1. UNCHANGED <<upds, found>>
    BY Settled
  <2> QED BY <2>1 DEF MountsMade, EnsureOf, StateOf, Desired, Lookup, UpdateName
<1>1. /\ UNCHANGED <<upds, found>> /\ InCall /\ Fresh /\ Distinct /\ i \in DOMAIN upds
      /\ \/ MountMade(i)
         \/ i = next /\ MountSteps /\ pc' = "set"
         \/ i = next /\ Begin /\ EnsureOf(v) = "present"
  BY Progress, Settled DEF MountSteps
<1>2. n \in Mount
  BY <1>1 DEF IndInv, UpdsOK
<1>3. ASSUME MountMade(i) PROVE mounted'[n] = mounted[n]
  <2>1. CASE EntrySteps
    BY <2>1 DEF EntrySteps, AddEntry, RewriteEntry, RemoveEntry
  <2>2. CASE MountSteps
    <3>1. PICK u : u = upds[next]
      OBVIOUS
    <3>2. PICK m : m = UpdateName(u)
      OBVIOUS
    <3>3. (n # m => mounted'[n] = mounted[n]) /\ next \in DOMAIN upds /\ ~ MountMade(next)
      BY <1>2, <2>2, <3>1, <3>2, MountEffect, HandStage DEF MountSteps
    <3>4. n # m
      BY <1>1, <1>3, <3>1, <3>2, <3>3 DEF Distinct
    <3> QED BY <3>3, <3>4
  <2>3. CASE SaveSteps
    BY <2>3, FlushEffect DEF SaveSteps
  <2>4. CASE QuietSteps
    BY <2>4, QuietEffect DEF QuietSteps
  <2> QED BY <2>1, <2>2, <2>3, <2>4, FourKinds
<1>4. CASE MountMade(i)
  BY <1>1, <1>3, <1>4 DEF IndInv, MountsMade
<1>5. CASE i = next /\ MountSteps /\ pc' = "set"
  <2>1. v = upds[next] /\ MountLeft(next)
    BY <1>5, HandStage DEF MountSteps
  <2>2. mounted[n] = found.mounted[n]
    BY <1>1, <1>5, <2>1, InHand
  <2>3. StateOf(v) = StateBy(Was(n), found.mounted[n])
    BY <1>1 DEF IndInv, LookedUp
  <2>4. CASE Unmount
    <3>1. /\ EnsureOf(v) \in {"absent", "unmounted"}
          /\ \/ StateOf(v) \in {"unmounted", "absent"} /\ mounted' = mounted
             \/ mounted'[n] = None
      BY <2>1, <2>4, MountEffect
    <3>2. StateOf(v) \in {"unmounted", "absent"} => found.mounted[n] = None
      BY <2>3 DEF StateBy
    <3> QED BY <2>2, <3>1, <3>2
  <2>5. CASE DoMount
    <3>1. /\ EnsureOf(v) = "mounted"
          /\ \/ StateOf(v) = "mounted" /\ mounted' = mounted
             \/ mounted'[n] \in Device
      BY <2>1, <2>5, MountEffect
    <3>2. StateOf(v) = "mounted" => found.mounted[n] # None
      BY <2>3 DEF StateBy
    <3> QED BY <2>2, <3>1, <3>2, MountAssumption
  <2> QED BY <1>5, <2>4, <2>5 DEF MountSteps
<1>6. CASE i = next /\ Begin /\ EnsureOf(v) = "present"
  <2>1. pc = "begin" /\ mounted' = mounted /\ v = upds[next]
    BY <1>6 DEF Begin, system
  <2>2. MountLeft(next)
    BY <2>1 DEF MountLeft
  <2>3. mounted[n] = found.mounted[n]
    BY <1>1, <1>6, <2>1, <2>2, InHand
  <2> QED BY <1>6, <2>1, <2>3
<1> QED BY <1>1, <1>4, <1>5, <1>6

\* A line of the file, by its position and under its name.
LEMMA LineUnder ==
  ASSUME IndInv, NEW n, NEW i \in DOMAIN fstab, fstab[i].name = n
  PROVE  Lines(fstab, n) # <<>>
<1>1. fstab \in Seq(Entries) /\ i \in 1..Len(fstab)
  BY DEF IndInv, TypeOK
<1>2. PositionsOf(fstab, n) # {}
  BY <1>1 DEF PositionsOf
<1> QED BY <1>1, <1>2, UnderNone DEF Lines

LEMMA ReadyStep ==
  ASSUME IndInv, MountStep
  PROVE  ReadyToMount'
<1> SUFFICES ASSUME pc' = "set", Distinct', NEW v, v = upds'[next'], NEW n, n = UpdateName(v),
                    NEW d, d = Desired(v, "device")
             PROVE  /\ stages' \in {<<"flush", "mount">>, <<"mount">>} =>
                         \A i \in DOMAIN tree' : tree'[i].name = n => tree'[i].data = d
                    /\ stages' = <<"mount">> => fstab' = Text(tree')
  BY DEF ReadyToMount, UpdateName, Desired, Lookup
<1>1. UNCHANGED <<upds, found>> /\ InCall /\ Distinct
  BY Progress, Settled
<1>2. CASE Begin
  <2>1. stages' = Stages(EnsureOf(upds[next]))
    BY <1>2 DEF Begin
  <2> QED BY <2>1, StagesStart
<1>3. CASE ~ Begin
  <2>1. v = upds[next] /\ next' = next
    BY <1>1, <1>3 DEF MountStep, IllegalEnsure, AddEntry, RewriteEntry, Flush, Unmount, DoMount,
           RemoveEntry, UpdateDone, Finish, StageFails, Give
  <2>2. CASE AddEntry
    <3>1. next \in DOMAIN upds /\ EntryLeft(next)
      BY <2>2, HandStage
    <3>2. ~ Present(v) /\ (Read(n) = <<>> => \A i \in DOMAIN tree' : tree'[i].name = n => tree'[i].data = d)
      <4>1. /\ ~ Present(v)
            /\ \/ pc' = "returned"
               \/ Read(n) = <<>> => \A i \in DOMAIN tree' : tree'[i].name = n => tree'[i].data = d
        BY <2>1, <2>2, AddEffect
      <4> QED BY <4>1
    <3>3. Read(n) = <<>>
      BY <1>1, <2>1, <3>1, <3>2, InHand
    <3>4. stages' # <<"mount">>
      <4>1. Updating("fstab") /\ stages' = Tail(stages) /\ StagesOK
        BY <2>2 DEF AddEntry, Give, StageDone, IndInv
      <4>2. Tail(stages) \in {<<>>, <<"flush", "mount">>}
        BY <4>1, StageCases
      <4> QED BY <4>1, <4>2
    <3> QED BY <3>2, <3>3, <3>4
  <2>3. CASE RewriteEntry
    <3>1. \A i \in DOMAIN tree' : tree'[i].name = n => tree'[i].data = d
      BY <2>1, <2>3, RewriteEffect
    <3>2. stages' # <<"mount">>
      <4>1. Updating("fstab") /\ stages' = Tail(stages) /\ StagesOK
        BY <2>3 DEF RewriteEntry, Give, StageDone, IndInv
      <4>2. Tail(stages) \in {<<>>, <<"flush", "mount">>}
        BY <4>1, StageCases
      <4> QED BY <4>1, <4>2
    <3> QED BY <3>1, <3>2
  <2>4. CASE Flush \/ Finish
    <3>1. /\ Updating("flush") /\ stages' = Tail(stages) /\ fstab' = Text(tree) /\ tree' = tree
          /\ pc = "set" /\ StagesOK
      BY <2>4, FlushEffect DEF Updating, IndInv
    <3>2. \/ Tail(stages) \notin {<<"flush", "mount">>, <<"mount">>}
          \/ stages = <<"flush", "mount">>
      <4>1. \/ Tail(stages) = <<"umount", "remove">>
            \/ Tail(stages) = <<"umount", "fstab">>
            \/ stages = <<"flush", "mount">>
        BY <3>1, StageCases
      <4> QED BY <4>1
    <3>3. stages = <<"flush", "mount">> =>
            \A i \in DOMAIN tree : tree[i].name = n => tree[i].data = d
      BY <1>1, <2>1, <3>1 DEF IndInv, ReadyToMount
    <3> QED BY <3>1, <3>2, <3>3
  <2>5. CASE Unmount
    <3>1. Updating("umount") /\ stages' = Tail(stages) /\ StagesOK
      BY <2>5 DEF Unmount, StageDone, IndInv
    <3>2. Tail(stages) \in {<<"remove">>, <<"fstab">>}
      BY <3>1, StageCases
    <3> QED BY <3>1, <3>2
  <2>6. CASE DoMount
    <3>1. Updating("mount") /\ stages' = Tail(stages) /\ StagesOK
      BY <2>6 DEF DoMount, StageDone, IndInv
    <3>2. Tail(stages) = <<>>
      BY <3>1, StageCases
    <3>3. <<>> \notin {<<"flush", "mount">>, <<"mount">>}
      OBVIOUS
    <3>4. stages' \notin {<<"flush", "mount">>, <<"mount">>}
      BY <3>1, <3>2, <3>3
    <3> QED BY <3>4
  <2>7. CASE RemoveEntry
    <3>1. Updating("remove") /\ stages' = Tail(stages) /\ StagesOK
      BY <2>7 DEF RemoveEntry, StageDone, IndInv
    <3>2. Tail(stages) = <<>>
      BY <3>1, StageCases
    <3>3. <<>> \notin {<<"flush", "mount">>, <<"mount">>}
      OBVIOUS
    <3>4. stages' \notin {<<"flush", "mount">>, <<"mount">>}
      BY <3>1, <3>2, <3>3
    <3> QED BY <3>4
  <2> QED BY <1>3, <2>2, <2>3, <2>4, <2>5, <2>6, <2>7
         DEF MountStep, IllegalEnsure, UpdateDone, StageFails, Give
<1> QED BY <1>2, <1>3

\* How many lines a mount point has, in the tree and in the file.
LEMMA LineCounts ==
  ASSUME IndInv
  PROVE  \A n : Read(n) \in Seq(TextOf(TreeNode)) /\ Len(Was(n)) \in Nat /\ Len(Read(n)) \in Nat
<1>1. tree \in Seq(TreeNode) /\ found.fstab \in Seq(Entries)
  BY TreeIsNodes DEF IndInv, FoundOK
<1>2. Text(tree) \in Seq(TextOf(TreeNode))
  BY <1>1, TextType
<1>3. \A n : Read(n) \in Seq(TextOf(TreeNode)) /\ Was(n) \in Seq(Entries)
  BY <1>1, <1>2, UnderType DEF Read, Was, Lines
<1> QED BY <1>3

LEMMA KeptInTreeStep ==
  ASSUME IndInv, MountStep
  PROVE  KeptInTree'
<1> SUFFICES ASSUME Fresh', Distinct', NEW n \in Mount, Was(n)' # <<>>, Read(n)' = <<>>, ~ Torn'
             PROVE  mounted'[n] = None
  BY DEF KeptInTree
<1>1. /\ UNCHANGED <<upds, found>> /\ InCall /\ Fresh /\ Distinct /\ pc # "idle"
      /\ Was(n) # <<>>
  BY Progress, Settled
<1>2. Read(n) = <<>> /\ ~ Torn => mounted[n] = None
  BY <1>1 DEF IndInv, KeptInTree
<1>3. CASE EntrySteps
  <2>1. PICK u : u = upds[next]
    OBVIOUS
  <2>2. PICK m : m = UpdateName(u)
    OBVIOUS
  <2>3. PICK d : d = Desired(u, "device")
    OBVIOUS
  <2>4. /\ mounted' = mounted /\ ~ Torn /\ next \in DOMAIN upds
        /\ n # m => Read(n)' = Read(n)
    BY <1>3, <2>1, <2>2, <2>3, EntryEffect
  <2>5. CASE n # m
    BY <1>2, <2>4, <2>5
  <2>6. CASE n = m /\ AddEntry
    <3>1. tree' = tree \/ Read(n)' = Append(Read(n), Entry(n, d))
      BY <2>1, <2>2, <2>3, <2>6, AddEffect
    <3>2. Read(n) \in Seq(TextOf(TreeNode))
      BY LineCounts
    <3>3. Append(Read(n), Entry(n, d)) # <<>>
      <4>1. Read(n) \in Seq(TextOf(TreeNode) \cup {Entry(n, d)})
        BY <3>2
      <4> QED BY <4>1, SeqParts
    <3>4. Read(n) = <<>>
      BY <3>1, <3>3 DEF Read
    <3> QED BY <1>2, <2>4, <3>4
  <2>7. CASE n = m /\ RewriteEntry
    <3>1. Read(n)' = <<Entry(n, d)>> \/ Read(n) = <<>>
      BY <2>1, <2>2, <2>3, <2>7, RewriteEffect
    <3>2. <<Entry(n, d)>> # <<>>
      OBVIOUS
    <3>3. Read(n) = <<>>
      BY <3>1, <3>2
    <3> QED BY <1>2, <2>4, <3>3
  <2>8. CASE n = m /\ RemoveEntry
    <3>1. EnsureOf(u) = "absent" /\ MountMade(next)
      BY <2>1, <2>2, <2>8, RemoveEffect, HandStage
    <3>2. mounted[n] = None
      BY <1>1, <2>1, <2>2, <2>4, <2>8, <3>1 DEF IndInv, MountsMade
    <3> QED BY <2>4, <3>2
  <2> QED BY <1>3, <2>5, <2>6, <2>7, <2>8 DEF EntrySteps
<1>4. CASE MountSteps
  <2>1. PICK u : u = upds[next]
    OBVIOUS
  <2>2. PICK m : m = UpdateName(u)
    OBVIOUS
  <2>3. /\ UNCHANGED <<fstab, tree>> /\ next \in DOMAIN upds /\ pc = "set"
        /\ n # m => mounted'[n] = mounted[n]
    BY <1>4, <2>1, <2>2, MountEffect, HandStage DEF MountSteps
  <2>4. mounted[n] = None /\ Read(n) = <<>>
    BY <1>2, <2>3 DEF Read, Torn
  <2>5. CASE n # m
    BY <2>3, <2>4, <2>5
  <2>6. CASE n = m /\ Unmount
    BY <2>1, <2>2, <2>4, <2>6, MountEffect
  <2>7. CASE n = m /\ DoMount
    <3>1. /\ stages = <<"mount">>
          /\ \/ mounted' = mounted
             \/ \E i \in DOMAIN fstab : fstab[i].name = n
      BY <2>1, <2>2, <2>7, MountEffect
    <3>2. fstab = Text(tree)
      BY <1>1, <2>3, <3>1 DEF IndInv, ReadyToMount
    <3>3. Lines(fstab, n) = <<>>
      BY <2>4, <3>2 DEF Read
    <3>4. mounted' = mounted
      BY <3>1, <3>3, LineUnder
    <3> QED BY <2>4, <3>4
  <2> QED BY <1>4, <2>5, <2>6, <2>7 DEF MountSteps
<1>5. CASE SaveSteps
  BY <1>2, <1>5, FlushEffect DEF SaveSteps, Read, Torn
<1>6. CASE QuietSteps
  BY <1>2, <1>6, QuietEffect DEF QuietSteps, Read, Torn
<1> QED BY <1>3, <1>4, <1>5, <1>6, FourKinds

LEMMA KeptUntilUnmountedStep ==
  ASSUME IndInv, MountStep
  PROVE  KeptUntilUnmounted'
<1> SUFFICES ASSUME Fresh', Distinct', NEW n \in Mount, Was(n)' # <<>>, Lines(fstab', n) = <<>>
             PROVE  mounted'[n] = None
  BY DEF KeptUntilUnmounted, Was, Lines
<1>1. /\ UNCHANGED <<upds, found>> /\ InCall /\ Fresh /\ Distinct /\ pc # "idle"
      /\ Was(n) # <<>>
  BY Progress, Settled
<1>2. /\ Read(n) = <<>> /\ ~ Torn => mounted[n] = None
      /\ Lines(fstab, n) = <<>> => mounted[n] = None
  BY <1>1 DEF IndInv, KeptInTree, KeptUntilUnmounted, Was
<1>3. CASE EntrySteps
  BY <1>2, <1>3 DEF EntrySteps, AddEntry, RewriteEntry, RemoveEntry
<1>4. CASE MountSteps
  <2>1. PICK u : u = upds[next]
    OBVIOUS
  <2>2. PICK m : m = UpdateName(u)
    OBVIOUS
  <2>3. UNCHANGED fstab /\ (n # m => mounted'[n] = mounted[n])
    BY <1>4, <2>1, <2>2, MountEffect DEF MountSteps
  <2>4. mounted[n] = None /\ Lines(fstab, n) = <<>>
    BY <1>2, <2>3
  <2>5. n = m => mounted' = mounted \/ mounted'[n] = None
    <3>1. CASE Unmount
      BY <2>1, <2>2, <3>1, MountEffect
    <3>2. CASE DoMount
      <4>1. n = m => \/ mounted' = mounted
                     \/ \E i \in DOMAIN fstab : fstab[i].name = n
        BY <2>1, <2>2, <3>2, MountEffect
      <4> QED BY <2>4, <4>1, LineUnder
    <3> QED BY <1>4, <3>1, <3>2 DEF MountSteps
  <2> QED BY <2>3, <2>4, <2>5
<1>5. CASE SaveSteps
  BY <1>2, <1>5, FlushEffect DEF SaveSteps, Read
<1>6. CASE QuietSteps
  BY <1>2, <1>6, QuietEffect DEF QuietSteps
<1> QED BY <1>3, <1>4, <1>5, <1>6, FourKinds

LEMMA OneInTreeStep ==
  ASSUME IndInv, MountStep
  PROVE  OneInTree'
<1> SUFFICES ASSUME Fresh', Distinct', NEW n \in Mount
             PROVE  Len(Read(n)') <= Len(Was(n)') \/ Len(Read(n)') = 1
  BY DEF OneInTree
<1>1. /\ UNCHANGED <<upds, found>> /\ InCall /\ Fresh /\ Distinct /\ pc # "idle"
      /\ Was(n)' = Was(n) /\ Len(Was(n)) \in Nat
  BY Progress, Settled, LineCounts
<1>2. Len(Read(n)) <= Len(Was(n)) \/ Len(Read(n)) = 1
  BY <1>1 DEF IndInv, OneInTree
<1>3. Read(n)' = Read(n) \/ Len(Read(n)') \in {0, 1}
  <2>1. CASE EntrySteps
    <3>1. PICK u : u = upds[next]
      OBVIOUS
    <3>2. PICK m : m = UpdateName(u)
      OBVIOUS
    <3>3. PICK d : d = Desired(u, "device")
      OBVIOUS
    <3>4. next \in DOMAIN upds /\ EntryLeft(next) /\ (n # m => Read(n)' = Read(n))
      BY <2>1, <3>1, <3>2, <3>3, EntryEffect
    <3>5. Len(<<Entry(n, d)>>) = 1 /\ Len(<<>>) = 0 /\ Append(<<>>, Entry(n, d)) = <<Entry(n, d)>>
      OBVIOUS
    <3>6. CASE n = m /\ AddEntry
      <4>1. ~ Present(u) /\ (tree' = tree \/ Read(n)' = Append(Read(n), Entry(n, d)))
        BY <3>1, <3>2, <3>3, <3>6, AddEffect
      <4>2. Read(n) = <<>>
        BY <1>1, <3>1, <3>2, <3>4, <3>6, <4>1, InHand
      <4>3. tree' = tree => Read(n)' = Read(n)
        BY DEF Read
      <4>4. Read(n)' = Read(n) \/ Read(n)' = <<Entry(n, d)>>
        BY <3>5, <4>1, <4>2, <4>3
      <4> QED BY <3>5, <4>4
    <3>7. CASE n = m /\ RewriteEntry
      <4>1. Read(n)' = <<Entry(n, d)>> \/ Read(n)' = <<>>
        BY <3>1, <3>2, <3>3, <3>7, RewriteEffect
      <4> QED BY <3>5, <4>1
    <3>8. CASE n = m /\ RemoveEntry
      <4>1. Read(n)' = Read(n) \/ Read(n)' = <<>>
        BY <3>1, <3>2, <3>8, RemoveEffect
      <4> QED BY <3>5, <4>1
    <3> QED BY <2>1, <3>4, <3>6, <3>7, <3>8 DEF EntrySteps
  <2>2. CASE MountSteps
    BY <2>2 DEF MountSteps, Unmount, DoMount, Read
  <2>3. CASE SaveSteps
    BY <2>3, FlushEffect DEF SaveSteps, Read
  <2>4. CASE QuietSteps
    BY <2>4, QuietEffect DEF QuietSteps, Read
  <2> QED BY <2>1, <2>2, <2>3, <2>4, FourKinds
<1> QED BY <1>1, <1>2, <1>3

LEMMA NoNewDuplicatesStep ==
  ASSUME IndInv, MountStep
  PROVE  NoNewDuplicates'
<1> SUFFICES ASSUME Fresh', Distinct', NEW n \in Mount
             PROVE  Len(Lines(fstab', n)) <= Len(Was(n)') \/ Len(Lines(fstab', n)) = 1
  BY DEF NoNewDuplicates, Was, Lines
<1>1. Fresh /\ Distinct /\ pc # "idle" /\ Was(n)' = Was(n)
  BY Progress, Settled
<1>2. /\ Len(Read(n)) <= Len(Was(n)) \/ Len(Read(n)) = 1
      /\ Len(Lines(fstab, n)) <= Len(Was(n)) \/ Len(Lines(fstab, n)) = 1
  BY <1>1 DEF IndInv, OneInTree, NoNewDuplicates, Was
<1>3. Lines(fstab', n) = Lines(fstab, n) \/ Lines(fstab', n) = Read(n)
  <2>1. CASE EntrySteps
    BY <2>1 DEF EntrySteps, AddEntry, RewriteEntry, RemoveEntry
  <2>2. CASE MountSteps
    BY <2>2 DEF MountSteps, Unmount, DoMount
  <2>3. CASE SaveSteps
    BY <2>3, FlushEffect DEF SaveSteps, Read
  <2>4. CASE QuietSteps
    BY <2>4, QuietEffect DEF QuietSteps
  <2> QED BY <2>1, <2>2, <2>3, <2>4, FourKinds
<1> QED BY <1>1, <1>2, <1>3

LEMMA SavedStep ==
  ASSUME IndInv, MountStep
  PROVE  Saved'
<1>1. UNCHANGED upds /\ InCall /\ outcome # "ok"
  BY Progress DEF IndInv, Saved
<1>2. outcome' = "ok" => Finish
  BY <1>1 DEF MountStep, Begin, IllegalEnsure, AddEntry, RewriteEntry, Flush, Unmount, DoMount,
       RemoveEntry, UpdateDone, StageFails, Give
<1>3. outcome' = "ok" => /\ pc' = "returned" /\ fstab' = Text(tree) /\ next \notin DOMAIN upds
                         /\ UNCHANGED <<tree, next>>
  BY <1>1, <1>2, FlushEffect
<1> QED BY <1>1, <1>3 DEF Saved

-----------------------------------------------------------------------------
(* Between the calls, and how a call begins. *)

Idle ==
  /\ TypeOK /\ pc = "idle" /\ upds = <<>> /\ next = 1 /\ outcome # "ok"
  /\ found.fstab = fstab /\ found.mounted = mounted

LEMMA IdleInv == Idle => IndInv
<1> SUFFICES ASSUME Idle PROVE IndInv
  OBVIOUS
<1> USE DEF Idle
<1>1. TypeOK /\ DOMAIN upds = {} /\ Len(upds) = 0 /\ pc = "idle" /\ fstab \in Seq(Entries)
  BY DEF TypeOK
<1>2. UpdsOK /\ FoundOK
  BY <1>1 DEF UpdsOK, FoundOK, TypeOK
<1>3. StagesOK /\ EntriesKept /\ MountsKept /\ ReadyToMount /\ KeptInTree /\ OneInTree
  BY <1>1 DEF StagesOK, EntriesKept, MountsKept, ReadyToMount, KeptInTree, OneInTree
<1>4. LookedUp /\ EntriesMade /\ MountsMade /\ Saved
  BY <1>1 DEF LookedUp, EntriesMade, MountsMade, Saved
<1>5. OthersKept /\ KeptUntilUnmounted
  BY <1>1 DEF OthersKept, KeptUntilUnmounted
<1>6. NoNewDuplicates
  <2>1. \A n : Lines(fstab, n) \in Seq(Entries)
    BY <1>1, UnderType DEF Lines
  <2>2. \A n : Len(Lines(fstab, n)) \in Nat
    BY <2>1
  <2> QED BY <2>2 DEF NoNewDuplicates
<1> QED BY <1>1, <1>2, <1>3, <1>4, <1>5, <1>6 DEF IndInv

\* A mount point that matches has a first match.
LEMMA FirstMatch ==
  ASSUME NEW n, Matches(tree, n) # {}, tree \in Seq(TreeNode)
  PROVE  (CHOOSE i \in Matches(tree, n) : \A j \in Matches(tree, n) : i <= j) \in Matches(tree, n)
<1> DEFINE here == Matches(tree, n)
<1>1. here \subseteq Nat
  BY DEF Matches
<1> HIDE DEF here
<1>2. here # {}
  BY DEF here
<1>3. PICK k \in here : \A j \in here : ~ (<<j, k>> \in OpToRel(<, Nat))
  BY <1>1, <1>2, NatLessThanWellFounded, WFMin
<1>4. ASSUME NEW j \in here PROVE k <= j
  <2>1. j \in Nat /\ k \in Nat /\ ~ (<<j, k>> \in OpToRel(<, Nat))
    BY <1>1, <1>3
  <2>2. j < k => <<j, k>> \in OpToRel(<, Nat)
    BY <2>1 DEF OpToRel
  <2>3. ~ (j < k)
    BY <2>1, <2>2, Zenon
  <2>4. j \in Nat /\ k \in Nat
    BY <2>1
  <2> QED BY <2>3, <2>4
<1>5. \E i \in here : \A j \in here : i <= j
  BY <1>4
<1>6. (CHOOSE i \in here : \A j \in here : i <= j) \in here
  BY <1>5
<1> QED BY <1>6 DEF here

\* What mount_provider::get returns for one mount point.
LEMMA IsFacts ==
  ASSUME TypeOK, NEW n \in Mount, NEW s \in MountShould, NEW u, u = Update(Is(n), s)
  PROVE  /\ UpdateName(u) = n
         /\ Desired(u, "device") \in Device \cup {None}
         /\ StateOf(u) = StateBy(Read(n), mtab[n])
         /\ Present(u) <=> StateOf(u) # "absent"
<1>1. tree \in Seq(TreeNode) /\ mtab[n] \in Device \cup {None}
  BY DEF TypeOK, TreeNode
<1>2. Read(n) = <<>> <=> Matches(tree, n) = {}
  BY <1>1, TextMatches DEF Read, Lines
<1>3. /\ Is(n).name = n
      /\ Is(n).attrs["device"] \in Device \cup {None}
      /\ Lookup(Is(n), "ensure", "absent") = StateBy(Read(n), mtab[n])
  <2>0. None \notin {"mounted", "unmounted", "ghost"}
    BY MountAssumption DEF Ensures
  <2>1. CASE Matches(tree, n) # {}
    <3> DEFINE k == CHOOSE i \in Matches(tree, n) : \A j \in Matches(tree, n) : i <= j
               e == IF mtab[n] # None THEN "mounted" ELSE "unmounted"
    <3>1. k \in Matches(tree, n)
      BY <1>1, <2>1, FirstMatch
    <3>2. k \in 1..Len(tree)
      BY <1>1, <3>1 DEF Matches
    <3>3. tree[k] \in TreeNode
      BY <1>1, <3>2
    <3>4. tree[k].data \in Device \cup {None}
      BY <3>3 DEF TreeNode
    <3>5. Is(n) = [name |-> n, attrs |-> [ensure |-> e, device |-> tree[k].data]]
      BY <2>1 DEF Is, Resource
    <3> HIDE DEF k
    <3> QED BY <1>2, <2>0, <2>1, <3>4, <3>5 DEF Lookup, StateBy
  <2>2. CASE Matches(tree, n) = {} /\ mtab[n] # None
    <3>1. Is(n) = [name |-> n, attrs |-> [ensure |-> "ghost", device |-> mtab[n]]]
      BY <2>2 DEF Is, Resource
    <3> QED BY <1>1, <1>2, <2>0, <2>2, <3>1 DEF Lookup, StateBy
  <2>3. CASE Matches(tree, n) = {} /\ mtab[n] = None
    <3>1. Is(n) = [name |-> n, attrs |-> [a \in Attr |-> None]]
      BY <2>3 DEF Is, Resource, Blank
    <3> QED BY <1>2, <2>3, <3>1 DEF Lookup, StateBy, Attr
  <2> QED BY <2>1, <2>2, <2>3
<1>4. s.attrs["device"] \in Device \cup {None}
  BY DEF MountShould
<1>5. u.is = Is(n) /\ u.should = s
  BY DEF Update
<1> QED BY <1>3, <1>4, <1>5 DEF UpdateName, Desired, Lookup, StateOf, Present

\* provider::set up to the provider's own set: get() fails, or the updates are made.
LEMMA CallStep ==
  ASSUME IndInv, NEW shoulds \in Calls, Call(shoulds)
  PROVE  IndInv'
<1>1. /\ pc = "idle" /\ upds = <<>> /\ next = 1 /\ outcome # "ok" /\ TypeOK
      /\ UNCHANGED <<fstab, mounted, tree, mtab, mtabBad, garbage, next, stages, chgs>>
  BY DEF Call, IndInv, FoundOK, Saved, system, handle
<1>2. /\ found' = [fstab |-> fstab, mounted |-> mounted,
                   fresh |-> mtab = mounted /\ tree = Loaded(fstab)]
      /\ \/ Torn /\ upds' = <<>> /\ pc' = "returned" /\ outcome' = "error"
         \/ /\ upds' = [i \in DOMAIN shoulds |-> Update(Is(shoulds[i].name), shoulds[i])]
            /\ pc' = "begin" /\ outcome' = outcome
  BY DEF Call, Torn, Give
<1>3. /\ shoulds \in Seq(MountShould) /\ DOMAIN shoulds = 1..Len(shoulds) /\ Len(shoulds) \in Nat
      /\ fstab \in Seq(Entries) /\ mounted \in [Mount -> Device \cup {None}]
  BY <1>1, MountAssumption DEF TypeOK
<1>4. \A i \in DOMAIN shoulds : shoulds[i] \in MountShould /\ shoulds[i].name \in Mount
  <2>1. \A i \in DOMAIN shoulds : shoulds[i] \in MountShould
    BY <1>3
  <2> QED BY <2>1 DEF MountShould
\* What the trees tell.
<1>5. /\ \A n : Was(n)' = Lines(fstab, n) /\ Read(n)' = Read(n)
      /\ Fresh' => mtab = mounted /\ \A n : Read(n) = Lines(fstab, n)
  <2>1. \A e \in Entries : Node(e.name, e.data, TRUE) \in TreeNode /\ Entry(e.name, e.data) = e
    BY DEF Entries, TreeNode, Node, Entry
  <2>2. Text(Loaded(fstab)) = fstab
    BY <1>3, <2>1, TextLoaded
  <2> QED BY <1>1, <1>2, <2>2 DEF Was, Read, Fresh
<1>6. \A n : Len(Lines(fstab, n)) \in Nat
  <2>1. \A n : Lines(fstab, n) \in Seq(Entries)
    BY <1>3, UnderType DEF Lines
  <2> QED BY <2>1
\* The updates.
<1>7. Len(upds') \in Nat /\ DOMAIN upds' = 1..Len(upds')
  <2>1. CASE upds' = <<>>
    BY <2>1
  <2>2. CASE upds' = [i \in DOMAIN shoulds |-> Update(Is(shoulds[i].name), shoulds[i])]
    <3> DEFINE up(i) == Update(Is(shoulds[i].name), shoulds[i])
    <3>1. upds' = [i \in 1..Len(shoulds) |-> up(i)]
      BY <1>3, <2>2
    <3> HIDE DEF up
    <3> QED BY <1>3, <3>1
  <2> QED BY <1>2, <2>1, <2>2
<1>8. ASSUME NEW i \in DOMAIN upds'
      PROVE  LET u == upds'[i] IN
             /\ UpdateName(u) \in Mount
             /\ Desired(u, "device") \in Device \cup {None}
             /\ StateOf(u) = StateBy(Read(UpdateName(u)), mtab[UpdateName(u)])
             /\ Present(u) <=> StateOf(u) # "absent"
  <2>1. DOMAIN upds' = DOMAIN shoulds /\ upds'[i] = Update(Is(shoulds[i].name), shoulds[i])
    BY <1>2
  <2>2. shoulds[i] \in MountShould /\ shoulds[i].name \in Mount
    BY <1>4, <2>1
  <2> QED BY <1>1, <2>1, <2>2, IsFacts
\* The parts of the invariant.
<1>9. TypeOK'
  BY <1>1, <1>2, <1>7 DEF TypeOK
<1>10. UpdsOK'
  <2>1. \A i \in DOMAIN upds' :
          LET u == upds'[i] IN
             /\ UpdateName(u) \in Mount
             /\ Desired(u, "device") \in Device \cup {None}
             /\ StateOf(u) \in {"mounted", "unmounted", "ghost", "absent"}
             /\ Present(u) <=> StateOf(u) # "absent"
    BY <1>8 DEF StateBy
  <2> QED BY <1>7, <2>1 DEF UpdsOK, UpdateName, Desired, StateOf, Present, Lookup
<1>11. FoundOK' /\ StagesOK' /\ ReadyToMount' /\ Saved'
  BY <1>1, <1>2, <1>3 DEF FoundOK, StagesOK, ReadyToMount, Saved
<1>12. LookedUp'
  <2>1. ASSUME Fresh', NEW i \in DOMAIN upds'
        PROVE  LET u == upds'[i] IN
               StateOf(u) = StateBy(Lines(fstab, UpdateName(u)), mounted[UpdateName(u)])
    BY <1>5, <1>8, <2>1
  <2>2. found'.fstab = fstab /\ found'.mounted = mounted
    BY <1>2
  <2> QED BY <2>1, <2>2 DEF LookedUp, Was, Lines, UpdateName, StateOf, Lookup
<1>13. EntriesKept'
  <2>1. ASSUME NEW n \in Mount, NEW i \in DOMAIN upds', UpdateName(upds'[i]) = n, ~ Present(upds'[i])
        PROVE  Read(n) = <<>>
    BY <1>8, <2>1 DEF StateBy
  <2>2. fstab' = fstab
    BY <1>1
  <2> QED BY <1>5, <2>1, <2>2 DEF EntriesKept, UpdateName, Present, Lookup
<1>14. MountsKept' /\ OthersKept'
  BY <1>1, <1>2 DEF MountsKept, OthersKept
<1>15. EntriesMade' /\ MountsMade'
  BY <1>1, <1>2, <1>7 DEF EntriesMade, MountsMade, EntryMade, MountMade
<1>16. KeptInTree' /\ KeptUntilUnmounted'
  BY <1>1, <1>2, <1>5 DEF KeptInTree, KeptUntilUnmounted
<1>17. OneInTree' /\ NoNewDuplicates'
  BY <1>1, <1>2, <1>5, <1>6 DEF OneInTree, NoNewDuplicates
<1> QED BY <1>9, <1>10, <1>11, <1>12, <1>13, <1>14, <1>15, <1>16, <1>17 DEF IndInv

-----------------------------------------------------------------------------
(* The theorems. *)

LEMMA MountStepKeeps ==
  ASSUME IndInv, MountStep
  PROVE  IndInv'
BY TypesStep, StagesStep, EntriesKeptStep, MountsKeptStep, OthersKeptStep, EntriesMadeStep,
   MountsMadeStep, ReadyStep, KeptInTreeStep, KeptUntilUnmountedStep, OneInTreeStep,
   NoNewDuplicatesStep, SavedStep DEF IndInv

\* The initial states are states between two calls.
LEMMA InitIdle == Init => Idle
<1> SUFFICES ASSUME Init PROVE Idle
  OBVIOUS
<1>1. fstab \in Seq(Entries)
  <2>1. PICK m \in 0..2 : fstab \in [1..m -> Entries]
    BY DEF Init, BoundedSeq, SeqOf
  <2> QED BY <2>1
<1>2. \A e \in Entries : Node(e.name, e.data, TRUE) \in TreeNode /\ Entry(e.name, e.data) = e
  BY DEF Entries, TreeNode, Node, Entry
<1>3. tree \in Seq(TreeNode)
  BY <1>1, <1>2, TextLoaded DEF Init
<1>4. mtab \in [Mount -> Device \cup {None}]
  BY DEF Init
<1>5. found.fstab = fstab /\ found.mounted = mounted /\ Len(upds) = 0
  BY DEF Init
<1>6. next \in 1..(Len(upds) + 1)
  BY <1>5 DEF Init
<1> QED BY <1>1, <1>3, <1>4, <1>5, <1>6 DEF Init, Idle, TypeOK, TreeNode

\* Every reachable state satisfies the inductive invariant.
THEOREM IndInvHolds == Spec => []IndInv
<1>1. Init => IndInv
  BY InitIdle, IdleInv
<1>2. IndInv /\ [Next]_vars => IndInv'
  <2> SUFFICES ASSUME IndInv, [Next]_vars PROVE IndInv'
    OBVIOUS
  <2>1. CASE MountStep
    BY <2>1, MountStepKeeps
  <2>2. ASSUME NEW shoulds \in Calls, Call(shoulds) PROVE IndInv'
    BY <2>2, CallStep
  <2>3. Idle' => IndInv'
    BY IdleInv, PTL
  <2>4. CASE Release
    <3>1. TypeOK'
      BY <2>4 DEF Release, IndInv, TypeOK, system, handle
    <3> QED BY <2>3, <2>4, <3>1 DEF Release, Idle, system
  <2>5. CASE Restart
    <3>1. fstab \in Seq(Entries)
      BY DEF IndInv, TypeOK
    <3>2. \A e \in Entries : Node(e.name, e.data, TRUE) \in TreeNode /\ Entry(e.name, e.data) = e
      BY DEF Entries, TreeNode, Node, Entry
    <3>3. tree' \in Seq(TreeNode)
      BY <2>5, <3>1, <3>2, TextLoaded DEF Restart
    <3>4. mtab' \in [Mount -> Device \cup {None}]
      BY <2>5 DEF Restart, IndInv, TypeOK
    <3>5. TypeOK'
      BY <2>5, <3>3, <3>4 DEF Restart, IndInv, TypeOK, TreeNode
    <3> QED BY <2>3, <2>5, <3>5 DEF Restart, Idle, IndInv, FoundOK, Saved
  <2>6. CASE UNCHANGED vars
    BY <2>6 DEF vars, system, handle, IndInv, TypeOK, UpdsOK, FoundOK, StagesOK, LookedUp, EntriesKept,
       MountsKept, OthersKept, EntriesMade, MountsMade, ReadyToMount, KeptInTree,
       KeptUntilUnmounted, OneInTree, NoNewDuplicates, Saved, Fresh, Distinct, Was, Read, Torn,
       EntryNotYet, MountNotYet, EntryLeft, MountLeft, EntryMade, MountMade, EntryDealt, MountDealt
  <2> QED BY <2>1, <2>2, <2>4, <2>5, <2>6 DEF Next
<1> QED BY <1>1, <1>2, PTL DEF Spec

\* The variables keep to their types, in calls on any table and any batch.
THEOREM TypeCorrect == Spec => []TypeOK
BY IndInvHolds, PTL DEF IndInv

\* On every step of a call the mount points it does not name keep their lines
\* and their mounts (set, mount.cc 139-177).
THEOREM OthersKeptHolds == Spec => []OthersKept
BY IndInvHolds, PTL DEF IndInv

\* An entry leaves the table on disk only when nothing is mounted there.
THEOREM KeptUntilUnmountedHolds == Spec => []KeptUntilUnmounted
BY IndInvHolds, PTL DEF IndInv

\* A call never gives a mount point a second entry.
THEOREM NoNewDuplicatesHolds == Spec => []NoNewDuplicates
BY IndInvHolds, PTL DEF IndInv

\* After a successful call the table and the mounts are as asked.
THEOREM ConvergedHolds == Spec => []Converged
<1>1. IndInv => Converged
  <2> SUFFICES ASSUME IndInv, Succeeded, Distinct, Fresh, NEW i \in DOMAIN upds,
                      NEW u, u = upds[i], NEW n, n = UpdateName(u)
               PROVE  /\ EnsureOf(u) = "absent" => Lines(fstab, n) = <<>> /\ mounted[n] = None
                      /\ EnsureOf(u) = "unmounted" => mounted[n] = None
                      /\ EnsureOf(u) = "mounted" => mounted[n] # None
                      /\ EnsureOf(u) = "present" => mounted[n] = found.mounted[n]
                      /\ EnsureOf(u) # "absent" /\ StateOf(u) # "ghost" /\ Len(Lines(found.fstab, n)) < 2
                           => Lines(fstab, n) = <<Entry(n, Desired(u, "device"))>>
    BY DEF Converged, EntryAsAsked
  <2>1. fstab = Text(tree) /\ next \notin DOMAIN upds
    BY DEF Succeeded, IndInv, Saved
  <2>2. i < next
    BY <2>1 DEF IndInv, TypeOK, UpdsOK
  <2>3. EntryMade(i) /\ MountMade(i)
    BY <2>2 DEF EntryMade, MountMade
  <2>4. Lines(fstab, n) = Read(n)
    BY <2>1 DEF Read
  <2> QED BY <2>3, <2>4 DEF IndInv, EntriesMade, MountsMade, Was
<1> QED BY <1>1, IndInvHolds, PTL

\* mount(8) mounts the device that the should asks for.
THEOREM MountsWhatWasAskedHolds == Spec => MountsWhatWasAsked
<1>1. ASSUME IndInv, DoMount, Distinct, mounted' # mounted, NEW u, u = upds[next]
      PROVE  mounted'[UpdateName(u)] = Desired(u, "device")
  <2>1. PICK n : n = UpdateName(u)
    OBVIOUS
  <2>2. /\ stages = <<"mount">>
        /\ \E i \in DOMAIN fstab : fstab[i].name = n /\ mounted'[n] = fstab[i].data
    BY <1>1, <2>1, MountEffect
  <2>3. PICK i \in DOMAIN fstab : fstab[i].name = n /\ mounted'[n] = fstab[i].data
    BY <2>2
  <2>4. /\ fstab = Text(tree)
        /\ \A j \in DOMAIN tree : tree[j].name = n => tree[j].data = Desired(u, "device")
    BY <1>1, <2>1, <2>2 DEF IndInv, ReadyToMount, DoMount, Updating
  <2>5. i \in DOMAIN tree /\ tree[i].name = n /\ fstab[i].data = tree[i].data
    BY <2>3, <2>4 DEF Text, Entry
  <2> QED BY <2>1, <2>3, <2>4, <2>5
<1>2. IndInv => [DoMount /\ Distinct /\ mounted' # mounted =>
                   LET u == upds[next] IN mounted'[UpdateName(u)] = Desired(u, "device")]_vars
  BY <1>1
<1> QED BY <1>2, IndInvHolds, PTL DEF MountsWhatWasAsked
=============================================================================
