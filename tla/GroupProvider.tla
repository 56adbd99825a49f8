---------------------------- MODULE GroupProvider ----------------------------
(***************************************************************************)
(* The provider group::groupadd (group.cc): provider::set's lookup of the  *)
(* whole batch, then one groupadd, groupmod or groupdel for each update    *)
(* that needs one, while other programs on the machine change groups too.  *)
(*                                                                         *)
(* An update is decided from the `is` that was looked up before the first  *)
(* update ran, so every step but the first works on a stale view of the    *)
(* database.                                                               *)
(***************************************************************************)
EXTENDS Naturals, Resources

CONSTANTS
  Group,     \* group names
  Gid,       \* group ids
  MaxBatch   \* bound: resources passed to one set()

ASSUME GroupAssumption ==
  /\ None \notin Gid
  /\ None \notin {"present", "absent"}
  /\ MaxBatch \in Nat

VARIABLES
  db,        \* the group database: each group's id, None for no such group
  pc,        \* "idle", "set", or "returned": the caller has its answer
  upds,      \* the updates of the call
  next,      \* position of the next update to process
  chgs,      \* context::_changes, by resource name
  outcome,   \* result of the call
  quiet,     \* history: nobody else changed the database since the lookup
  met        \* history: updates whose should has held since the lookup

vars == <<db, pc, upds, next, chgs, outcome, quiet, met>>

Attr == {"ensure", "gid"}

\* What ralsh can parse for a group (group.yaml): a should names a group and
\* may ask for its presence and its id.
Should ==
  [name: Group,
   attrs: {f \in [Attr -> {None, "present", "absent"} \cup Gid] :
             /\ f["ensure"] \in {None, "present", "absent"}
             /\ f["gid"] \in Gid \cup {None}}]

Batch == UNION {[1..n -> Should] : n \in 0..MaxBatch}

\* The resource get() makes of a group: getgrent's entry, or the absent
\* resource that add_absent appends for a name it has not seen.
Is(d, g) ==
  Resource(g, [a \in Attr |->
    IF a = "gid" THEN d[g]
    ELSE IF d[g] = None THEN "absent" ELSE "present"])

\* A group of id s (None: no group) is as the should asks.
Satisfies(s, should) ==
  CASE should.attrs["ensure"] = "absent" -> s = None
    [] should.attrs["ensure"] = "present" ->
         s # None /\ should.attrs["gid"] \in {None, s}
    [] OTHER -> s = None \/ should.attrs["gid"] \in {None, s}

Holding(d, us) == {i \in DOMAIN us : Satisfies(d[us[i].should.name], us[i].should)}

-----------------------------------------------------------------------------
(* The commands, external programs: what each may make of the database. *)

Free(d) == {n \in Gid : \A g \in Group : d[g] # n}

GroupAddResults(d, g, gid) ==
  {[d EXCEPT ![g] = n] : n \in {n \in Free(d) : d[g] = None /\ gid \in {None, n}}}

GroupModResults(d, g, gid) ==
  {[d EXCEPT ![g] = n] :
     n \in {n \in Free(d) \cup {d[g]} : d[g] # None /\ (IF gid = None THEN n = d[g] ELSE n = gid)}}

GroupDelResults(d, g) == IF d[g] = None THEN {} ELSE {[d EXCEPT ![g] = None]}

-----------------------------------------------------------------------------
(* group_provider::set for one update u. *)

StateOf(u) == Lookup(u.is, "ensure", "absent")
EnsureOf(u) == Lookup(u.should, "ensure", StateOf(u))

\* Recorded that leaves out the id when the group is created.
EnsureOnlyRecorded(u) ==
  LET c == chgs[UpdateName(u)]
  IN  IF EnsureOf(u) # StateOf(u)
      THEN Append(c, Change("ensure", EnsureOf(u), StateOf(u)))
      ELSE IF EnsureOf(u) = "present" THEN AddDiff(c, "gid", u) ELSE c

\* The changes of u's resource once u's own are recorded.
Recorded(u) ==
  LET c == chgs[UpdateName(u)]
      e == IF EnsureOf(u) # StateOf(u)
           THEN Append(c, Change("ensure", EnsureOf(u), StateOf(u)))
           ELSE c
  IN  IF EnsureOf(u) = "present" THEN AddDiff(e, "gid", u) ELSE e

\* The id passed with -g, None when the option is left out.
GidArg(u) == IF Changed(u, "gid") THEN u.should.attrs["gid"] ELSE None

\* Command without the test that there is something to change.
EagerCommand(u) ==
  CASE EnsureOf(u) = "present" -> IF StateOf(u) = "present" THEN "groupmod" ELSE "groupadd"
    [] EnsureOf(u) = "absent" /\ StateOf(u) # "absent" -> "groupdel"
    [] OTHER -> "none"

\* The program the update runs.  A present group is handed to groupmod as
\* soon as ANY change is on record for its name, one of an earlier update
\* of the batch included.
Command(u) ==
  CASE EnsureOf(u) = "present" /\ Recorded(u) # <<>> ->
         IF StateOf(u) = "present" THEN "groupmod" ELSE "groupadd"
    [] EnsureOf(u) = "absent" /\ StateOf(u) # "absent" -> "groupdel"
    [] OTHER -> "none"

CommandResults(u) ==
  CASE Command(u) = "groupadd" -> GroupAddResults(db, UpdateName(u), GidArg(u))
    [] Command(u) = "groupmod" -> GroupModResults(db, UpdateName(u), GidArg(u))
    [] Command(u) = "groupdel" -> GroupDelResults(db, UpdateName(u))
    [] OTHER -> {}

-----------------------------------------------------------------------------
Init ==
  /\ db \in {d \in [Group -> Gid \cup {None}] :
               \A g, h \in Group : d[g] = d[h] => g = h \/ d[g] = None}
  /\ pc = "idle"
  /\ upds = <<>>
  /\ next = 1
  /\ chgs = [g \in Group |-> <<>>]
  /\ outcome = "none"
  /\ quiet = TRUE
  /\ met = {}

\* Call with the position counted from zero.
CallFromZero(shoulds) ==
  /\ pc = "idle"
  /\ pc' = "set"
  /\ upds' = [i \in DOMAIN shoulds |-> Update(Is(db, shoulds[i].name), shoulds[i])]
  /\ next' = 0
  /\ chgs' = [g \in Group |-> <<>>]
  /\ outcome' = "none"
  /\ quiet' = TRUE
  /\ met' = Holding(db, upds')
  /\ UNCHANGED db

\* provider::set up to the call of the provider's own set.  get() returns
\* one resource per name, so each should makes exactly one update.
Call(shoulds) ==
  /\ pc = "idle"
  /\ pc' = "set"
  /\ upds' = [i \in DOMAIN shoulds |-> Update(Is(db, shoulds[i].name), shoulds[i])]
  /\ next' = 1
  /\ chgs' = [g \in Group |-> <<>>]
  /\ outcome' = "none"
  /\ quiet' = TRUE
  /\ met' = Holding(db, upds')
  /\ UNCHANGED db

Processing == pc = "set" /\ next \in DOMAIN upds

Record(u) == chgs' = [chgs EXCEPT ![UpdateName(u)] = Recorded(u)]

\* NoCommand with the end of the loop body lost.
EndlessNoCommand ==
  /\ Processing
  /\ Command(upds[next]) = "none"
  /\ UNCHANGED vars

\* The update needs no command.
NoCommand ==
  /\ Processing
  /\ Command(upds[next]) = "none"
  /\ Record(upds[next])
  /\ next' = next + 1
  /\ UNCHANGED <<db, pc, upds, outcome, quiet, met>>

\* The update's command succeeds.
RunCommand ==
  /\ Processing
  /\ db' \in CommandResults(upds[next])
  /\ Record(upds[next])
  /\ next' = next + 1
  /\ met' = met \cup Holding(db', upds)
  /\ UNCHANGED <<pc, upds, outcome, quiet>>

\* CommandFails with the error dropped: the loop goes on.
IgnoredFailure ==
  /\ Processing
  /\ Command(upds[next]) # "none"
  /\ Record(upds[next])
  /\ next' = next + 1
  /\ UNCHANGED <<db, pc, upds, outcome, quiet, met>>

\* CommandFails with the error not passed on to the caller.
SwallowedFailure ==
  /\ Processing
  /\ Command(upds[next]) # "none"
  /\ Record(upds[next])
  /\ pc' = "returned"
  /\ outcome' = "ok"
  /\ UNCHANGED <<db, upds, next, quiet, met>>

\* The update's command fails, for a reason the model knows (no such group,
\* group exists, id taken) or any other: set returns its error at once.
CommandFails ==
  /\ Processing
  /\ Command(upds[next]) # "none"
  /\ Record(upds[next])
  /\ pc' = "returned"
  /\ outcome' = "error"
  /\ UNCHANGED <<db, upds, next, quiet, met>>

\* All updates are done: provider::set returns them with their changes.
Finish ==
  /\ pc = "set"
  /\ next \notin DOMAIN upds
  /\ pc' = "returned"
  /\ outcome' = "ok"
  /\ UNCHANGED <<db, upds, next, chgs, quiet, met>>

\* The caller is done with the answer; the context went when set returned.
Release ==
  /\ pc = "returned"
  /\ pc' = "idle"
  /\ upds' = <<>>
  /\ next' = 1
  /\ chgs' = [g \in Group |-> <<>>]
  /\ outcome' = "none"
  /\ quiet' = TRUE
  /\ met' = {}
  /\ UNCHANGED db

\* Someone else adds, changes or removes a group.
Admin ==
  /\ \E g \in Group :
       \E n \in Free(db) \cup {None} :
         /\ n # db[g]
         /\ db' = [db EXCEPT ![g] = n]
  /\ quiet' = FALSE
  /\ met' = IF pc = "set" THEN met \cup Holding(db', upds) ELSE met
  /\ UNCHANGED <<pc, upds, next, chgs, outcome>>

Step == NoCommand \/ RunCommand \/ CommandFails \/ Finish

Next == Step \/ Release \/ Admin \/ \E shoulds \in Batch : Call(shoulds)

Spec == Init /\ [][Next]_vars

\* The loop is sequential code and the commands it runs end.
FairSpec == Spec /\ WF_vars(Step)

-----------------------------------------------------------------------------
Database == [Group -> Gid \cup {None}]

\* An update pairs a should with a resource get() could return for its name.
UpdateType == {Update(Is(d, s.name), s) : d \in Database, s \in Should}

Values == {None, "present", "absent"} \cup Gid

ChangeType == [attr: Attr, is: Values, was: Values]

TypeOK ==
  /\ db \in Database
  /\ pc \in {"idle", "set", "returned"}
  /\ upds \in UNION {[1..n -> UpdateType] : n \in 0..MaxBatch}
  /\ next \in 1..(Len(upds) + 1)
  /\ chgs \in [Group -> Seq(ChangeType)]
  /\ outcome \in {"none", "ok", "error"}
  /\ quiet \in BOOLEAN
  /\ met \subseteq DOMAIN upds

Undisturbed == pc = "returned" /\ outcome = "ok" /\ quiet

Distinct == \A i, j \in DOMAIN upds : upds[i].is.name = upds[j].is.name => i = j

\* After a set() that returned ok and that nobody disturbed, each named group
\* is as at least one should of the batch asks, even when the batch names the
\* group several times and the later updates worked on a stale `is`.
SomeRequestHolds ==
  Undisturbed =>
    \A i \in DOMAIN upds :
      \E j \in DOMAIN upds :
        /\ upds[j].should.name = upds[i].should.name
        /\ Satisfies(db[upds[j].should.name], upds[j].should)

\* The changes c of update u are exactly the difference between the resource
\* that was looked up and the one in d, over the attributes asked for.
Told(u, d, c) ==
  LET now == Is(d, u.should.name)
      asked == {a \in Attr : /\ u.should.attrs[a] # None
                             /\ a = "gid" => Desired(u, "ensure") # "absent"}
  IN  {c[k] : k \in DOMAIN c} =
        {Change(a, now.attrs[a], u.is.attrs[a]) : a \in {b \in asked : now.attrs[b] # u.is.attrs[b]}}

\* The changes reported at the end of an undisturbed call tell what it has made
\* of each group (context.hpp 26-30: "Adds a change entry for ATTR if
\* UPD.IS[ATTR] has a different value").
ChangesTruthful ==
  Undisturbed /\ Distinct => \A i \in DOMAIN upds : Told(upds[i], db, chgs[upds[i].should.name])

\* A command runs only when it is needed: on an undisturbed system, with each
\* group named once, the group was not yet as its should asks (README: "by
\* enforcing desired state only when changes are needed").
OnlyWhenNeeded ==
  [][ (RunCommand \/ CommandFails) /\ quiet /\ Distinct
        => ~ Satisfies(db[upds[next].should.name], upds[next].should) ]_vars

\* group.cc keeps provider::set's promise (provider.hpp 78-91): each step is a
\* step of Enforcement or changes nothing it can see.
Promise == INSTANCE Enforcement WITH
  Name <- Group, State <- Gid \cup {None}, Holds <- Satisfies,
  sys <- db, wants <- [i \in DOMAIN upds |-> upds[i].should],
  todo <- IF pc = "set" THEN next..Len(upds) ELSE {},
  phase <- IF pc = "set" THEN "busy" ELSE pc

KeepsPromise == Promise!Spec

\* Every set() returns.
Answered == Promise!Answered
=============================================================================
