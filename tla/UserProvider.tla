----------------------------- MODULE UserProvider -----------------------------
(***************************************************************************)
(* The provider user::useradd (user.cc): the lookup of all users with the  *)
(* groups they are in, then one useradd, usermod or userdel for each       *)
(* update that needs one, while other programs change users too.           *)
(*                                                                         *)
(* A user has a primary group (gid) and supplementary ones (groups).  The  *)
(* lookup lists them together (getgrouplist), the commands are told only   *)
(* of the supplementary ones.                                              *)
(*                                                                         *)
(* Abstracted: home stands for comment, shell and uid too, which the code  *)
(* treats alike; every group has a name; the order of the groups.          *)
(***************************************************************************)
EXTENDS Naturals, FiniteSets, Resources

CONSTANTS
  User,      \* user names
  Gid,       \* groups
  Home,      \* home directories
  Calls,     \* the batches of shoulds set() is called with
  Found      \* the databases a call may begin with

NoUser == [gid |-> None, home |-> None, groups |-> None]

VARIABLES
  db,        \* the user database: each name's entry, or NoUser
  pc,        \* "idle", "set", or "returned": the caller has its answer
  upds, next, chgs, outcome,  \* as in GroupProvider
  before,    \* history: db at the lookup
  quiet,     \* history: nobody else changed the database since the lookup
  met        \* history: pairs <<i, attr>>: what update i asks of attr has held

vars == <<db, pc, upds, next, chgs, outcome, before, quiet, met>>

Attr == {"ensure", "gid", "groups", "home", "managehome"}

Entry == [gid: Gid, home: Home, groups: SUBSET Gid]

\* What a program can ask for; ralsh knows no role (user.yaml 13).
UserShould ==
  [name: User,
   attrs: [ensure: {None, "present", "absent", "role"}, gid: Gid \cup {None},
           home: Home \cup {None}, groups: (SUBSET Gid) \cup {None},
           managehome: {None, TRUE, FALSE}]]

ASSUME UserAssumption ==
  /\ None \notin Gid \cup Home /\ \A groups \in SUBSET Gid : groups # None
  /\ None \notin {"present", "absent", "role"}
  /\ \A batch \in Calls : batch \in Seq(UserShould)
  /\ Found \subseteq [User -> Entry \cup {NoUser}]

-----------------------------------------------------------------------------
(* The lookup. *)

\* add_group_list: the primary group is on the list.
GroupList(entry) == entry.groups \cup {entry.gid}

Is(entry, name) ==
  Resource(name,
    IF entry = NoUser
    THEN [Blank(name, Attr).attrs EXCEPT !["ensure"] = "absent"]
    ELSE [a \in Attr |-> CASE a = "ensure" -> "present"
                           [] a = "groups" -> GroupList(entry)
                           [] a = "managehome" -> None
                           [] OTHER -> entry[a]])

-----------------------------------------------------------------------------
(* What it means that a user is as asked. *)

\* The attributes a should says something about that can be seen on the system.
Asked(should) ==
  {a \in {"ensure", "gid", "home", "groups"} : should.attrs[a] # None}

\* A user who is to be there has what the should says of a, one who may be
\* absent has it if there; of the groups, those beside the primary one count.
HasAttr(entry, should, a) ==
  LET v == should.attrs[a]
  IN  IF a = "ensure" THEN (entry = NoUser) <=> (v = "absent")
      ELSE \/ should.attrs["ensure"] = "absent"
           \/ should.attrs["ensure"] = None /\ entry = NoUser
           \/ /\ entry # NoUser
              /\ IF a = "groups" THEN GroupList(entry) = v \cup {entry.gid} ELSE entry[a] = v

Holding(d, us) ==
  UNION {{<<i, a>> : a \in {b \in Asked(us[i].should) :
                              HasAttr(d[us[i].should.name], us[i].should, b)}} :
         i \in DOMAIN us}

-----------------------------------------------------------------------------
(* The commands, external programs: what each may make of an entry when it  *)
(* is given the options in opts, None for an option that is left out.       *)

UserAddResults(entry, opts) ==
  {e \in Entry : /\ entry = NoUser
                 /\ \A a \in {"gid", "home"} : opts[a] \in {None, e[a]}
                 /\ e.groups = IF opts["groups"] = None THEN {} ELSE opts["groups"]}

\* usermod refuses -m without -d.
UserModResults(entry, opts) ==
  {e \in Entry :
     /\ entry # NoUser
     /\ opts["managehome"] = TRUE => opts["home"] # None
     /\ \A a \in {"gid", "home", "groups"} :
          e[a] = IF opts[a] = None THEN entry[a] ELSE opts[a]}

UserDelResults(entry) == IF entry = NoUser THEN {} ELSE {NoUser}

-----------------------------------------------------------------------------
(* user_provider::set for one update u. *)

StateOf(u) == Lookup(u.is, "ensure", "absent")
EnsureOf(u) == Lookup(u.should, "ensure", StateOf(u))

IsGroups(u) == Lookup(u.is, "groups", {})
ShouldGroups(u) == Lookup(u.should, "groups", IsGroups(u))

GroupsChanged(u) == IsGroups(u) # ShouldGroups(u)

\* changes.add(props, upd).
AddProps(c, u) == AddDiff(AddDiff(c, "gid", u), "home", u)

\* Recorded with the groups left out.
RecordedProps(u) ==
  LET c == chgs[UpdateName(u)]
      e == IF EnsureOf(u) # StateOf(u)
           THEN Append(c, Change("ensure", EnsureOf(u), StateOf(u))) ELSE c
  IN  IF EnsureOf(u) # "present" THEN e ELSE AddProps(e, u)

\* The changes of u's user once u's own are recorded: managehome makes none.
Recorded(u) ==
  LET c == chgs[UpdateName(u)]
      e == IF EnsureOf(u) # StateOf(u)
           THEN Append(c, Change("ensure", EnsureOf(u), StateOf(u))) ELSE c
      p == AddProps(e, u)
  IN  IF EnsureOf(u) # "present" THEN e
      ELSE IF GroupsChanged(u)
           THEN Append(p, Change("groups", ShouldGroups(u), IsGroups(u))) ELSE p

\* -c, -g, -d, -s, -u for what differs, -G with all the groups, -m; without it
\* a new user gets -M.
Options(u) ==
  [a \in Attr \ {"ensure"} |->
    CASE a = "groups" -> IF GroupsChanged(u) THEN ShouldGroups(u) ELSE None
      [] a = "managehome" -> Lookup(u.should, a, FALSE)
      [] OTHER -> IF Changed(u, a) THEN u.should.attrs[a] ELSE None]

\* Command without the test that there is something to change.
EagerCommand(u) ==
  CASE EnsureOf(u) = "present" -> IF StateOf(u) = "present" THEN "usermod" ELSE "useradd"
    [] EnsureOf(u) = "absent" /\ StateOf(u) # "absent" -> "userdel"
    [] OTHER -> "none"

\* As in group.cc a command runs when ANY change is on record for the name.
Command(u) ==
  CASE EnsureOf(u) = "present" /\ Recorded(u) # <<>> ->
         IF StateOf(u) = "present" THEN "usermod" ELSE "useradd"
    [] EnsureOf(u) = "absent" /\ StateOf(u) # "absent" -> "userdel"
    [] OTHER -> "none"

CommandResults(u) ==
  LET entry == db[UpdateName(u)]
  IN  CASE Command(u) = "useradd" -> UserAddResults(entry, Options(u))
        [] Command(u) = "usermod" -> UserModResults(entry, Options(u))
        [] Command(u) = "userdel" -> UserDelResults(entry)
        [] OTHER -> {}

-----------------------------------------------------------------------------
Init ==
  /\ db \in Found
  /\ pc = "idle" /\ outcome = "none"
  /\ upds = <<>> /\ next = 1 /\ chgs = [n \in User |-> <<>>]
  /\ before = db /\ quiet = TRUE /\ met = {}

\* provider::set up to the provider's own set: get() returns every user of the
\* machine and an absent one for each other name, so a should makes one update.
Call(shoulds) ==
  /\ pc = "idle"
  /\ pc' = "set"
  /\ upds' = [i \in DOMAIN shoulds |->
                Update(Is(db[shoulds[i].name], shoulds[i].name), shoulds[i])]
  /\ before' = db
  /\ met' = Holding(db, upds')
  /\ UNCHANGED <<db, next, chgs, outcome, quiet>>

Processing == pc = "set" /\ next \in DOMAIN upds

u == upds[next]

Record == chgs' = [chgs EXCEPT ![UpdateName(u)] = Recorded(u)]

Give(result) == pc' = "returned" /\ outcome' = result

NoCommand ==
  /\ Processing
  /\ EnsureOf(u) # "role"
  /\ Command(u) = "none"
  /\ Record
  /\ next' = next + 1
  /\ UNCHANGED <<db, pc, upds, outcome, before, quiet, met>>

\* RunCommand that starts the batch over.
RepeatedCommand ==
  /\ Processing
  /\ \E e \in CommandResults(u) : db' = [db EXCEPT ![UpdateName(u)] = e]
  /\ Record
  /\ next' = 0
  /\ met' = met \cup Holding(db', upds)
  /\ UNCHANGED <<pc, upds, outcome, before, quiet>>

RunCommand ==
  /\ Processing
  /\ \E e \in CommandResults(u) : db' = [db EXCEPT ![UpdateName(u)] = e]
  /\ Record
  /\ next' = next + 1
  /\ met' = met \cup Holding(db', upds)
  /\ UNCHANGED <<pc, upds, outcome, before, quiet>>

\* CommandFails that goes on with the next update.
IgnoredFailure ==
  /\ Processing
  /\ Command(u) # "none"
  /\ Record
  /\ next' = next + 1
  /\ UNCHANGED <<db, pc, upds, outcome, before, quiet, met>>

\* A command fails and has done its work or has not: userdel -r exits with an
\* error when the user is gone and the home directory could not be removed.
CommandFails ==
  /\ Processing
  /\ Command(u) # "none"
  /\ \/ UNCHANGED db
     \/ \E e \in CommandResults(u) : db' = [db EXCEPT ![UpdateName(u)] = e]
  /\ Record
  /\ Give("error")
  /\ met' = met \cup Holding(db', upds)
  /\ UNCHANGED <<upds, next, before, quiet>>

\* ensure=role is an error.
RoleRefused ==
  /\ Processing
  /\ EnsureOf(u) = "role"
  /\ Record
  /\ Give("error")
  /\ UNCHANGED <<db, upds, next, before, quiet, met>>

Finish ==
  /\ pc = "set"
  /\ next \notin DOMAIN upds
  /\ Give("ok")
  /\ UNCHANGED <<db, upds, next, chgs, before, quiet, met>>

\* The caller is done with the answer; the context went when set returned.
Release ==
  /\ pc = "returned"
  /\ pc' = "idle" /\ outcome' = "none"
  /\ upds' = <<>> /\ next' = 1 /\ chgs' = [n \in User |-> <<>>]
  /\ before' = db /\ quiet' = TRUE /\ met' = {}
  /\ UNCHANGED db

\* Someone else adds or removes a user of the batch or changes one field of the
\* entry, once in a call.
Admin ==
  /\ pc = "set" /\ quiet
  /\ \E i \in DOMAIN upds : \E e \in Entry \cup {NoUser} :
       LET n == UpdateName(upds[i])
       IN  /\ e # db[n]
           /\ \/ NoUser \in {e, db[n]}
              \/ \E a \in DOMAIN e : db[n] = [e EXCEPT ![a] = db[n][a]]
           /\ db' = [db EXCEPT ![n] = e]
  /\ quiet' = FALSE
  /\ met' = met \cup Holding(db', upds)
  /\ UNCHANGED <<pc, upds, next, chgs, outcome, before>>

Step == NoCommand \/ RunCommand \/ CommandFails \/ RoleRefused \/ Finish

Next == Step \/ Release \/ Admin \/ \E shoulds \in Calls : Call(shoulds)

Spec == Init /\ [][Next]_vars

-----------------------------------------------------------------------------
UpdateType == {Update(Is(entry, should.name), should) : entry \in Entry \cup {NoUser}, should \in UserShould}

TypeOK ==
  /\ db \in [User -> Entry \cup {NoUser}] /\ before \in [User -> Entry \cup {NoUser}]
  /\ pc \in {"idle", "set", "returned"}
  /\ upds \in Seq(UpdateType)
  /\ next \in 1..Len(upds) + 1
  /\ \A n \in User : \A i \in DOMAIN chgs[n] : chgs[n][i].attr \in Attr
  /\ outcome \in {"none", "ok", "error"}
  /\ quiet \in BOOLEAN
  /\ met \subseteq (DOMAIN upds) \X Attr

Succeeded == pc = "returned" /\ outcome = "ok"

Distinct == \A i, j \in DOMAIN upds : UpdateName(upds[i]) = UpdateName(upds[j]) => i = j

\* When set() returns ok, every attribute of every should has been as asked at
\* some moment since the lookup, whoever else changes the same users, and also
\* when a batch names a user several times and the later updates work from
\* what the first one has changed (provider.hpp 79).
EachAttributeHeld ==
  Succeeded => \A i \in DOMAIN upds :
                 \A a \in Asked(upds[i].should) : <<i, a>> \in met

\* Every attribute of every should is as asked at the end, unless somebody else
\* was there as well (provider.hpp 79: "Sets the resources to the
\* desired state indicated").
AsAsked ==
  Succeeded /\ quiet /\ Distinct =>
    \A i \in DOMAIN upds : \A a \in Asked(upds[i].should) :
      HasAttr(db[UpdateName(upds[i])], upds[i].should, a)

\* What can be seen of an attribute of user n's entry, of the groups those
\* beside the primary one.
Seen(entry, n, a) ==
  IF a = "groups" THEN IF entry = NoUser THEN {} ELSE entry.groups ELSE Is(entry, n).attrs[a]

\* The value that stands for an attribute the lookup has shown none of.
NoValue(a) == IF a = "groups" THEN {} ELSE None

\* The changes c tell what update upd has made of an entry b that is now d.
Told(upd, b, d, c) ==
  LET n == UpdateName(upd)
      reported == {c[k].attr : k \in DOMAIN c}
      differ == {a \in Asked(upd.should) : Seen(b, n, a) # Seen(d, n, a)}
      relevant == IF Desired(upd, "ensure") = "absent" THEN {"ensure"} ELSE Attr
  IN  /\ differ \cap relevant \subseteq reported
      /\ reported \ differ \subseteq {"groups"}
      /\ \A k \in DOMAIN c : c[k].was = Lookup(upd.is, c[k].attr, NoValue(c[k].attr))

\* Every attribute asked for that is no longer what it was is reported with the
\* value the lookup has shown, and except for the groups nothing else is
\* (context.hpp 26-30).
ChangesTruthful ==
  Succeeded /\ quiet /\ Distinct =>
    \A i \in DOMAIN upds :
      LET n == UpdateName(upds[i]) IN Told(upds[i], before[n], db[n], chgs[n])

\* A command runs only when the user is not as asked (README: "by enforcing
\* desired state only when changes are needed"), if a should that names groups
\* names the primary one among them, as the lookup does.
OnlyWhenNeeded ==
  [][ /\ RunCommand \/ CommandFails
      /\ quiet /\ Distinct
      /\ EnsureOf(u) = "present" /\ u.should.attrs["groups"] # None
           => u.is.attrs["gid"] \in u.should.attrs["groups"]
      => \E a \in Asked(u.should) : ~ HasAttr(db[UpdateName(u)], u.should, a) ]_vars
=============================================================================
