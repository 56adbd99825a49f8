----------------------------- MODULE FileProvider -----------------------------
(***************************************************************************)
(* The provider file::posix (file.cc) on one machine's file system.        *)
(*                                                                         *)
(* A call looks up every path first and then works through the updates,    *)
(* one system call at a time: the type of the file (remove, then create),  *)
(* owner, mode, content, target.  Each decision is made from the `is` that *)
(* was looked up, not from the disk, so within a batch the later updates   *)
(* work on a stale view.                                                   *)
(*                                                                         *)
(* Abstracted: one directory whose entries are Path; owner stands for      *)
(* owner and group (file.cc 321-348 treats them alike); the times,         *)
(* checksum and ctime that load() also reads, which nothing here uses.     *)
(* Nobody else changes the disk while a call runs.                         *)
(***************************************************************************)
EXTENDS Naturals, FiniteSets, Resources

CONSTANTS
  Path,         \* absolute paths
  Relative,     \* relative names a caller may use
  Resolved,     \* Resolved[r]: fs::absolute of the relative name r
  Bits,         \* permission bits
  DefaultBits,  \* the bits of a file or directory just created
  LinkBits,     \* the bits of every link, which chmod cannot change
  Owner,        \* user ids, as the decimal strings load() makes of them
  OwnerName,    \* user names: strings std::stoi does not accept
  Me,           \* owner of what libral creates
  Content,      \* file contents
  Empty,        \* the empty content
  Yes,          \* the boolean true
  Calls         \* the batches of shoulds set() is called with

VARIABLES
  fs,       \* the entry at each path
  pc,       \* the step of the call that is due
  upds,     \* the updates of the call
  next,     \* position of the update in hand
  chgs,     \* context::_changes, by resource name
  outcome,  \* the call's result, "refused" and "failed" both being errors
  found     \* history: the file system the lookup found

vars == <<fs, pc, upds, next, chgs, outcome, found>>

Attr == {"ensure", "type", "mode", "owner", "content", "target", "force"}

-----------------------------------------------------------------------------
(* The file system. *)

Dirent(type, bits, owner, content, target) ==
  [type |-> type, bits |-> bits, owner |-> owner, content |-> content, target |-> target]

NoEntry == Dirent("absent", None, None, None, None)

\* "special" is a device, a fifo or a socket.
Kinds == {"absent", "file", "directory", "special", "link"}

Entries ==
  {NoEntry}
  \cup {Dirent("file", b, o, c, None) : b \in Bits, o \in Owner, c \in Content}
  \cup {Dirent("directory", b, o, None, None) : b \in Bits, o \in Owner}
  \cup {Dirent("special", b, o, None, None) : b \in Bits, o \in Owner}
  \cup {Dirent("link", LinkBits, o, None, t) : o \in Owner, t \in Path}

\* The path that p leads to once links are followed, None for a loop.
Deref(f, p) ==
  LET follow[n \in 0..Cardinality(Path)] ==
        [q \in Path |->
           IF f[q].type # "link" THEN q
           ELSE IF n = 0 THEN None ELSE follow[n - 1][f[q].target]]
  IN  follow[Cardinality(Path)][p]

\* What the path is once links are followed; a loop cannot be opened at all.
Reached(f, p) == IF Deref(f, p) = None THEN "loop" ELSE f[Deref(f, p)].type

-----------------------------------------------------------------------------
(* Names, modes and what ralsh can parse. *)

Name == Path \cup Relative

Absolute(n) == IF n \in Relative THEN Resolved[n] ELSE n

\* A mode is an octal string: bits written the way load() writes them (four
\* digits), the same bits written otherwise ("644"), or no octal number.
ModeString(b, padded) == [bits |-> b, padded |-> padded]

BadMode == ModeString(None, FALSE)

\* force is declared boolean, so what ralsh parses is the boolean Yes; a
\* program that builds the resource itself may also pass the string "true".

FileShould ==
  [name: Name,
   attrs: [ensure: {None, "present", "absent", "file", "directory", "link"},
           type: {None},
           mode: {None, BadMode} \cup {ModeString(b, pd) : b \in Bits, pd \in BOOLEAN},
           owner: {None} \cup Owner \cup OwnerName,
           content: {None} \cup Content,
           target: {None} \cup Path,
           force: {None, Yes, "true"}]]

ASSUME FileAssumption ==
  /\ IsFiniteSet(Path)
  /\ Path \cap Relative = {} /\ Owner \cap OwnerName = {}
  /\ None \notin Path \cup Bits \cup Owner \cup OwnerName \cup Content \cup Kinds \cup {LinkBits, "present"}
  /\ \A b \in Bits \cup {None, LinkBits}, pd \in BOOLEAN : ModeString(b, pd) # None
  /\ Resolved \in [Relative -> Path]
  /\ DefaultBits \in Bits /\ LinkBits \notin Bits /\ Me \in Owner /\ Empty \in Content
  /\ Calls \subseteq Seq(FileShould)

-----------------------------------------------------------------------------
(* file_provider::get and load.  A dangling link or a loop makes            *)
(* fs::last_write_time throw.                                              *)

Unreadable(f, p) == Reached(f, p) \in {"absent", "loop"} /\ f[p].type # "absent"

\* Load with the mode written without its leading zero.
ShortModeLoad(f, p) ==
  LET e == f[p] IN
  Resource(p, [Blank(p, Attr).attrs EXCEPT
    !["ensure"] = IF e.type = "special" THEN "present" ELSE e.type,
    !["type"] = IF e.type = "absent" THEN None ELSE e.type,
    !["mode"] = IF e.type = "absent" THEN None ELSE ModeString(e.bits, FALSE),
    !["owner"] = e.owner,
    !["target"] = e.target])

Load(f, p) ==
  LET e == f[p] IN
  Resource(p, [Blank(p, Attr).attrs EXCEPT
    !["ensure"] = IF e.type = "special" THEN "present" ELSE e.type,
    !["type"] = IF e.type = "absent" THEN None ELSE e.type,
    !["mode"] = IF e.type = "absent" THEN None ELSE ModeString(e.bits, TRUE),
    !["owner"] = e.owner,
    !["target"] = e.target])

-----------------------------------------------------------------------------
(* The decisions of file_provider::set, from the update alone. *)

\* PathOf with links resolved, as fs::canonical would.
CanonicalPathOf(u) == Deref(fs, Absolute(UpdateName(u)))

PathOf(u) == Absolute(UpdateName(u))

\* The state the update believes the file to be in (216-220).
StateOf(u) ==
  IF Lookup(u.is, "ensure", "absent") = "present" THEN Lookup(u.is, "type", "file")
  ELSE Lookup(u.is, "ensure", "absent")

\* The type it is to have (221-231).
EnsureOf(u) ==
  LET e == Lookup(u.should, "ensure", StateOf(u))
  IN  IF e # "present" THEN e
      ELSE IF StateOf(u) = "absent" THEN "file" ELSE StateOf(u)

\* The flag with the wrong default.
DefaultForce(u) == u.should.attrs["force"] # "false"

\* lookup<std::string>("force", "false") == "true": the boolean is not seen.
Forced(u) == u.should.attrs["force"] = "true"

Refused(u) == StateOf(u) = "directory" /\ EnsureOf(u) # "directory" /\ ~ Forced(u)

\* Dispatch on the state looked up, as if the old file were still there.
StaleDispatch(u, st) ==
  CASE EnsureOf(u) = "file" -> IF StateOf(u) = "absent" THEN "create" ELSE "owner"
    [] EnsureOf(u) = "directory" -> IF StateOf(u) = "absent" THEN "mkdir" ELSE "owner"
    [] EnsureOf(u) = "link" -> "target"
    [] EnsureOf(u) = "absent" -> "done"
    [] OTHER -> "illegal"

\* Where the update goes on once the old file is out of the way.
Dispatch(u, st) ==
  CASE EnsureOf(u) = "file" -> IF st = "absent" THEN "create" ELSE "owner"
    [] EnsureOf(u) = "directory" -> IF st = "absent" THEN "mkdir" ELSE "owner"
    [] EnsureOf(u) = "link" -> "target"
    [] EnsureOf(u) = "absent" -> "done"
    [] OTHER -> "illegal"

Updating(stage) == pc = stage /\ next \in DOMAIN upds

Record(u, c) == chgs' = [chgs EXCEPT ![UpdateName(u)] = c]

Recorded(u) == chgs[UpdateName(u)]

Give(result) == pc' = "returned" /\ outcome' = result

-----------------------------------------------------------------------------
Init ==
  /\ fs \in [Path -> Entries]
  /\ pc = "idle"
  /\ upds = <<>>
  /\ next = 1
  /\ chgs = [n \in Name |-> <<>>]
  /\ outcome = "none"
  /\ found = fs

\* provider::set up to the provider's own set: get() loads one resource per
\* name, named by its absolute path; it refuses an empty list and throws
\* for an unreadable link.
Call(shoulds) ==
  /\ pc = "idle"
  /\ next' = 1
  /\ chgs' = [n \in Name |-> <<>>]
  /\ found' = fs
  /\ UNCHANGED fs
  /\ LET paths == [i \in DOMAIN shoulds |-> Absolute(shoulds[i].name)]
     IN  IF shoulds = <<>>
         THEN upds' = <<>> /\ Give("refused")
         ELSE IF \E i \in DOMAIN paths : Unreadable(fs, paths[i])
         THEN upds' = <<>> /\ Give("exception")
         ELSE /\ upds' = Pair(shoulds, [i \in DOMAIN paths |-> Load(fs, paths[i])], Attr)
              /\ pc' = "begin"
              /\ outcome' = "none"

\* The start of one update (216-253): refuse to give up a directory, set out
\* to remove a file of another type, or go on with the file as it is.
Begin ==
  /\ Updating("begin")
  /\ LET u == upds[next] IN
     IF Refused(u)
     THEN Give("refused") /\ UNCHANGED chgs
     ELSE /\ UNCHANGED outcome
          /\ IF EnsureOf(u) # StateOf(u) /\ StateOf(u) # "absent"
             THEN pc' = "remove" /\ UNCHANGED chgs
             ELSE /\ pc' = Dispatch(u, StateOf(u))
                  /\ Record(u, IF EnsureOf(u) = StateOf(u) THEN Recorded(u)
                               ELSE Append(Recorded(u),
                                           Change("ensure", EnsureOf(u), StateOf(u))))
  /\ UNCHANGED <<fs, upds, next, found>>

\* remove() of a file of the wrong type, then the change of ensure, whose
\* `was` is the local state just set to absent (246-252).
RemoveOld ==
  /\ Updating("remove")
  /\ LET u == upds[next] IN
     IF StateOf(u) = "special"
     THEN Give("refused") /\ UNCHANGED <<fs, chgs>>
     ELSE /\ fs' = [fs EXCEPT ![PathOf(u)] = NoEntry]
          /\ Record(u, Append(Recorded(u), Change("ensure", EnsureOf(u), "absent")))
          /\ pc' = Dispatch(u, "absent")
          /\ UNCHANGED outcome
  /\ UNCHANGED <<upds, next, found>>

\* An ofstream opened on the path creates the file, or empties the one there.
CreateFile ==
  /\ Updating("create")
  /\ LET p == Deref(fs, PathOf(upds[next])) IN
     /\ Reached(fs, PathOf(upds[next])) \in {"absent", "file", "special"}
     /\ fs' = [fs EXCEPT ![p] =
                 CASE @.type = "absent" -> Dirent("file", DefaultBits, Me, Empty, None)
                   [] @.type = "file" -> [@ EXCEPT !.content = Empty]
                   [] OTHER -> @]
  /\ pc' = "owner"
  /\ UNCHANGED <<upds, next, chgs, outcome, found>>

\* fs::create_directory is content with a directory that is there already.
CreateDirectory ==
  /\ Updating("mkdir")
  /\ LET p == PathOf(upds[next]) IN
     /\ fs[p].type = "absent" \/ Reached(fs, p) = "directory"
     /\ fs' = IF fs[p].type # "absent" THEN fs
              ELSE [fs EXCEPT ![p] = Dirent("directory", DefaultBits, Me, None, None)]
  /\ pc' = "owner"
  /\ UNCHANGED <<upds, next, chgs, outcome, found>>

\* update_target up to the link (422-433): it removes by the looked-up ensure
\* and without force, even when set() has removed the file before.
UpdateTarget ==
  /\ Updating("target")
  /\ LET u == upds[next]
         was == Lookup(u.is, "ensure", "absent")
     IN  IF u.should.attrs["target"] = None \/ was \in {"directory", "present"}
         THEN Give("refused") /\ UNCHANGED fs
         ELSE /\ fs' = IF was = "absent" THEN fs ELSE [fs EXCEPT ![PathOf(u)] = NoEntry]
              /\ pc' = "symlink"
              /\ UNCHANGED outcome
  /\ UNCHANGED <<upds, next, chgs, found>>

Symlink ==
  /\ Updating("symlink")
  /\ LET u == upds[next] IN
     /\ fs[PathOf(u)].type = "absent"
     /\ fs' = [fs EXCEPT ![PathOf(u)] = Dirent("link", LinkBits, Me, None, u.should.attrs["target"])]
     /\ Record(u, AddDiff(Recorded(u), "target", u))
  /\ pc' = "owner"
  /\ UNCHANGED <<upds, next, outcome, found>>

\* chgs.add({"owner", "group", "mode"}, upd).
AddMetadata(c, u) == AddDiff(AddDiff(c, "owner", u), "mode", u)

\* update_metadata up to lchown (317-349): which of owner and mode to set is
\* read off the changes recorded for the NAME, earlier updates' included.
UpdateOwner ==
  /\ Updating("owner")
  /\ LET u == upds[next]
         c == AddMetadata(Recorded(u), u)
         o == u.should.attrs["owner"]
     IN  /\ Record(u, c)
         /\ IF ~ Exists(c, "owner")
            THEN pc' = "mode" /\ UNCHANGED <<fs, outcome>>
            ELSE IF o \in OwnerName
            THEN Give("refused") /\ UNCHANGED fs
            ELSE /\ fs[PathOf(u)].type # "absent"
                 /\ fs' = IF o = None THEN fs ELSE [fs EXCEPT ![PathOf(u)].owner = o]
                 /\ pc' = "mode"
                 /\ UNCHANGED outcome
  /\ UNCHANGED <<upds, next, found>>

\* UpdateMode without the check that the string is an octal number.
UncheckedMode ==
  /\ Updating("mode")
  /\ LET u == upds[next]
         m == u.should.attrs["mode"]
     IN  /\ m # None
         /\ Reached(fs, PathOf(u)) \notin {"absent", "loop"}
         /\ fs' = [fs EXCEPT ![Deref(fs, PathOf(u))].bits = m.bits]
         /\ pc' = IF EnsureOf(u) = "file" THEN "content" ELSE "done"
  /\ UNCHANGED <<upds, next, chgs, outcome, found>>

\* The rest of update_metadata (350-380); permissions() follows links.
UpdateMode ==
  /\ Updating("mode")
  /\ LET u == upds[next]
         m == u.should.attrs["mode"]
         after == IF EnsureOf(u) = "file" THEN "content" ELSE "done"
     IN  IF ~ Exists(Recorded(u), "mode")
         THEN pc' = after /\ UNCHANGED <<fs, outcome>>
         ELSE IF m = None
         THEN Give("internal") /\ UNCHANGED fs
         ELSE IF m.bits = None
         THEN Give("refused") /\ UNCHANGED fs
         ELSE /\ Reached(fs, PathOf(u)) \notin {"absent", "loop"}
              /\ fs' = [fs EXCEPT ![Deref(fs, PathOf(u))].bits = m.bits]
              /\ pc' = after
              /\ UNCHANGED outcome
  /\ UNCHANGED <<upds, next, chgs, found>>

\* update_content (384-418).  Nothing there checks that the write succeeded;
\* here the disk is never full.
UpdateContent ==
  /\ Updating("content")
  /\ LET u == upds[next]
         want == u.should.attrs["content"]
         p == PathOf(u)
         was == IF Reached(fs, p) = "file" THEN fs[Deref(fs, p)].content ELSE Empty
     IN  \/ /\ want = None
            /\ UNCHANGED <<fs, chgs>>
         \/ /\ want # None
            /\ Reached(fs, p) \notin {"absent", "loop"}
            /\ want = was
            /\ UNCHANGED <<fs, chgs>>
         \/ /\ want # None /\ want # was
            /\ Reached(fs, p) \in {"file", "special"}
            /\ fs' = [fs EXCEPT ![Deref(fs, p)].content =
                        IF Reached(fs, p) = "file" THEN want ELSE @]
            /\ Record(u, Append(Recorded(u), Change("content", want, was)))
  /\ pc' = "done"
  /\ UNCHANGED <<upds, next, outcome, found>>

\* ensure is the type of a special file: set() has no branch for it (287-289).
IllegalEnsure ==
  /\ Updating("illegal")
  /\ Give("refused")
  /\ UNCHANGED <<fs, upds, next, chgs, found>>

\* The system call that is due fails: set() returns its error.
SystemCallFails ==
  /\ \/ pc \in {"create", "mkdir", "symlink"}
     \/ pc = "remove" /\ StateOf(upds[next]) # "special"
     \/ pc = "target" /\ upds[next].should.attrs["target"] # None
                      /\ Lookup(upds[next].is, "ensure", "absent") \in {"file", "link"}
     \/ pc = "owner" /\ LET u == upds[next] IN
                        /\ Exists(AddMetadata(Recorded(u), u), "owner")
                        /\ u.should.attrs["owner"] \notin OwnerName
     \/ pc = "mode" /\ LET m == upds[next].should.attrs["mode"] IN
                       /\ Exists(Recorded(upds[next]), "mode")
                       /\ m # None /\ m # BadMode
     \/ pc = "content" /\ upds[next].should.attrs["content"] # None
  /\ Give("failed")
  /\ IF pc = "owner"
     THEN Record(upds[next], AddMetadata(Recorded(upds[next]), upds[next]))
     ELSE UNCHANGED chgs
  /\ UNCHANGED <<fs, upds, next, found>>

UpdateDone ==
  /\ Updating("done")
  /\ next' = next + 1
  /\ pc' = "begin"
  /\ UNCHANGED <<fs, upds, chgs, outcome, found>>

Finish ==
  /\ pc = "begin"
  /\ next \notin DOMAIN upds
  /\ Give("ok")
  /\ UNCHANGED <<fs, upds, next, chgs, found>>

Release ==
  /\ pc = "returned"
  /\ pc' = "idle"
  /\ upds' = <<>>
  /\ next' = 1
  /\ chgs' = [n \in Name |-> <<>>]
  /\ outcome' = "none"
  /\ found' = fs
  /\ UNCHANGED fs

FileStep ==
  \/ Begin \/ RemoveOld \/ CreateFile \/ CreateDirectory \/ UpdateTarget \/ Symlink
  \/ UpdateOwner \/ UpdateMode \/ UpdateContent \/ IllegalEnsure
  \/ SystemCallFails \/ UpdateDone \/ Finish

Next == FileStep \/ Release \/ \E shoulds \in Calls : Call(shoulds)

Spec == Init /\ [][Next]_vars

-----------------------------------------------------------------------------
TypeOK ==
  /\ fs \in [Path -> Entries] /\ found \in [Path -> Entries]
  /\ pc \in {"idle", "begin", "remove", "create", "mkdir", "target", "symlink",
             "owner", "mode", "content", "illegal", "done", "returned"}
  /\ \A i \in DOMAIN upds : upds[i].should \in FileShould /\ UpdateName(upds[i]) \in Name
  /\ next \in 1..(Len(upds) + 1)
  /\ \A n \in Name : \A k \in DOMAIN chgs[n] : chgs[n][k].attr \in Attr
  /\ outcome \in {"none", "ok", "refused", "failed", "internal", "exception"}

\* Each file is named once, by an absolute path, its mode in four digits.
Plain ==
  /\ \A i \in DOMAIN upds :
       LET m == upds[i].should.attrs["mode"]
       IN  UpdateName(upds[i]) \in Path /\ (m \in {None, BadMode} \/ m.padded)
  /\ \A i, j \in DOMAIN upds : UpdateName(upds[i]) = UpdateName(upds[j]) => i = j

Succeeded == pc = "returned" /\ outcome = "ok"

\* A link with a mode: permissions() changes what the link leads to.
ModeOnLink(u) == EnsureOf(u) = "link" /\ u.should.attrs["mode"] # None

NoModeOnLinks == \A i \in DOMAIN upds : ~ ModeOnLink(upds[i])

-----------------------------------------------------------------------------
(* The entry e is as u's should asks: its type and data, owner, mode. *)

KindAsAsked(e, u) ==
  LET s == u.should.attrs IN
  /\ CASE s["ensure"] = None -> TRUE
       [] s["ensure"] = "present" -> e.type # "absent"
       [] OTHER -> e.type = s["ensure"]
  /\ s["content"] # None /\ EnsureOf(u) = "file" => e.content = s["content"]
  /\ s["target"] # None /\ EnsureOf(u) = "link" => e.target = s["target"]

OwnerAsAsked(e, u) ==
  u.should.attrs["owner"] # None /\ EnsureOf(u) # "absent" => e.owner = u.should.attrs["owner"]

ModeAsAsked(e, u) ==
  u.should.attrs["mode"] # None /\ EnsureOf(u) \notin {"absent", "link"}
    => e.bits = u.should.attrs["mode"].bits

AsAsked(e, u) == KindAsAsked(e, u) /\ OwnerAsAsked(e, u) /\ ModeAsAsked(e, u)

\* Metadata is not given again to a file that changes its type, nor to a link,
\* which is always made anew.
Applied(u, attr) ==
  \/ EnsureOf(u) = StateOf(u) /\ EnsureOf(u) # "link"
  \/ StateOf(u) = "absent"
  \/ Changed(u, attr)

\* Every update processed so far, whatever becomes of the call, has brought
\* its file to the state asked for, and later updates of the batch have not
\* undone it (provider.hpp 79: "Sets the resources to the desired state").
Converged ==
  Plain =>
    \A i \in DOMAIN upds :
      i < next =>
        LET u == upds[i]
            e == fs[PathOf(u)]
        IN  /\ KindAsAsked(e, u)
            /\ Applied(u, "owner") => OwnerAsAsked(e, u)
            /\ Applied(u, "mode") /\ NoModeOnLinks => ModeAsAsked(e, u)

\* Nothing but the files of the updates begun so far has changed, except the
\* mode of a file that a link given a mode leads to: a call that fails midway
\* has left the rest of its batch, and every file it does not name, alone.
RestUntouched ==
  Plain =>
    \A p \in Path :
      (\A i \in DOMAIN upds : i <= next => UpdateName(upds[i]) # p) =>
        /\ [fs[p] EXCEPT !.bits = found[p].bits] = found[p]
        /\ NoModeOnLinks => fs[p] = found[p]

\* A directory that was there goes only where some should for it has force,
\* and a device never goes, whatever the batch and however its files are named
\* (file.yaml 29-30: "any operation requiring removing a directory will only
\* be performed if this is set to 'true'").
NothingPreciousLost ==
  \A p \in Path :
    /\ found[p].type = "directory" /\ fs[p].type # "directory" =>
         \E i \in DOMAIN upds : PathOf(upds[i]) = p /\ upds[i].should.attrs["force"] = "true"
    /\ found[p].type = "special" => fs[p].type = "special"

\* What a change entry calls attr, on the file system f.
Shown(f, p, attr) ==
  CASE attr \in {"ensure", "owner", "target", "mode"} -> Load(f, p).attrs[attr]
    [] attr = "content" -> f[p].content

\* After a successful call each recorded change is real: the attribute has
\* the recorded value now and had another one before.  And when nothing is
\* recorded for a file other than a link, nothing about it changed.
ChangesTruthful ==
  Succeeded /\ Plain /\ NoModeOnLinks =>
    \A i \in DOMAIN upds :
      LET u == upds[i]
          p == PathOf(u)
      IN  /\ \A k \in DOMAIN Recorded(u) :
               LET c == Recorded(u)[k]
               IN  Shown(fs, p, c.attr) = c.is /\ Shown(found, p, c.attr) # c.is
          /\ Recorded(u) = <<>> /\ EnsureOf(u) # "link" => fs[p] = found[p]

\* A call all of whose files were as asked when looked up changes and reports
\* nothing (README 16-17: "all changes are done idempotently"); links are not
\* part of this: one that is as asked is removed and made again.
Idempotent ==
  Plain /\ pc = "returned"
  /\ (\A i \in DOMAIN upds : EnsureOf(upds[i]) # "link" /\ AsAsked(found[PathOf(upds[i])], upds[i]))
    => fs = found /\ \A i \in DOMAIN upds : Recorded(upds[i]) = <<>>
=============================================================================
