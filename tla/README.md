# libral in TLA+

libral gives every kind of thing a machine manages (users, groups, files,
mounts, packages ...) one interface: a *provider* can `get` the resources of
its type and `set` some of them to a desired state. This directory holds TLA+
models of the providers and of what they are built from, the TLC runs that
check them, and TLAPS proofs about them. Paths below are relative to the
repository; line numbers are those of the commit the models were written from.

## 1. The system

    caller (ralsh, C, Go, Ruby)
      |  provider::get / find / set            lib/src/provider.cc
      v
    provider::set: look up all resources of the batch, pair each `should` with
      |            its `is`, then hand all pairs to the provider's own set
      v
    group | user | file | mount | host | simple | json | mruby provider
      |        |             |      |        |      |
      v        v             v      v        v      v
    groupadd  useradd       augeas tree     external script: one process
    (command) (command)     (handle.cc)     per action (command)
              \               |             /
               target: local or ssh        lib/src/target/*.cc

| component | state it keeps | operations | what makes it correct |
|---|---|---|---|
| core: `resource`, `update`, `changes`, `provider::set` | the context of one call: changes by resource name | `get`, `find`, `set`, `parse`, `create` | a call that succeeds has brought every resource of the batch to the desired state; the changes it reports are those it made |
| group provider | none (the group database is outside) | `get`, `set` through groupadd, groupmod, groupdel | as above, whatever else uses the database; a command runs only when it is needed |
| user provider | none (the user database is outside) | `get`, `set` through useradd, usermod, userdel | every attribute asked for has held, the groups beside the primary one included; a command runs only when it is needed |
| file provider | none (the disk is outside) | `get`, `set`: remove, create, lchown, chmod, write, symlink | the file has the type, owner, mode, content or target asked for; a directory goes only with `force`; other files stay |
| mount provider | augeas trees of fstab and mtab, loaded once | `get`, `set`: edit, save, mount, umount | table and mounts as asked; saved before mounting; unmounted before removed |
| host provider | augeas tree of /etc/hosts, loaded once | `get`, `set`: edit, save | the file is written whole, and only as asked |
| augeas binding | tree of the loaded files, a label counter | match, get, set, rm, erase, save | a saved tree is the file on disk |
| simple provider | none | one script run per action, line protocol | the script's words arrive in the resource or change they belong to |
| json provider | none | one script run per action, a JSON request and reply | no fault of the script is taken for success; what it did is what is reported |
| mruby provider | an interpreter with the provider's state | get, set in Ruby | out of reach, see section 6 |
| local target | an augeas handle | run, read, write, which | - |
| ssh target | a temporary directory on the other machine, an augeas handle fed with remote files | upload, run with a 20 s limit, read and write whole files | a save that reports success is on the remote disk; a file is replaced whole; both until a remote command outlives its call |
| commands | whether the script was uploaded | run, execute, each_line | uploaded before its first use |
| loader (`ral`, `environment`) | data directories, target | find the suitable providers of a type | a name selects the provider it stands for, whatever the other files are like |
| metadata (`prov::spec`, `attr::spec`, `value`) | the parsed YAML | read a value from a string by its type, decide whether a provider is suitable | only values the metadata admits reach a provider |
| emitters, ralsh, bindings | none | print, parse arguments, marshal, exit status | the outcome says what happened |

What is hard to test here:

* **Staleness.** Every batch is looked up before its first update runs. A name
  that occurs twice, an earlier update, another program or (augeas) an earlier
  call makes the `is` an update decides on wrong.
* **Partial failure.** Nearly every step may fail and returns at once: what is
  left on the machine, in the augeas tree and in the changes is a question no
  unit test asks.
* **Order.** Remove then create; save then mount; umount then remove the entry.
* **Interleaving** with the rest of the machine (groups, users, packages), and,
  over ssh, with a remote command that outlives its local time limit.
* **The way out.** An answer passes an emitter, a C function and a Go parser, or
  an exit status that also depends on what was logged on the way.

There are no threads: one call runs at a time, and a call is sequential code.
The list of hazards with their lines is in `PROJECT.json`.

## 2. Modules

| module | models | used by |
|---|---|---|
| `Resources` | resource, update, changes, the pairing of `provider::set` | all providers, `AugeasTree` |
| `Enforcement` | abstract: what `provider::set` promises (provider.hpp 78-91) | `GroupProvider` implements it |
| `GroupProvider` | group.cc, the three group commands, other users of the database | `MCGroupProvider`, `GroupProvider_proofs` |
| `FileProvider` | file.cc, one action per system call | `MCFileProvider`, `FileProvider_proofs` |
| `AugeasTree` | the augeas operations on the subtree of one table file | `MountProvider`, `HostProvider`, `Lists_proofs` |
| `MountProvider` | mount.cc with fstab, mtab, mount(8) and umount(8) | `MCMountProvider`, `MountProvider_proofs` |
| `HostProvider` | host.cc with /etc/hosts | `MCHostProvider`, `HostProvider_proofs` |
| `UserProvider` | user.cc, the three user commands, other users of the database | `MCUserProvider`, `UserProvider_proofs` |
| `Packages` | what the scripts manage: packages, and what it means that one is as asked; the state of a `set` that both script providers have | `SimpleProvider`, `JsonProvider` |
| `SimpleProvider` | simple_provider.cc and the scripts it runs | `MCSimpleProvider`, `Scripts_proofs` |
| `JsonProvider` | json_provider.cc and the scripts it runs | `MCJsonProvider`, `Scripts_proofs` |
| `Metadata` | attr/spec.cc and prov/spec.cc: types, values and conditions, as operators | `Loader` |
| `Loader` | ral.cc: the providers that are found, here or over ssh, and the one a name selects | `Session` |
| `Session` | one run of ralsh or one call of a binding, from `ral::create` to the exit status; extends `Loader` with the rest of the program | `MCSession`, `Session_proofs` |
| `RemoteTable` | the augeas of ssh.cc: a table on another machine | `MCRemoteTable`, `Session_proofs` |
| `GroupProvider_proofs`, `UserProvider_proofs`, `FileProvider_proofs`, `MountProvider_proofs`, `HostProvider_proofs` | the theorems about the module they are named for (section 5) | - |
| `Session_proofs` | the theorems about `Session`, and those about `RemoteTable` | - |
| `Scripts_proofs` | the theorems about `SimpleProvider` and `JsonProvider` | - |
| `Lists_proofs` | what the operators of `Resources` and `AugeasTree` compute, for lists and trees of every length | the proofs about files, mounts, hosts and scripts |

`MC*` modules only define the small sets of batches, texts, files or requests a
run uses; `Batches` has those that `MCSimpleProvider` and `MCJsonProvider` share. The modules compose in two ways: providers extend `Resources`, which
is `provider::set` and the context; and `Session` extends `Loader`, which
extends `Metadata`, as `main()` calls `ral` and `ral` reads metadata. What the
chosen provider does is a single step of `Session` that succeeds, fails or
throws: the provider modules say when.

### How state and actions correspond to the code

Every provider module has the same frame. `pc` is where the call is: `idle`
(no call), one or several running stages, `returned` (the caller has the
answer). `Call(shoulds)` is `provider::set` (provider.cc 36-65) up to the
provider's own `set`: `get`, and `upds`, the pairs of `is` and `should`.
`next` is the loop variable of the provider's `set(ctx, upds)`, `chgs` the
context's `_changes`, `outcome` the `result` returned. `Release` is the caller
dropping the answer: the context is gone, the provider stays. Values are model
values; an attribute map is a function that gives `None` for what the map does
not hold, since `operator[] const` answers the same for both
(resource.cc 32-52). What a `should` can be is taken from the provider's YAML
(group.yaml, file.yaml, ...), which is what ralsh can parse.

* **GroupProvider.** `db` is the group database. `NoCommand` and `RunCommand`
  are one turn of the loop; `CommandFails` its early return. What groupadd,
  groupmod and groupdel do to the database is written as a set of results,
  external to the code. `Admin` is any other program. `quiet` and `met` are
  history: nobody else changed the database since the lookup; which updates
  have been as asked at some moment since.
* **FileProvider.** `fs` maps two paths to directory entries. `pc` names the
  system call that is due: remove, create, mkdir, owner (lchown), mode (chmod),
  content (write), target and symlink. Links are followed where the C library
  follows them (open, chmod) and not where it does not (lstat, lchown,
  remove). `SystemCallFails` may happen at each of them. `found` is history:
  the disk the lookup saw.
* **UserProvider** has the frame of `GroupProvider`. A user has a primary group
  and supplementary ones; `GroupList` is the list `getgrouplist` makes of both.
  `home` stands for comment, shell and uid, which the code treats alike. A
  command that fails may have done its work (userdel -r does). `met` holds, for
  each update and attribute, what has been as asked since the lookup.
* **AugeasTree** is pure: a tree is the sequence of a table's lines, each with
  the name its predicate matches, its data, and whether its label is a number.
* **MountProvider.** `fstab` and `mounted` are the machine, `tree` and `mtab`
  what augeas loaded. `stages` is what `set` still does for the update in hand:
  edit, flush, mount or umount, remove. `Restart` prepares the provider anew.
* **HostProvider.** `hosts` is the file, `tree` what augeas holds of it, edited
  by the updates and saved by `Finish`. The tree survives the call.
* **SimpleProvider.** `sys` is what the script manages, `out` the lines it has
  yet to print, `exit` its status; a run of the script is decided when it
  starts (`ScriptRuns`): the reply invoke-simple.md asks for, or a part of it
  and then a fault. `pc` is the action of the run (`find`, `list`, `update`) or
  `set` between runs. `mode` stands for run_action's line count, in_error and
  result. `ReadHeader`, `ReadError`, `ReadResource` and `ReadChange` are one
  line each, by the branch of the callback that takes it; `ReadBeforeFirst` is
  its undefined behaviour. `before` and `faults` are history.
* **JsonProvider.** A run of the script is one step (`ScriptReplies`): it brings
  the packages to a state, and `reply` is its exit status, its stderr and the
  body it printed, as invoke-json.md asks for or spoilt in one of eight ways
  (`Spoilt`: it died, with nothing on one of its outputs or without JSON;
  exited with an error after a complete reply (`loud`); printed no JSON; put an
  error into the object; a bare level name on stderr; entries without name, is
  or was or with a value of the wrong type; no list; a change of an unknown
  attribute). `ReplyFails`, `Crashes`, `Got` and `Set` are what the code makes of
  it, in the order of its tests.
* **Metadata** has no state. A text is the sequence of its parts between
  commas, as much as `array[string]` and enums tell apart.
* **Loader.** `todo` are the files `providers()` has yet to look at, `provs`
  those it keeps, `remote` what is under each base name in the temporary
  directory of the other machine, `logged` the flag behind
  `error_has_been_logged()`. `LoadBuiltIn`, `SkipScript` and `LoadScript` are
  one turn of its loops; the code sorts by name afterwards, which only matters
  where two providers share a name: then any of them may come first.
* **Session.** `pc` follows `main()`: `start`, `loading`, `chosen`, `parsed`,
  `exited`. The same steps serve Go and Ruby, which call the same functions:
  `Answer` is where they differ (`RalshStatus`, `GoStatus`, `RubyStatus`).
  `ran` and `done` are history: whose code has run, and whether what was asked
  for was done.
* **RemoteTable** has no batch: its call is `handle::save` over ssh. `file` and
  `temp` are on the other machine; `in`, `tree` and `out` are the nodes /in,
  /files and /out of the augeas tree; `err` is the node the writer leaves under
  /augeas/files. `stage` names the remote command that is due: mktemp (`tmpdir`),
  dd (`transfer`, `dd`), mv (`move`). dd takes two steps, so that what it has
  written so far can be seen, and `dd` says which file it has open, since that
  file may be moved under it. Each command succeeds, fails or is given up: ssh
  loses the connection or its 20 seconds are over, and the remote command runs
  on, or begins, at any later moment. `transfers` are the dds at large, each
  with its text and the file it has open, `moves` counts the moves at large.
  They go on by `LateStart` (a dd truncates the temporary file of whichever save
  has it), `LateEnd` and `LateMove`, during another save, and by `OrphanMove`
  after `Restart`, which then leaves its temporary file in `left`. `strays` is
  history: which kinds of command have outlived their call. `dd.shared` says
  that another dd truncated the file or writes another text into it, which
  makes a mixture of what this one writes.
  That aug_text_store and aug_text_retrieve put their errors under
  /augeas/text, where `save` does not look, is augeas' behaviour (external).

## 3. Runs

| run | expects | shows |
|---|---|---|
| `group_batches` | pass | group.cc implements `Enforcement`; changes are those on the system; a command runs only when needed; every call returns |
| `user_calls` | pass | every attribute asked for has held since the lookup, with other programs at work; changes truthful; a command runs only when needed |
| `file_calls` | pass | processed files are as asked, the rest untouched, no directory lost without force, changes truthful, idempotent |
| `mount_calls` | pass | table and mounts as asked; saved before mounted; unmounted before removed; other mounts kept; no duplicate entries |
| `host_calls` | pass | lines as asked; the file written whole or not at all |
| `simple_calls` | pass | no failure of a script is taken for success; packages as asked; changes truthful, derived or reported |
| `json_calls` | pass | no fault of a script but one is taken for success; packages as asked and the changes reported, mentioned or derived |
| `remote_saves` | pass | a save that says ok is on the remote disk, with any moves at large, until a dd is; the file is only replaced whole, until any command is at large; every save returns |
| `session_calls` | pass | a name selects the right provider and its own code runs; it is asked only for what its metadata admits, all of it or nothing; the outcome says what happened |
| `remote_back` | violation of `SavedMeansSaved` | finding 1 |
| `user_groups` | violation of `AsAsked` | finding 2 |
| `json_exit` | violation of `FatalMeansError` | finding 3 |

### Bounds, and why they are enough

* Two groups and two ids, batches of up to two shoulds (`MaxBatch`): enough for
  an id that is taken, for a batch that names a group twice, and for another
  program to interfere between any two steps. The theorems of section 5 cover
  every number of each.
* Two paths, two owners, two modes, two contents; a batch is one should with
  every combination of attributes (each cell of the table file.cc 180-197) or
  two simpler ones on the same file, on another, or on the same by a relative
  name. Two paths give links to files, dangling links and loops.
* Two mount points and two devices, two hosts and two addresses, tables of up
  to two lines to begin with: duplicates, ghosts, a table without the entry.
  `MaxEntries` stops calls once a table has grown beyond it; repeated calls on
  trees that errors left dirty happen within it.
* Three texts of the remote table: what was read, what an earlier save wrote
  and what this one writes can all differ. One dd and one move may be at large
  at the same time (`MaxLate` = 1): a save meets a late dd, a late move, or both,
  and when they have ended the next ones may outlive their calls. The number of
  edits, saves, failures and restarts is not bounded, and the theorems of
  section 5 hold for every `MaxLate`.
* Two packages and two versions; batches of none, one and two. A simple script
  can fail before and after every line of every run, with its change made or
  not; the reply of a json script can be spoilt in each of the eight ways in
  either run, with its work done or not.
* Two users, two groups, two homes. The first user is anything, the second
  absent or in both groups. A batch is one should with every combination of
  attributes, or two for the same user or for both. Another program interferes
  once in a call, at any moment: twice would only restore what it took away.
* Thirteen provider files: two built in, one of which works everywhere; three
  for packages, two of them with the same file name in two directories and two
  with the same qualified name; a good one for services, one that does not
  describe itself, one that is not executable and five whose metadata is wrong
  in different ways. A directory holds any up to three of them with at most one
  for services, or the three for packages and any other: every pair of a good
  and a bad file in every order is among them. The path has both commands
  or none, the machine is this one or another one. Requests cover every verb
  through every way in, and for `set` every outcome of each type of attribute.

### Fairness

Two specifications state weak fairness, on the program's own steps only:
`GroupProvider.FairSpec` (`set` is a sequential loop over a finite batch, and the
commands it waits for end) and `RemoteTable.TableSpec` (a remote command ends
or is given up after 20 seconds, ssh.cc 188, 193). None is asked of callers, other
programs, restarts or commands that outlived their call (`LateStep`). `Answered` (every call returns) is checked
under it. The other modules are loops over a finite batch without anything to
wait for but programs that end, like the one of group.cc, and have only safety
properties. `Session` has an end, where it stays (`Ended`); it never deadlocks
before.

### Preconditions of properties, in the order of what they exclude

`Distinct` (each name once in a batch): a batch that asks two things of one
resource cannot satisfy both; what holds without it is `SomeRequestHolds`
(group). It is a precondition of `Converged`, `KeptUntilUnmounted`,
`NoNewDuplicates` and `MountsWhatWasAsked` (mount) too, not of `OthersKept`.
`Plain` (file) adds absolute names and modes written with four digits,
since load() compares strings; `NothingPreciousLost` holds without it.
`NoModeOnLinks` (file): chmod of a link changes the mode of what it leads to.
`Undisturbed`/`quiet` (group, user, json): nobody else
changed the database; `EachAttributeHeld` (user) and the first part of
`DoneAsReported` (json) hold without it. `Sensible` (simple, json): the
should asks for something a script can make sense of. `OnlyWhenNeeded` (user) is about shoulds whose
groups include the primary one, since the lookup lists it. `hiccup` (session):
a command on the other machine failed or the tables of a built-in provider did
not load, so that a provider is missed; `Distinct` (session): no two scripts
have one file name, which over ssh overwrite each other. What is set through
Ruby is not compared with metadata (`OnlyLegalValues`), a list through Go may be
an empty one for an error (`ExitTells`). `faults` (json): `DoneAsReported` is about
scripts that keep to their convention. `Fresh` (mount): the tree was the file
when the call began, that is, no failed call came before on the same provider.
`strays` (remote): ssh.cc can neither stop nor notice a command that outlived
its call, so what it does afterwards decides what holds. `ReplacedWhole` holds
until the first one of any kind. `SavedIsOnDisk` holds with late moves, which
can only take the temporary file away from a save, but not once a dd is late,
which changes what is in it (section 4), nor after a move that
outlived its program, which puts an old text back. The runs reach the states
on both sides of each.

## 4. What the code does not do that its comments or documents say

Each has a run with its trace.

1. **A remote table changed and changed back is not written** (ssh.cc 58): the
   second save compares with what was first read and reports success.
2. **A new primary group takes the old one away** (user.cc 135): the list of
   groups that get() shows includes the primary group, so a call that asks for
   that very list and for another gid sees no difference in the groups, and
   usermod -g alone removes the user from the old primary group.
3. **A script that exits with an error may be believed** (json_provider.cc 183):
   with text on both of its outputs, its reply counts, against
   invoke-json.md 226-228.

Met while modelling, and visible in the models without a run of their own:

* remote tables: a dd that was given up spoils a later save (ssh.cc 193, 214).
  All saves of a program write the same temporary file. A dd whose 20 seconds
  were over may start after a later save's dd has written that file and before
  its mv, and truncates it: the mv succeeds, the table is cut short and the save
  reports success, against handle.hpp 31. `SavedIsOnDisk` without the condition
  on `strays` is violated in just this way, in twelve states: `TransferFails`,
  `Release`, `Retrieve`, `StartTransfer`, `FinishTransfer`, `LateStart`, `Move`.
* file: a file that changes its type keeps the default owner and mode where the
  ones asked for equal those of the old file (file.cc 321; `Applied`). With
  force, a directory that is to become a link is removed before update_target
  refuses because "force is not set" (file.cc 246, 431).
* file: writes are not checked (file.cc 411): a full disk loses the content and
  the call succeeds; the model has no full disk. `force` is declared boolean (file.yaml) but looked up as the string
  "true" (file.cc 233), so what ralsh parses is never seen. The change of
  `ensure` says `was` absent when a file of another type was removed
  (file.cc 249-252). The "internal error" of file.cc 353-357 is reached by a
  batch that names a file twice. A link that is already as asked is removed
  and made again. "644" never equals the "0644" load() writes, so the mode is
  set at every call. A relative name is not paired with its resource
  (provider.cc 56, file.cc 97), so ensure=file truncates the file there.
  "owner" takes no user names although file.yaml says so. A dangling link
  makes get() throw (file.cc 135).
* mount: a filesystem that a provider has mounted is not unmounted by a later
  call on it, since /etc/mtab is read once (mount.cc 18, 204). "defined" and "ghost" are values of ensure that set() refuses. A mount
  that is a ghost cannot be put into the table. Several entries of one mount
  point are emptied together and get() fails from then on. An /etc/mtab that
  does not parse makes every save an error although fstab is written.
  `ensure=present` and `ensure=absent` report a change at every call.
* host: removing a host with two lines throws (host.cc 131), although host.cc
  34-36 speaks of an error. A host without address stays in the tree and makes every later save
  fail. After a failed call get() reports lines that are not in the file.
* both tables: someone else's edit made after the provider was prepared is
  overwritten.
* user: `-m` without `-d` makes usermod fail. A list of groups without the
  primary one differs from what get() shows and is a change at every call.
* simple: ral_unknown in the reply to update is recorded as a change of an
  attribute of that name, and the call succeeds (simple_provider.cc 41).
  `unknown` is not initialized in find() (simple_provider.cc 78): a
  resource that was found may be dropped, and set() then asks the script for
  everything; `Converged` and `ChangesTruthful` hold all the same. A ral_error
  without its ral_eom is lost if the script exits with 0, against
  invoke-simple.md 228. A line out of place takes back() of an empty vector
  (38, 88); a line without a colon is an error and is recorded first (156-166).
  Attributes that already are as asked are not passed: asked for
  `ensure=absent` and a version, a script may see the version only. A list does
  not name absent resources, so a batch of two asks to remove what is not there.
* json: a change of an attribute that the metadata does not know follows an
  optional without a value (json_provider.cc 108), after the script has done its
  work. A reply to set without `changes` is accepted, and nothing is reported
  for a resource unless it is derived. An error that an entry of the reply
  carries, as for a package that cannot exist, is skipped as an unknown
  attribute.
* both kinds of scripts: a line on stderr that is just "error" or the name of
  another level makes `substr` start behind its end and throws (context.cc 133).
* loader: a .prov file that is not executable ends the program: env.script gives
  a null pointer, which is followed (ral.cc 162); the error written for the case
  (ral.cc 271) is never reached here. A negated command of `suitable` with
  nothing behind the "not" throws (prov/spec.cc 149). Nothing makes qualified
  names unique (ral.cc 214): which of two comes first is up to the sorting.
  Over ssh two scripts with the same file name overwrite each other
  (ssh.cc 125), so one provider runs the other's script.
* ralsh: one file with bad metadata makes every command, even one about another
  type, exit with 2 (ralsh.cc 379). A word without "=" among the attributes is
  ignored (ralsh.cc 320). Only a `domain_error` is caught (ralsh.cc 372).
* bindings: Go's GetResources makes an empty list of an error (libral.go 46).
  GetResource gives an error for a resource that is missing, though libral.go
  72-73 says "an empty resource if no match is found". SetResource returns an
  error when a change is not of a string (libral.go 152), after it was made.
  Ruby's set compares nothing with the metadata (libral.cc 74).
* remote tables: a file that cannot be read is passed over (ssh.cc 33), though
  handle.hpp 88-91 asks readers to report errors; edits of such a table, and a
  tree its lens cannot put into text, are "saved" without being written. One
  failed write makes every later save of the handle an error (ssh.cc 64). A
  command that times out throws out of `provider::set` (leatherman, external).

## 5. Proofs

All theorems are for every value of the constants: any number of groups,
users, paths, hosts ..., batches of every length, tables of every length. An
invariant that a run checks is seldom inductive; each proof module begins with
the one that is (`IndInv`, or `TableInd`, `SimpleInd`, `JsonInd` where a module has
two), and proves that `Init` gives it, every action keeps
it and the properties follow. The inductive invariants were checked by TLC on
the same instances before they were proved.

| module | properties of runs proved |
|---|---|
| group | `TypeOK`, `SomeRequestHolds`, `ChangesTruthful`, `OnlyWhenNeeded`, `KeepsPromise` |
| user | `TypeOK`, `EachAttributeHeld`, `ChangesTruthful`, `OnlyWhenNeeded` |
| file | `TypeOK`, `Converged`, `RestUntouched`, `NothingPreciousLost`, `ChangesTruthful`, `Idempotent` |
| mount | `TypeOK`, `Converged`, `OthersKept`, `KeptUntilUnmounted`, `NoNewDuplicates`, `MountsWhatWasAsked` |
| host | `TypeOK`, `Converged`, `AllOrNothing`; and `OthersKept` of the proof module, which no run lists |
| remote table | `TableTypeOK`, `SavedIsOnDisk`, `ReplacedWhole` |
| session | `TypeOK`, `RightProvider`, `OnlyLegalValues`, `ExitTells` |
| simple provider | `SimpleTypeOK`, `NoFaultUnnoticed`, `Converged`, `ChangesTruthful` |
| json provider | `JsonTypeOK`, `NoSpoiltReplyTaken`, `DoneAsReported` |

### Assumptions

They are about the constants only; TLC evaluates each in the runs.
`GroupAssumption`, `UserAssumption`, `MountAssumption`, `HostAssumption`,
`FileAssumption`, `TextAssumption`, `WordsAssumption` (packages): `None`, which stands for "no value", is none
of the values, nor are the words that the code compares with; a batch consists
of shoulds that the provider's YAML admits. `FileAssumption` adds that there
are finitely many paths, that a relative name resolves to a path, that user
names are no user ids and that a link's bits are none that chmod can give.
`UserAssumption` adds that the databases a run begins with are databases.
`WorldsAssumption` (loader): a machine has finitely many provider files.
`RequestsAssumption` (session): arguments are a list, and Ruby lists and sets
only. `OptionAssumption` (metadata): no option of an enum is the empty text.
`CallsAssumption` (packages): there are finitely many packages, and a batch is a
list of shoulds that the metadata of the scripts admits.

### The group provider

* `TypeCorrect`, `MetCompleteHolds` (an update the loop went past has held at
  some moment since the lookup), `PromiseKept` (the refinement of
  `Enforcement`), `SomeRequestAlwaysHolds`, `ChangesTruthfulHolds`,
  `OnlyWhenNeededHolds`.

**Argument.** `UpdateDecision` is the heart: when an update needs no command
its group was as asked when looked up; when its command succeeds the group is
as asked now, or nothing changed and it was so when looked up. This needs
`RecordedFacts` (no recorded change means nothing asked differs) and
`UpdateFacts` (from the types). From it:

* `MetComplete` is inductive together with `TypeOK`: an update that was
  processed, whose `is` satisfied its should, or whose group satisfies it now
  is in `met`. It is stronger than what the refinement needs (processed implies
  met), because an update yet to come is decided from the stale `is`: that it
  held at the lookup must be remembered until then.
* `StepPromise` then maps each action: `NoCommand` and `RunCommand` to
  `Handle(next)`, `CommandFails` to `Fail`, `Finish` to `Succeed` (all are
  processed, so all are met), `Admin` to `Outside`.
* `Tracked` carries what an undisturbed call knows of groups named several
  times: untouched groups are as looked up, touched ones as some should asks.
* `Untouched` and `ToldOfOne` do the same for a batch that names each group
  once: what is yet to come is as looked up and has no changes on record, what
  was done has exactly the changes that `UpdateTells` says happened.

### The user provider

The frame is that of the group provider, with `met` kept for each attribute.
`IndInv` says of the updates that each was made from `before` (`LookedUp`), that
all which held at the lookup is remembered (`Remembered`), that each attribute
asked for by an update behind `next` has held (`Attained`), and that in an
undisturbed call an update still ahead has its user as found and no changes on
record (`Untouched`). `NothingToDo` is the case without a command; `CommandDoes`
says that useradd, usermod and userdel bring about every attribute that
differed, and leaves the others alone; both are per attribute because usermod
-g changes the groups as well, which is why `AsAsked` fails and
`EachAttributeHeld` holds. `ChangesTruthful` follows from `UpdateTells`, one update's
changes, carried over the rest of the loop by `ToldAdvance`.

### The file provider

There are two invariants, as file.cc has two kinds of promises.

* `IndInv` is for every batch, with names that repeat, relative names and modes
  of any form. `StageOK` says what an update that has come to a system call is
  known to be (`Fits`): what is being removed was not refused. With that
  `NothingPreciousLost` is inductive, although an update decides from the lookup
  and not from the disk: what may be lost is what some update's path names and
  what the lookup saw there, so `Refused` was asked about the right thing. An
  earlier update of the same path may have put something else there; that was
  not on the disk when the call began.
* `PlainInv` is for `Plain` batches. It gives, for the update in hand, the entry
  of its file (`EntryAt`) and the changes recorded for it (`NotesAt`) at each
  stage, both computed from the lookup, and says that files of no update begun
  are as found and files of updates done stay as they were left. `Converged`,
  `RestUntouched` and `ChangesTruthful` follow from the last stage; the entry
  is compared without its mode where a link of the batch is given a mode
  (`Like`), since that chmod reaches another file. `Accepted` is needed because
  the owner and the mode of an entry are what stoi and stol made of the text,
  which is known only once they did not throw.
* `Idempotent` is weaker than what a step needs: `CalmInv` states it in every
  state of the call.

`DerefFacts` is about links: following them ends at a path that is no link, or
nowhere, however they are chained.

### The two tables

`Lists_proofs` shows what the operators make of lists of every length:
`UnderAppend`, `UnderWithout`, `UnderSame` ... (the members of one name after an
append, a removal, a change elsewhere), `PairType` and `AddAbsentType` (the
updates of a batch), `LinesAfterRm`, `LinesAfterErase`, `LinesAfterRewrite`
(the lines of every name after an edit of the tree).

* **Mount.** `IndInv` splits an update into its entry and its mount, each to be
  done or done (`EntryLeft`, `EntryMade`, `MountLeft`, `MountMade`), as the stages
  of set() interleave the two in a different order for every ensure.
  `EntriesKept` and `MountsKept` say of the ones to be done that they are as
  found, `EntriesMade` and `MountsMade` of the others what was asked.
  `KeptUntilUnmounted` and `NoNewDuplicates` are about the disk, which follows
  the tree at a save, so both have a counterpart about the tree
  (`KeptInTree`, `OneInTree`), and the first needs `Torn`: an entry that was
  erased and not removed has no name, and no tree with such a node is saved.
  `ReadyToMount` is the order that `MountsWhatWasAsked` is about: when mount is
  due, the tree has the entry and the disk has the tree.
* **Host.** The tree survives failed calls and is then not the file any more,
  so `IndInv` compares the tree with the tree the call began with (`Made`,
  `Untouched`) and the file with the file (`Saved`). `Converged` follows at the
  save, for any tree a failed call has left.

### The remote table

**Argument.** `SavedIsOnDisk` alone is not inductive: `LateMove` could put the
temporary file over the one just saved, and `Move` could move half a text.
`TableInd` adds `Temp` and `Alone`. `Temp` says what the temporary file is as long
as no dd outlived its call: while dd runs, it is what that dd has written so
far, unless a late move took it away from under the dd, which then writes on
into a file that is not the temporary one any more; when mv runs, it is whole
or gone; after a save that said ok, it is gone. A table that was not read has
nothing to save. `Alone` says what can be at large, by `strays`: no dd, move or
orphan before `strays` has it, so that a program without strays finds the
temporary file as its save left it. `ReplacedWhole` follows step by step from
the same invariant: `StepReplaces`. Nothing is proved, since nothing holds, of
what is in the file after a dd outlived its call.

### The session

`IndInv` follows main(): `FoundSoFar` (unless a command failed, the providers
kept are exactly those that the good files looked at make), `SpecsRead` (each
has its metadata from its own file), `CopiesKept` (a script that was copied is
still there), `Stages` and `ArgumentsRead` (nothing runs before the provider is
chosen and all arguments are read). `RightProvider` needs both directions of
`FoundSoFar`: that the one chosen is good, and that one which would have had
precedence was not passed over. `OnlyLegalValues` rests on `ReadIsLegal` and
`ReadKeepsText`: what `ReadString` gives is legal for the type and has the text
that was given; `LastForFacts`: of a repeated argument the last counts.
`ExitTells` is shown step by step (`ExitStep`), as `Answer` is the step that ends
the program.

### The two kinds of scripts

What a script may do is the same in both: the package it was asked to change
ends in one of `Results`, with its changes told or left to be derived, or a
fault gets in between. `ResultsAsAsked` and `ResultsStay` say of every result
that it is as asked, given arguments that make sense, and that what was not
asked for stays; `DueTruthful` says that what `MaybeAdd` derives from `is` and
`should` completes what the script told; `PairBatch` that each update is made
from a should of the batch and what the lookup has read.

* **Simple.** The trouble is that a run is read line by line, so a fault is on
  record long before the code can know of it. `SimpleInd` has a part for each
  way in which what is yet to be read matters. `Announced`: of a fault other
  than an error without an end there is still something to come, the exit
  status, a line that is no entry (`GarbageDue`), an error with its end
  (`ErrorDue`); it is noticed before the run ends, so `ok` excludes it
  (`NoFaultUnnoticed`). It needs `Framed`, in `Shape`: the end of an error stands
  after its beginning only. `Clean`: without a fault there is none of these, so
  that no line is lost. `LookedUp`: each line of a lookup belongs to the name
  above it, in what is to be read or has been, so that what is read of a package
  is what it was (`AsBefore`), whether or not `unknown` then drops it. `Progress`
  goes through the loop: a package whose updates are ahead is as it was and has
  no changes on record (`Brought`); behind them it is as asked (`Converged`)
  and nothing that changed is missing (`ChangesTruthful`). While an update is
  read, what is not on record is still in `out`, or left to be derived and equal
  to the argument (`ReadOn`). `Converged` rests on `AskedNow`: what the script is
  told and what it is not told since the lookup found it as asked make up the
  should.
* **Json.** A reply is one value, and it is enough to say what holds between
  the runs and the steps that read them. `Spotted`: a fault on record, `loud`
  excepted, is one that one of the code's four tests finds in the reply
  (`SpoiltFacts`: every way of spoiling a reply makes it `Wrong`); hence
  `NoSpoiltReplyTaken`. `Fetched`: what the updates know is what the packages
  were, unless somebody else changed one since (`quiet`). `Accounted` is what the
  second run leaves: packages as asked; each one mentioned with exactly its
  differences, or unchanged, or derivable from its should. It does not have
  `quiet` as a condition, since the script looks for itself. `DoneTruthful` makes
  `DoneAsReported` of it when the reply is read: of a package that is mentioned
  the changes are those of its entries, of another those derived from its first
  update, and the two never mix. `OutcomesFacts` is about `Outcomes`, where the
  updates of a batch may bring the packages: it holds for batches of any length.

### How recursion is treated

The provers know no induction that takes a formula as a parameter. Where a
proof is over all lists or all numbers, the formula is made a set: `NatInduct`
and `SeqInduct` say that a set which has the first number (the empty list) and
with each one its successor has all; they follow from the well-foundedness of
<. A recursive function is a CHOOSE of some function with its equation, so each
needs a lemma that there is one: `PartExists` (`Sift`), `FoldExists`, used for
`AddAbsent`, `MaybeAdd`, `Outcomes`, `FlattenSeq` and `Deref`. For this `Sift`,
`AddAbsent` and `MaybeAdd` are written as recursive functions and not with
SelectSeq and a fold, which the provers cannot look into. What holds of the
members of lists is carried over `FlattenSeq` by `FlattenHolds`, over `Pair` by
`PairHolds`; `MissingFacts` and `MaybeAddFacts` say what `MaybeAdd` adds.

### What is not proved

Every invariant and action property that a passing run checks is proved, each
for its module's specification. What stays with TLC:

* `Answered` of group and remote table: liveness under fairness is out of the
  prover's reach.
* The properties of the violation runs (`SavedMeansSaved`, `AsAsked`,
  `FatalMeansError`) are false.

No theorem and no property is about the changes that the host provider records:
`AddDiffs` folds with an operator for a parameter, which the provers cannot look
into. The theorems are about the models; that a script, a command, augeas or the
disk behaves as the models have it is taken from how the code uses them.

## 6. What is not modelled, and the plan

Not modelled, and not planned:

* the mruby provider, whose code here is a header and a Ruby library for an
  embedded interpreter, and the mruby and mirb programs, which come from mruby;
* the provider scripts (`data/providers`), programs in shell, Python and Ruby
  that the simple and json models have as external;
* the text of the emitters, the objects the bindings build, ralsh's option
  parser, YAML and JSON syntax: formatting and parsing without state. Which
  answer is printed, and what Go makes of it, is in `Session`;
* the conversion of JSON values to attribute types: the packages of
  `JsonProvider` have strings, so numbers taken for booleans and the string
  that a JSON null becomes do not occur;
* what `noop` would do: no caller sets it;
* the search paths and lens directories that `ral::create` puts into the
  environment;
* several tables in one remote augeas handle, `read` and `write` of targets,
  which no provider calls;
* other programs that change files, /etc/hosts or /etc/fstab during a call: the
  code takes no precaution whose effect a property could state.

The plan is done: `Resources`, `Enforcement`, `GroupProvider`, `FileProvider`,
`AugeasTree`, `MountProvider`, `HostProvider`, `RemoteTable`, `UserProvider`,
`Packages`, `SimpleProvider`, `JsonProvider`, `Metadata`, `Loader`, `Session`, and
the proofs about all of them (section 5). Worth adding if the code grows that
way: several tables behind one remote handle, and what the host provider reports.
