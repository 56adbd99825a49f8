-------------------------------- MODULE Loader --------------------------------
(***************************************************************************)
(* How libral finds its providers (ral.cc): the built-in ones, then every  *)
(* *.prov file in the provider directories, each asked for its metadata;   *)
(* and which of them a name selects.                                       *)
(*                                                                         *)
(* The machine that is managed is this one, or another one over ssh, to    *)
(* which a script is copied before it first runs there: into one temporary *)
(* directory, under its base name (target/ssh.cc).                         *)
(***************************************************************************)
EXTENDS Metadata

CONSTANTS
  File,     \* the provider files: a function to what they are like
  Worlds    \* what a run may find

VARIABLES
  world,    \* the files, the commands on the machine and whether it is this one
  todo,     \* files that providers() has still to look at
  provs,    \* the providers found so far
  remote,   \* what the other machine has under each base name: a file or None
  logged,   \* error_has_been_logged()
  hiccup    \* history: a command on the other machine failed, or the tables of a
            \* built-in provider could not be loaded

loader == <<world, todo, provs, remote, logged, hiccup>>

\* A file has its directory (0 for the providers that are built in, which work
\* `everywhere` or on this machine only, if it has the commands that they
\* `need`), its base name, whether it is executable, its metadata `meta`, and
\* whether that is in a file beside it (`external`) or the script `describes`
\* itself, which it may do badly.  A world has the files that are there, the
\* commands in the path, and whether the machine is this one (local).
BuiltIn(f) == File[f].dir = 0

Bases == {File[f].base : f \in world.files}

ASSUME WorldsAssumption ==
  \A w \in Worlds : IsFiniteSet(w.files) /\ w.files \subseteq DOMAIN File

\* ral's constructor and, once connected, its target.
Found ==
  /\ world \in Worlds
  /\ todo = world.files
  /\ provs = {}
  /\ remote = [b \in Bases |-> None]
  /\ logged = FALSE
  /\ hiccup = FALSE

\* Directories in the order they were given, the files of one in any order.
Due == {f \in todo : \A g \in todo : File[f].dir <= File[g].dir}

\* ssh::which finds nothing, too, when its command fails.
Which == {world.path} \cup IF world.local THEN {} ELSE {{}}

Provider(f, spec) ==
  [file |-> f, spec |-> spec, uploaded |-> ~BuiltIn(f) /\ ~File[f].external]

\* Prepared that does not ask whether the provider is suitable.
PreparedAnyway(f, spec) == provs \cup {Provider(f, spec)}

\* init_provider.
Prepared(f, spec) == IF spec # None /\ spec.suitable THEN provs \cup {Provider(f, spec)} ELSE provs

\* What a built-in provider finds out by itself.
Usable(f) == ~BuiltIn(f) \/ File[f].everywhere \/ (world.local /\ File[f].needs \subseteq world.path)

\* A built-in provider reads its metadata when it is prepared; one that works
\* everywhere may not get at its tables.
LoadBuiltIn(f) ==
  /\ BuiltIn(f)
  /\ \E which \in Which, ok \in {TRUE, ~File[f].everywhere} :
       /\ provs' = IF ok THEN Prepared(f, ReadSpec(File[f].meta, File[f].base, which, Usable(f))) ELSE provs
       /\ hiccup' = (hiccup \/ ~ok \/ which # world.path)
  /\ todo' = todo \ {f}
  /\ UNCHANGED <<world, remote, logged>>

\* Locally a script that is not executable is no command: env.script returns a
\* null pointer, which the callback follows.
NoCommand(f) == ~BuiltIn(f) /\ world.local /\ ~File[f].executable

\* ssh::upload.
Uploaded(f) == remote' = [remote EXCEPT ![File[f].base] = f]

\* get_metadata: the file beside the script, or what the script says of itself
\* when it is run, over there once it is copied.
GetMetadata(f, ok) ==
  /\ ok \/ (~world.local /\ ~File[f].external)
  /\ IF world.local \/ File[f].external THEN UNCHANGED remote
     ELSE Uploaded(f) \/ (~ok /\ UNCHANGED remote)

\* The file is passed over with a warning.
SkipScript(f) ==
  /\ ~BuiltIn(f) /\ ~NoCommand(f)
  /\ \E ok \in BOOLEAN :
       /\ GetMetadata(f, ok)
       /\ ~ok \/ (~File[f].external /\ ~File[f].describes)
       /\ hiccup' = (hiccup \/ ~ok)
  /\ todo' = todo \ {f}
  /\ UNCHANGED <<world, provs, logged>>

Callable(spec) == spec # None /\ spec.invoke \in {"simple", "json"}

\* LoadScript that gives up on all other files, too, when one has bad metadata.
LoadScriptOrNone(f) ==
  /\ ~BuiltIn(f) /\ ~NoCommand(f)
  /\ File[f].external \/ File[f].describes
  /\ GetMetadata(f, TRUE)
  /\ \E which \in Which :
       LET spec == ReadSpec(File[f].meta, File[f].base, which, TRUE) IN
       /\ provs' = IF Callable(spec) THEN Prepared(f, spec) ELSE provs
       /\ todo' = IF Callable(spec) THEN todo \ {f} ELSE {}
       /\ logged' = (logged \/ ~Callable(spec))
       /\ hiccup' = (hiccup \/ which # world.path)
  /\ UNCHANGED world

LoadScript(f) ==
  /\ ~BuiltIn(f) /\ ~NoCommand(f)
  /\ File[f].external \/ File[f].describes
  /\ GetMetadata(f, TRUE)
  /\ \E which \in Which :
       LET spec == ReadSpec(File[f].meta, File[f].base, which, TRUE) IN
       /\ provs' = IF Callable(spec) THEN Prepared(f, spec) ELSE provs
       /\ logged' = (logged \/ ~Callable(spec))
       /\ hiccup' = (hiccup \/ which # world.path)
  /\ todo' = todo \ {f}
  /\ UNCHANGED world

Load == \E f \in Due : LoadBuiltIn(f) \/ SkipScript(f) \/ LoadScript(f)

-----------------------------------------------------------------------------
\* find_provider: one that has the qualified name, whichever comes first, or
\* the only one of a type.
FindProvider(type, name) ==
  LET ofType == {p \in provs : p.spec.type = type}
  IN  IF name # None THEN {p \in ofType : p.spec.name = name}
      ELSE IF Cardinality(ofType) = 1 THEN ofType ELSE {}

\* What the same name selects among all the files that a provider can be made
\* of, whatever became of the others.
Serving(type, name) ==
  {f \in world.files :
     LET spec == ReadSpec(File[f].meta, File[f].base, world.path, Usable(f))
     IN  /\ spec # None /\ spec.suitable
         /\ spec.type = type /\ name \in {None, spec.name}
         /\ BuiltIn(f) \/ (spec.invoke \in {"simple", "json"} /\ (File[f].external \/ File[f].describes))}
=============================================================================
