-------------------------------- MODULE Session --------------------------------
(***************************************************************************)
(* One use of libral from outside: a run of ralsh (exe/ralsh.cc), a call   *)
(* of the Go binding (libralgo, over the C functions of cwrapper.cc) or of *)
(* the Ruby binding.  It finds the provider, reads the attributes, has the *)
(* provider do what was asked, and says how that went: ralsh by its exit   *)
(* status, 0 for success, 1 for missing and 2 for error, Go by an error,   *)
(* Ruby by an exception.                                                   *)
(*                                                                         *)
(* What the provider does is the subject of the other modules; here it     *)
(* succeeds, fails or throws, and may log an error.                        *)
(***************************************************************************)
EXTENDS Loader

CONSTANT Requests   \* what may be asked for

VARIABLES
  req,      \* what is asked for
  pc,       \* "start", "loading", "chosen", "parsed" or "exited"
  chosen,   \* the provider, or None
  should,   \* the attributes that were read
  ran,      \* history: the file whose code has done the work, or None
  done,     \* history: what was asked for has been done
  shown,    \* what was printed, or the text that cwrapper.cc returned
  exit      \* "success", "missing", "error" or "crash"

session == <<req, pc, chosen, should, ran, done, shown, exit>>
vars == <<loader, session>>

\* A request comes `via` ralsh with one of its emitters or a binding.  It has a
\* verb, for all but "providers" a type and perhaps a provider's name, for a
\* "find" whether an absent resource counts as missing, and for a "set" the
\* arguments: each an attribute, None for one without a "=", and the text of a
\* string or, in Ruby, of an array or another object.
ViaRalsh == req.via \in {"puppet", "json", "quiet"}

\* The Ruby binding has get and set only.
ASSUME RequestsAssumption ==
  /\ \A r \in Requests :
       /\ Len(r.args) \in Nat /\ DOMAIN r.args = 1..Len(r.args)
       /\ r.via = "ruby" => r.verb \in {"list", "set"}
  /\ None \notin {"success", "missing", "error", "crash"}

NoAttributes == [a \in {} |-> None]

Init ==
  /\ Found
  /\ req \in Requests
  /\ ViaRalsh \/ world.local
  /\ pc = "start" /\ chosen = None /\ should = NoAttributes
  /\ ran = None /\ done = FALSE /\ shown = "nothing" /\ exit = None

Exit(status) == pc' = "exited" /\ exit' = status

-----------------------------------------------------------------------------
(* How an answer leaves libral: "error", "missing", or what it holds. *)

\* puppet_emitter.
PuppetText(answer) == IF answer = "missing" THEN "nothing" ELSE answer

\* json_emitter, on the terminal and as the result of the C functions.
JsonText(answer) == IF answer = "missing" THEN "{}" ELSE answer

Text(answer) ==
  CASE req.via = "quiet" -> "nothing"
    [] req.via = "puppet" -> PuppetText(answer)
    [] OTHER -> JsonText(answer)

\* The C functions find nothing wrong with an answer that is an error, and what
\* Go makes of the text is all that is left: a list without the entry it looks
\* for is empty, the other functions miss what they look for.
GetResources(text) == {"success"}
GetResource(text) == IF text = "resource" THEN {"success"} ELSE {"error"}

\* Changes must be of strings, and the update one of a single resource.
SetResource(text) == IF text = "updates" THEN {"success", "error"} ELSE {"error"}

GoStatus(text) ==
  CASE req.verb = "find" -> GetResource(text)
    [] req.verb = "set" -> SetResource(text)
    [] OTHER -> GetResources(text)

\* An exception for an error.
RubyStatus(answer) == IF answer = "error" THEN "error" ELSE "success"

\* RalshStatus that forgets about the log.
UnloggedStatus(answer, log) == IF answer \in {"error", "missing"} THEN answer ELSE "success"

\* ralsh's last line looks at what has been logged.
RalshStatus(answer, log) ==
  CASE answer \in {"error", "missing"} -> answer
    [] OTHER -> IF log THEN "error" ELSE "success"

Answer(answer) ==
  /\ shown' = Text(answer)
  /\ pc' = "exited"
  /\ exit' \in CASE req.via = "go" -> GoStatus(Text(answer))
                 [] req.via = "ruby" -> {RubyStatus(answer)}
                 [] OTHER -> {RalshStatus(answer, logged')}

-----------------------------------------------------------------------------
(* The provider. *)

NoType == req.verb = "explain" /\ req.type = None

\* ral::create and, for another machine, ral::connect.
Start ==
  /\ pc = "start"
  /\ ~NoType
  /\ pc' = "loading"
  /\ UNCHANGED <<loader, req, chosen, should, ran, done, shown, exit>>

RefuseStart ==
  /\ pc = "start"
  /\ NoType \/ ~world.local
  /\ shown' = "error"
  /\ Exit("error")
  /\ UNCHANGED <<loader, req, chosen, should, ran, done>>

Loading ==
  /\ pc = "loading" /\ Load
  /\ UNCHANGED session

\* providers() follows the null pointer.
LoadCrash ==
  /\ pc = "loading" /\ \E f \in Due : NoCommand(f)
  /\ Exit("crash")
  /\ UNCHANGED <<loader, req, chosen, should, ran, done, shown>>

Loaded == pc = "loading" /\ todo = {}

ListProviders ==
  /\ Loaded /\ req.verb = "providers"
  /\ done' = TRUE
  /\ UNCHANGED <<loader, req, chosen, should, ran>>
  /\ Answer("providers")

UnknownProvider ==
  /\ Loaded /\ req.verb # "providers"
  /\ FindProvider(req.type, req.name) = {}
  /\ shown' = "unknown"
  /\ Exit("error")
  /\ UNCHANGED <<loader, req, chosen, should, ran, done>>

Choose ==
  /\ Loaded /\ req.verb # "providers"
  /\ chosen' \in FindProvider(req.type, req.name)
  /\ pc' = "chosen"
  /\ UNCHANGED <<loader, req, should, ran, done, shown, exit>>

\* Whatever was logged.
Explain ==
  /\ pc = "chosen" /\ req.verb = "explain"
  /\ shown' = "explanation"
  /\ done' = TRUE
  /\ Exit("success")
  /\ UNCHANGED <<loader, req, chosen, should, ran>>

-----------------------------------------------------------------------------
(* The attributes to set. *)

\* value_from_ruby, which asks no metadata.
RubyValue(arg) == IF arg.kind \in {"string", "array"} THEN Value(arg.kind, arg.text) ELSE None

\* provider::parse.
Parse(arg) ==
  CASE req.via = "ruby" -> RubyValue(arg)
    [] arg.attr \in DOMAIN chosen.spec.attrs -> ReadString(chosen.spec.attrs[arg.attr], arg.text)
    [] OTHER -> None

\* The last argument for an attribute counts, those without a "=" are ignored.
LastFor(attr) == SelectLastInSeq(req.args, LAMBDA arg : arg.attr = attr)

Named == {req.args[i].attr : i \in DOMAIN req.args} \ {None}

Should == [a \in Named |-> Parse(req.args[LastFor(a)])]

\* set_resource wants an argument.
Readable ==
  /\ \A i \in DOMAIN req.args : req.args[i].attr # None => Parse(req.args[i]) # None
  /\ req.via = "go" => req.args # <<>>

RefuseArguments ==
  /\ pc = "chosen" /\ req.verb = "set" /\ ~Readable
  /\ shown' = "error"
  /\ Exit("error")
  /\ UNCHANGED <<loader, req, chosen, should, ran, done>>

ReadArguments ==
  /\ pc = "chosen" /\ req.verb = "set" /\ Readable
  /\ should' = Should
  /\ pc' = "parsed"
  /\ UNCHANGED <<loader, req, chosen, ran, done, shown, exit>>

-----------------------------------------------------------------------------
(* The work. *)

Ready ==
  \/ pc = "parsed"
  \/ pc = "chosen" /\ req.verb \in {"find", "list"}

\* A script is copied before it first runs (command::upload); the one that runs
\* is the one that is under its name then.
RunsCode ==
  LET f == chosen.file IN
  \/ /\ BuiltIn(f) \/ world.local
     /\ ran' = f /\ UNCHANGED remote
  \/ /\ ~BuiltIn(f) /\ ~world.local /\ chosen.uploaded
     /\ ran' = remote[File[f].base] /\ UNCHANGED remote
  \/ /\ ~BuiltIn(f) /\ ~world.local /\ ~chosen.uploaded
     /\ Uploaded(f) /\ ran' = f

\* A script may log errors (context::log_line).
Works ==
  /\ RunsCode
  /\ logged' \in {logged, logged \/ ~BuiltIn(chosen.file)}
  /\ UNCHANGED <<world, todo, provs, hiccup, req, chosen, should>>

\* The script does not get to the other machine.
NotCopied ==
  /\ ~world.local /\ ~BuiltIn(chosen.file) /\ ~chosen.uploaded
  /\ UNCHANGED <<loader, req, chosen, should, ran>>

\* The provider returns an error.
Fail ==
  /\ Ready
  /\ Works \/ NotCopied
  /\ UNCHANGED done
  /\ Answer("error")

\* Only a domain_error is caught, and none by the bindings.
Throw ==
  /\ Ready
  /\ Works
  /\ Exit("crash")
  /\ UNCHANGED <<done, shown>>

Succeed ==
  /\ Ready /\ req.verb \in {"set", "list"}
  /\ Works
  /\ done' = TRUE
  /\ Answer(IF req.verb = "set" THEN "updates" ELSE "resources")

\* provider::find among what get() returned: the resource is there.
Find ==
  /\ Ready /\ req.verb = "find"
  /\ Works
  /\ done' = TRUE
  /\ Answer("resource")

\* It is there with ensure = absent.
FindAbsent ==
  /\ Ready /\ req.verb = "find" /\ req.absent
  /\ Works
  /\ shown' = Text("resource")
  /\ Exit("missing")
  /\ UNCHANGED done

\* It is not there.
FindNone ==
  /\ Ready /\ req.verb = "find"
  /\ Works
  /\ UNCHANGED done
  /\ Answer("missing")

Ended == pc = "exited" /\ UNCHANGED vars

Next ==
  \/ Start \/ RefuseStart \/ Loading \/ LoadCrash
  \/ ListProviders \/ UnknownProvider \/ Choose \/ Explain
  \/ RefuseArguments \/ ReadArguments
  \/ Fail \/ Throw \/ Succeed \/ Find \/ FindAbsent \/ FindNone
  \/ Ended

Spec == Init /\ [][Next]_vars

-----------------------------------------------------------------------------
(* Properties. *)

\* The state has its type, and a provider is chosen once all of them are known.
TypeOK ==
  /\ todo \subseteq world.files
  /\ \A p \in provs : p.file \in world.files \ todo /\ p.spec.suitable
  /\ \A b \in Bases : remote[b] \in world.files \cup {None}
  /\ logged \in BOOLEAN /\ hiccup \in BOOLEAN /\ done \in BOOLEAN
  /\ pc \in {"start", "loading", "chosen", "parsed", "exited"}
  /\ (exit = None) = (pc # "exited")
  /\ exit \in {None, "success", "missing", "error", "crash"}
  /\ chosen # None => todo = {} /\ chosen \in provs
  /\ ran \in world.files \cup {None}

Distinct == \A f, g \in world.files : ~BuiltIn(f) /\ ~BuiltIn(g) /\ File[f].base = File[g].base => f = g

\* Whatever the other files in the directories are like and in whatever order
\* they are read, a name gives the provider that it stands for, a type the only
\* one that serves it, and nobody is told that there is none when there is one:
\* unless a command failed on the other machine (ral.cc:140-236).  The code that
\* runs is then the chosen provider's own, if the scripts have different names
\* or run where they are (ssh.cc:125, command.cc:66).
RightProvider ==
  /\ chosen # None /\ ~hiccup =>
       /\ chosen.file \in Serving(req.type, req.name)
       /\ req.name = None => Serving(req.type, req.name) = {chosen.file}
  /\ shown = "unknown" /\ ~hiccup =>
       IF req.name # None THEN Serving(req.type, req.name) = {}
       ELSE Cardinality(Serving(req.type, req.name)) # 1
  /\ ran # None /\ (world.local \/ Distinct) => ran = chosen.file

\* What the metadata says of a type, read once more.
Legal(type, value) ==
  CASE type.word = "string" -> value.tag = "string"
    [] type.word = "boolean" -> value.tag = "boolean"
    [] type.word = "array[string]" -> value.tag = "array" /\ "" \notin ToSet(value.v)
    [] OTHER -> value.tag = "string" /\ Len(value.v) = 1 /\ value.v[1] \in ToSet(type.options)

\* A provider is asked to set only attributes that its metadata declares, to
\* values that the metadata admits, and is asked for nothing at all when one of
\* the arguments is wrong; what it is asked for is what was written last
\* (ralsh.cc:313-335, attr/spec.cc:121; in Ruby nobody looks, libral.cc:74).
OnlyLegalValues ==
  req.verb = "set" /\ req.via # "ruby" =>
    /\ \A a \in DOMAIN should :
         /\ a \in DOMAIN File[chosen.file].meta.attrs
         /\ Legal(File[chosen.file].meta.attrs[a].type, should[a])
    /\ ran # None => DOMAIN should = Named
    /\ ran # None => \A i \in DOMAIN req.args :
         (\A j \in i + 1 .. Len(req.args) : req.args[j].attr # req.args[i].attr) =>
            \/ req.args[i].attr = None
            \/ should[req.args[i].attr].tag = "boolean"
            \/ should[req.args[i].attr].v = <<>> /\ req.args[i].text = <<"">>
            \/ should[req.args[i].attr].v = req.args[i].text

\* The outcome can be relied on: success is reported only for what was done, and
\* by ralsh, but for an explanation, only when nothing at all has been logged as
\* an error; a missing resource only by a query; and an error that is no failure
\* to do what was asked has been logged (ralsh.cc:335-379).  The Go binding is
\* the exception both ways: a list whose provider failed is an empty list, and a
\* change that is not of a string is an error (libral.go:39, libral.go:153).
ExitTells ==
  /\ exit = "success" => done \/ (req.via = "go" /\ req.verb = "list")
  /\ exit = "success" /\ ViaRalsh => ~logged \/ req.verb = "explain"
  /\ exit = "missing" => req.verb = "find" /\ ~done
  /\ exit = "error" /\ done => logged \/ (req.via = "go" /\ req.verb = "set")
  /\ pc = "exited" /\ req.via # "quiet" /\ shown \in {"providers", "explanation", "resources", "updates"} => done
=============================================================================
