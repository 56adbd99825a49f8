------------------------------- MODULE MCSession -------------------------------
(* Session on small instances: see the run session_calls in the README. *)
EXTENDS Session

CONSTANTS u1, h1, a1, a2, d1, s1, s2, s3, w1, w2, w3, w4, w5

Type(word, options) == [word |-> word, bracketed |-> options # <<>>, options |-> options]

Attribute(type) == [type |-> type, kind |-> "rw"]

Name == Attribute(Type("string", <<>>))
Ensure == Attribute(Type("enum", <<"present", "absent">>))

Suitable(commands) == [kind |-> "commands", yes |-> FALSE, commands |-> commands]
Needs(cmd) == Suitable(<<[cmd |-> cmd, negated |-> FALSE]>>)
Without(cmd) == Suitable(<<[cmd |-> cmd, negated |-> TRUE]>>)
Always == [kind |-> "boolean", yes |-> TRUE, commands |-> <<>>]

Meta(type, name, invoke, suitable, attrs) ==
  [parses |-> TRUE, type |-> type, name |-> name, invoke |-> invoke, suitable |-> suitable, attrs |-> attrs]

Script(dir, base, external, meta) ==
  [dir |-> dir, base |-> base, everywhere |-> FALSE, needs |-> {}, executable |-> TRUE,
   external |-> external, describes |-> ~external, meta |-> meta]

Package == [name |-> Name, ensure |-> Ensure]

\* Two built-in providers.
Useradd ==
  [Script(0, "useradd", FALSE,
          Meta("user", None, None, Always,
               [name |-> Name, groups |-> Attribute(Type("array[string]", <<>>)),
                system |-> Attribute(Type("boolean", <<>>))]))
   EXCEPT !.needs = {"useradd"}]
Aug == [Script(0, "aug", FALSE, Meta("host", None, None, Always, [name |-> Name]))
        EXCEPT !.everywhere = TRUE]

\* Three providers for packages: two have the same file name, two the same name.
Apt == Script(1, "apt", FALSE, Meta("package", None, "simple", Needs("dpkg"), Package))
Dnf == Script(1, "dnf", TRUE, Meta("package", "apt", "json", Without("dpkg"), Package))
Apt2 == Script(2, "apt", TRUE, Meta("package", "pacman", "simple", Always, Package))

\* One for services, and its metadata wrong in several ways.
Service == Script(1, "svc", FALSE, Meta("service", None, "simple", Always, Package))
NoYaml == [Service EXCEPT !.meta.parses = FALSE]
NoInvoke == [Service EXCEPT !.meta.invoke = "grpc"]
NoSuitable == [Service EXCEPT !.meta.suitable = [Always EXCEPT !.kind = "missing"]]
NoOption == [Service EXCEPT !.meta.attrs.ensure = Attribute(Type("enum", <<"Present">>))]
NoName == [Service EXCEPT !.meta.attrs = [ensure |-> Ensure]]

\* One that fails to describe itself, and one that cannot be executed.
Silent == [Service EXCEPT !.describes = FALSE]
Data == [Service EXCEPT !.executable = FALSE, !.base = "data"]

MCFile ==
  (u1 :> Useradd @@ h1 :> Aug @@ a1 :> Apt @@ a2 :> Apt2 @@ d1 :> Dnf
   @@ s1 :> Service @@ s2 :> Silent @@ s3 :> Data
   @@ w1 :> NoYaml @@ w2 :> NoInvoke @@ w3 :> NoSuitable @@ w4 :> NoOption @@ w5 :> NoName)

Services == {s1, s2, w1, w2, w3, w4, w5}

\* Up to three files, and the providers for packages all together with another one.
FileSets ==
  {{f, g, h} : f, g, h \in DOMAIN MCFile} \cup {{a1, a2, d1, s} : s \in DOMAIN MCFile}

MCWorlds ==
  {[files |-> fs, path |-> path, local |-> local] :
     fs \in {fs \in FileSets : Cardinality(fs \cap Services) <= 1},
     path \in {{}, {"dpkg", "useradd"}}, local \in BOOLEAN}

Request(via, verb, type, name, absent, args) ==
  [via |-> via, verb |-> verb, type |-> type, name |-> name, absent |-> absent, args |-> args]

Arg(attr, text) == [attr |-> attr, text |-> text, kind |-> "string"]

\* Arguments for a package and for a user.
PackageArgs ==
  {<<Arg("ensure", <<"present">>)>>,
   <<Arg("ensure", <<"latest">>)>>,
   <<Arg("ensure", <<"present", "absent">>)>>,
   <<Arg("name", <<"b", "c">>), Arg("ensure", <<"present">>), Arg("ensure", <<"absent">>)>>,
   <<Arg("ensure", <<"present">>), Arg("color", <<"b">>)>>,
   <<Arg("ensure", <<"present">>), Arg(None, <<"b">>)>>}

UserArgs ==
  {<<Arg("system", <<"TRUE">>), Arg("groups", <<"b", "c">>)>>,
   <<Arg("system", <<"maybe">>)>>,
   <<Arg("groups", <<"">>), Arg("system", <<"false">>)>>,
   <<Arg("groups", <<"b", "">>)>>}

RubyArgs ==
  {<<Arg("ensure", <<"latest">>)>>,
   <<[Arg("color", <<"b", "c">>) EXCEPT !.kind = "array"]>>,
   <<[Arg("ensure", <<"present">>) EXCEPT !.kind = "other"]>>}

MCRequests ==
  {Request(via, "providers", None, None, FALSE, <<>>) : via \in {"puppet", "quiet", "go"}}
  \cup {Request("puppet", "explain", type, None, FALSE, <<>>) : type \in {None, "service"}}
  \cup {Request(via, "list", "package", name, FALSE, <<>>) :
          via \in {"puppet", "quiet", "go", "ruby"}, name \in {None, "apt"}}
  \cup {Request(via, "find", "host", None, FALSE, <<>>) : via \in {"json", "go"}}
  \cup {Request("json", "find", "package", "apt", TRUE, <<>>)}
  \cup {Request("puppet", "set", "package", None, FALSE, args) : args \in PackageArgs}
  \cup {Request("quiet", "set", "package", "apt", FALSE, <<Arg("ensure", <<"absent">>)>>)}
  \cup {Request("go", "set", "user", None, FALSE, args) : args \in UserArgs \cup {<<>>}}
  \cup {Request("ruby", "set", "package", "apt", FALSE, args) : args \in RubyArgs}

MCOption == {"present", "absent"}
=============================================================================
