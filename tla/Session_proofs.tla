---------------------------- MODULE Session_proofs ----------------------------
(* Theorems about Session and the Loader below it, for any provider files,  *)
(* any machine they may be found on and any request; and about a table that *)
(* a provider works on over there, RemoteTable.                             *)
EXTENDS Session, RemoteTable, FiniteSetTheorems, WellFoundedInduction, NaturalsInduction, TLAPS

-----------------------------------------------------------------------------
(* The inductive invariant. *)

\* What a file says of itself on the machine that is managed.
Own(f) == ReadSpec(File[f].meta, File[f].base, world.path, Usable(f))

\* A provider can be made of the file.
Good(f) ==
  /\ Own(f) # None /\ Own(f).suitable
  /\ BuiltIn(f) \/ (Own(f).invoke \in {"simple", "json"} /\ (File[f].external \/ File[f].describes))

\* Unless a command failed, the providers found so far are those that the files
\* looked at so far make, all of them and no others.
FoundSoFar ==
  ~hiccup => provs = {Provider(f, Own(f)) : f \in {g \in world.files \ todo : Good(g)}}

\* A provider has its metadata from its own file, here or there.
SpecsRead ==
  \A p \in provs :
    /\ p.spec # None
    /\ p.uploaded = (~BuiltIn(p.file) /\ ~File[p.file].external)
    /\ \E which \in Which :
         p.spec = ReadSpec(File[p.file].meta, File[p.file].base, which, Usable(p.file))

\* A script that was copied is still there, if no other one has its name.
CopiesKept ==
  Distinct => \A p \in provs : p.uploaded /\ ~world.local => remote[File[p.file].base] = p.file

Types ==
  /\ TypeOK
  /\ world \in Worlds /\ req \in Requests
  /\ remote \in [Bases -> world.files \cup {None}]
  /\ IsFiniteSet(provs)

\* What the stages of main() have got so far.
Stages ==
  /\ pc # "exited" => ran = None /\ ~done /\ shown = "nothing"
  /\ pc \in {"chosen", "parsed"} \/ chosen # None \/ ran # None =>
       todo = {} /\ chosen \in FindProvider(req.type, req.name)
  /\ shown = "unknown" => todo = {} /\ FindProvider(req.type, req.name) = {}

\* Nothing is to be set before all arguments have been read.
ArgumentsRead ==
  \/ should = NoAttributes /\ pc # "parsed" /\ (req.verb = "set" => ran = None)
  \/ /\ should = Should /\ Readable /\ pc \in {"parsed", "exited"} /\ req.verb = "set"
     /\ chosen \in provs /\ todo = {}

OwnCode == ran # None /\ (world.local \/ Distinct) => ran = chosen.file

IndInv ==
  Types /\ FoundSoFar /\ SpecsRead /\ CopiesKept /\ Stages /\ ArgumentsRead /\ OwnCode

-----------------------------------------------------------------------------
(* Operators. *)

\* A set of natural numbers has a least element.
LEMMA LeastNumber ==
  ASSUME NEW I, I \subseteq Nat, I # {}
  PROVE  \E m \in I : \A k \in I : m <= k
<1>1. PICK m \in I : \A k \in I : ~ (<<k, m>> \in OpToRel(<, Nat))
  BY NatLessThanWellFounded, WFMin
<1>2. \A k \in I : ~ (k < m)
  <2> SUFFICES ASSUME NEW k \in I, k < m PROVE FALSE
    OBVIOUS
  <2>1. <<k, m>> \in {ss \in Nat \X Nat : ss[1] < ss[2]}
    OBVIOUS
  <2> QED BY <2>1, <1>1 DEF OpToRel
<1> QED BY <1>2

\* A set of positions in a sequence has a last one.
LEMMA LastPosition ==
  ASSUME NEW n \in Nat, NEW I, I \subseteq 1..n, I # {}
  PROVE  \E m \in I : \A k \in I : m >= k
<1> DEFINE J == {n - i : i \in I}
<1>1. \A i \in I : n - i \in Nat
  OBVIOUS
<1>2. J \subseteq Nat /\ J # {}
  BY <1>1
<1>3. PICK m \in J : \A k \in J : m <= k
  BY <1>2, LeastNumber
<1>4. PICK i \in I : m = n - i
  OBVIOUS
<1>5. \A k \in I : n - i <= n - k
  BY <1>3, <1>4
<1> QED BY <1>5

\* Every attribute that is named has a last argument.
LEMMA LastForFacts ==
  ASSUME req \in Requests, NEW a \in Named
  PROVE  /\ LastFor(a) \in DOMAIN req.args
         /\ req.args[LastFor(a)].attr = a
         /\ \A i \in DOMAIN req.args : req.args[i].attr = a => i <= LastFor(a)
<1> DEFINE I == {i \in 1..Len(req.args) : req.args[i].attr = a}
<1>1. Len(req.args) \in Nat /\ DOMAIN req.args = 1..Len(req.args)
  BY RequestsAssumption
<1>2. I # {}
  BY <1>1 DEF Named
<1>3. LastFor(a) = Max(I)
  BY <1>2 DEF LastFor, SelectLastInSeq
<1>4. \E m \in I : \A k \in I : m >= k
  BY <1>1, <1>2, LastPosition
<1>5. Max(I) \in I /\ \A k \in I : Max(I) >= k
  BY <1>4 DEF Max
<1> QED BY <1>1, <1>3, <1>5

\* What libral reads for an attribute is what its type in the metadata admits.
LEMMA ReadIsLegal ==
  ASSUME NEW t, NEW text, DataType(t) # None, ReadString(DataType(t), text) # None
  PROVE  Legal(t, ReadString(DataType(t), text))
<1> DEFINE type == DataType(t)
<1>1. CASE t.word = "string"
  BY <1>1 DEF Legal, ReadString, DataType, Value
<1>2. CASE t.word = "boolean"
  BY <1>2 DEF Legal, ReadString, DataType, Value
<1>3. CASE t.word = "array[string]"
  <2>1. type.tag = "array[string]"
    BY <1>3 DEF DataType
  <2> HIDE DEF type
  <2>2. \/ ReadString(type, text) = Value("array", <<>>)
        \/ "" \notin ToSet(text) /\ ReadString(type, text) = Value("array", text)
    <3>1. CASE text = <<"">>
      <4>1. "" \in ToSet(<<"">>)
        <5>1. 1 \in DOMAIN <<"">> /\ <<"">>[1] = ""
          OBVIOUS
        <5> QED BY <5>1 DEF ToSet
      <4>2. ReadString(type, text) = Value("array", <<>>)
        BY <2>1, <3>1, <4>1 DEF ReadString
      <4> QED BY <4>2
    <3>2. CASE text # <<"">> /\ "" \notin ToSet(text)
      BY <2>1, <3>2 DEF ReadString
    <3>3. CASE text # <<"">> /\ "" \in ToSet(text)
      <4>1. ReadString(type, text) = None
        BY <2>1, <3>3 DEF ReadString
      <4> QED BY <4>1 DEF type
    <3> QED BY <3>1, <3>2, <3>3
  <2>3. "" \notin ToSet(<<>>)
    BY DEF ToSet
  <2>4. /\ ReadString(type, text).tag = "array"
        /\ "" \notin ToSet(ReadString(type, text).v)
    <3> DEFINE r == ReadString(type, text)
    <3>3. \A v : Value("array", v).tag = "array" /\ Value("array", v).v = v
      BY DEF Value
    <3> HIDE DEF r
    <3>1. CASE r = Value("array", <<>>)
      <4>1. r.tag = "array" /\ r.v = <<>>
        BY <3>1, <3>3
      <4> QED BY <4>1, <2>3 DEF r
    <3>2. CASE "" \notin ToSet(text) /\ r = Value("array", text)
      <4>1. r.tag = "array" /\ r.v = text
        BY <3>2, <3>3
      <4> QED BY <4>1, <3>2 DEF r
    <3> USE DEF r
    <3> QED BY <2>2, <3>1, <3>2
  <2> USE DEF type
  <2> QED BY <1>3, <2>4 DEF Legal
<1>4. CASE t.word \notin {"string", "boolean", "array[string]"}
  BY <1>4 DEF Legal, ReadString, DataType, Value
<1> QED BY <1>1, <1>2, <1>3, <1>4

-----------------------------------------------------------------------------
(* The loader. *)

\* What depends on the world and on the request alone.
LEMMA SameWorld ==
  ASSUME world' = world
  PROVE  /\ Bases' = Bases /\ Which' = Which /\ Distinct' = Distinct
         /\ \A f : Own(f)' = Own(f) /\ Good(f)' = Good(f) /\ Usable(f)' = Usable(f)
BY DEF Bases, Which, Distinct, Own, Good, Usable, BuiltIn

\* What looking at one file does, whichever way it goes.
LEMMA LoadFacts ==
  ASSUME Types, NEW f \in Due, LoadBuiltIn(f) \/ SkipScript(f) \/ LoadScript(f)
  PROVE  /\ f \in todo /\ f \in world.files
         /\ world' = world /\ todo' = todo \ {f}
         /\ logged' \in BOOLEAN /\ hiccup' \in BOOLEAN /\ (hiccup => hiccup')
         /\ remote' = remote \/ (~BuiltIn(f) /\ remote' = [remote EXCEPT ![File[f].base] = f])
         /\ \/ provs' = provs /\ (~hiccup' => ~Good(f))
            \/ \E which \in Which :
                 LET spec == ReadSpec(File[f].meta, File[f].base, which, Usable(f)) IN
                 /\ spec # None /\ spec.suitable
                 /\ provs' = provs \cup {Provider(f, spec)}
                 /\ ~hiccup' => which = world.path /\ Good(f)
                 /\ ~BuiltIn(f) /\ ~File[f].external /\ ~world.local =>
                      remote' = [remote EXCEPT ![File[f].base] = f]
<1>0. f \in todo /\ f \in world.files /\ hiccup \in BOOLEAN /\ logged \in BOOLEAN
  BY DEF Due, Types, TypeOK
<1>1. CASE LoadBuiltIn(f)
  <2>1. PICK which \in Which, ok \in {TRUE, ~File[f].everywhere} :
          /\ provs' = IF ok THEN Prepared(f, ReadSpec(File[f].meta, File[f].base, which, Usable(f))) ELSE provs
          /\ hiccup' = (hiccup \/ ~ok \/ which # world.path)
    BY <1>1 DEF LoadBuiltIn
  <2>2. BuiltIn(f) /\ world' = world /\ todo' = todo \ {f} /\ remote' = remote /\ logged' = logged
    BY <1>1 DEF LoadBuiltIn
  <2> DEFINE spec == ReadSpec(File[f].meta, File[f].base, which, Usable(f))
  <2>3. which = world.path => Own(f) = spec
    BY DEF Own
  <2> HIDE DEF spec
  <2>4. CASE ok /\ spec # None /\ spec.suitable
    <3>1. provs' = provs \cup {Provider(f, spec)}
      BY <2>1, <2>4 DEF Prepared, spec
    <3>2. ~hiccup' => which = world.path /\ Good(f)
      BY <2>1, <2>2, <2>3, <2>4 DEF Good
    <3> QED BY <1>0, <2>1, <2>2, <2>4, <3>1, <3>2 DEF spec
  <2>5. CASE ~(ok /\ spec # None /\ spec.suitable)
    <3>1. provs' = provs
      BY <2>1, <2>5 DEF Prepared, spec
    <3>2. ~hiccup' => ~Good(f)
      BY <2>1, <2>3, <2>5 DEF Good
    <3> QED BY <1>0, <2>1, <2>2, <3>1, <3>2
  <2> QED BY <2>4, <2>5
<1>2. CASE SkipScript(f)
  <2>1. /\ ~BuiltIn(f) /\ world' = world /\ todo' = todo \ {f}
        /\ provs' = provs /\ logged' = logged
    BY <1>2 DEF SkipScript
  <2>2. PICK ok \in BOOLEAN :
          /\ GetMetadata(f, ok)
          /\ ~ok \/ (~File[f].external /\ ~File[f].describes)
          /\ hiccup' = (hiccup \/ ~ok)
    BY <1>2 DEF SkipScript
  <2>3. remote' = remote \/ remote' = [remote EXCEPT ![File[f].base] = f]
    BY <2>2 DEF GetMetadata, Uploaded
  <2>4. ~hiccup' => ~Good(f)
    BY <2>1, <2>2 DEF Good
  <2> QED BY <1>0, <2>1, <2>2, <2>3, <2>4
<1>3. CASE LoadScript(f)
  <2>1. /\ ~BuiltIn(f) /\ world' = world /\ todo' = todo \ {f}
        /\ File[f].external \/ File[f].describes
        /\ GetMetadata(f, TRUE) /\ Usable(f) = TRUE
    BY <1>3 DEF LoadScript, Usable
  <2>2. PICK which \in Which :
          LET spec == ReadSpec(File[f].meta, File[f].base, which, TRUE) IN
          /\ provs' = IF Callable(spec) THEN Prepared(f, spec) ELSE provs
          /\ logged' = (logged \/ ~Callable(spec))
          /\ hiccup' = (hiccup \/ which # world.path)
    BY <1>3 DEF LoadScript
  <2>3. /\ remote' = remote \/ remote' = [remote EXCEPT ![File[f].base] = f]
        /\ ~File[f].external /\ ~world.local => remote' = [remote EXCEPT ![File[f].base] = f]
    BY <2>1 DEF GetMetadata, Uploaded
  <2> DEFINE spec == ReadSpec(File[f].meta, File[f].base, which, Usable(f))
  <2>4. which = world.path => Own(f) = spec
    BY DEF Own
  <2>5. /\ provs' = IF Callable(spec) THEN Prepared(f, spec) ELSE provs
        /\ logged' \in BOOLEAN /\ hiccup' = (hiccup \/ which # world.path)
    BY <2>1, <2>2, <1>0
  <2> HIDE DEF spec
  <2>6. CASE Callable(spec) /\ spec.suitable
    <3>1. provs' = provs \cup {Provider(f, spec)} /\ spec # None
      BY <2>5, <2>6 DEF Prepared, Callable
    <3>2. ~hiccup' => which = world.path /\ Good(f)
      BY <2>1, <2>4, <2>5, <2>6 DEF Good, Callable
    <3> QED BY <1>0, <2>1, <2>3, <2>5, <2>6, <3>1, <3>2 DEF spec
  <2>7. CASE ~(Callable(spec) /\ spec.suitable)
    <3>1. provs' = provs
      BY <2>5, <2>7 DEF Prepared
    <3>2. ~hiccup' => ~Good(f)
      BY <2>1, <2>4, <2>5, <2>7 DEF Good, Callable
    <3> QED BY <1>0, <2>1, <2>3, <2>5, <3>1, <3>2
  <2> QED BY <2>6, <2>7
<1> QED BY <1>1, <1>2, <1>3

LEMMA LoadKeeps ==
  ASSUME IndInv, Loading
  PROVE  IndInv'
<1>1. PICK f \in Due : LoadBuiltIn(f) \/ SkipScript(f) \/ LoadScript(f)
  BY DEF Loading, Load
<1>2. UNCHANGED <<req, pc, chosen, should, ran, done, shown, exit>> /\ pc = "loading"
  BY DEF Loading, session
<1> USE DEF IndInv
<1>3. /\ f \in todo /\ f \in world.files
      /\ world' = world /\ todo' = todo \ {f}
      /\ logged' \in BOOLEAN /\ hiccup' \in BOOLEAN /\ (hiccup => hiccup')
      /\ remote' = remote \/ (~BuiltIn(f) /\ remote' = [remote EXCEPT ![File[f].base] = f])
  BY <1>1, LoadFacts
<1>4. /\ Bases' = Bases /\ Which' = Which /\ Distinct' = Distinct
      /\ \A g : Own(g)' = Own(g) /\ Good(g)' = Good(g) /\ Usable(g)' = Usable(g)
  BY <1>3, SameWorld
<1>5. chosen = None /\ ran = None /\ should = NoAttributes /\ shown = "nothing"
  BY <1>2, <1>3 DEF Stages, ArgumentsRead
<1>6. remote' \in [Bases -> world.files \cup {None}]
  BY <1>3 DEF Types, Bases
<1>7. Stages' /\ ArgumentsRead' /\ OwnCode'
  BY <1>2, <1>5 DEF Stages, ArgumentsRead, OwnCode, NoAttributes
<1>8. ASSUME IsFiniteSet(provs'),
             \A p \in provs' : p.file \in world.files \ todo' /\ p.spec.suitable
      PROVE  Types'
  BY <1>2, <1>3, <1>4, <1>5, <1>6, <1>8 DEF Types, TypeOK
<1>9. \A p \in provs : p.uploaded /\ ~world.local /\ Distinct => remote'[File[p.file].base] = p.file
  <2> SUFFICES ASSUME NEW p \in provs, p.uploaded, ~world.local, Distinct
               PROVE  remote'[File[p.file].base] = p.file
    OBVIOUS
  <2>1. remote[File[p.file].base] = p.file /\ ~BuiltIn(p.file)
    BY DEF CopiesKept, SpecsRead
  <2>2. p.file \in world.files /\ p.file # f
    BY <1>3 DEF Types, TypeOK
  <2>3. ~BuiltIn(f) => File[p.file].base # File[f].base
    BY <1>3, <2>1, <2>2 DEF Distinct
  <2>4. File[p.file].base \in Bases
    BY <2>2 DEF Bases
  <2> QED BY <1>3, <2>1, <2>3, <2>4 DEF Types
<1>10. CASE provs' = provs /\ (~hiccup' => ~Good(f))
  <2>1. Types'
    BY <1>3, <1>8, <1>10 DEF Types, TypeOK
  <2>2. SpecsRead'
    BY <1>3, <1>4, <1>10 DEF SpecsRead, BuiltIn
  <2>3. CopiesKept'
    BY <1>3, <1>4, <1>9, <1>10 DEF CopiesKept
  <2>4. FoundSoFar'
    <3> SUFFICES ASSUME ~hiccup'
                 PROVE  provs = {Provider(g, Own(g)) : g \in {h \in world.files \ (todo \ {f}) : Good(h)}}
      BY <1>3, <1>4, <1>10 DEF FoundSoFar, Provider, BuiltIn
    <3>1. provs = {Provider(g, Own(g)) : g \in {h \in world.files \ todo : Good(h)}}
      BY <1>3 DEF FoundSoFar
    <3>2. {h \in world.files \ (todo \ {f}) : Good(h)} = {h \in world.files \ todo : Good(h)}
      BY <1>10
    <3> QED BY <3>1, <3>2
  <2> QED BY <1>7, <2>1, <2>2, <2>3, <2>4
<1>11. CASE \E which \in Which :
              LET spec == ReadSpec(File[f].meta, File[f].base, which, Usable(f)) IN
              /\ spec # None /\ spec.suitable
              /\ provs' = provs \cup {Provider(f, spec)}
              /\ ~hiccup' => which = world.path /\ Good(f)
              /\ ~BuiltIn(f) /\ ~File[f].external /\ ~world.local =>
                   remote' = [remote EXCEPT ![File[f].base] = f]
  <2> DEFINE spec(which) == ReadSpec(File[f].meta, File[f].base, which, Usable(f))
  <2>1. PICK which \in Which :
          /\ spec(which) # None /\ spec(which).suitable
          /\ provs' = provs \cup {Provider(f, spec(which))}
          /\ ~hiccup' => which = world.path /\ Good(f)
          /\ ~BuiltIn(f) /\ ~File[f].external /\ ~world.local =>
               remote' = [remote EXCEPT ![File[f].base] = f]
    BY <1>11
  <2> DEFINE new == Provider(f, spec(which))
  <2>2. /\ new.file = f /\ new.spec = spec(which)
        /\ new.uploaded = (~BuiltIn(f) /\ ~File[f].external)
    BY DEF Provider
  <2>3. ~hiccup' => spec(which) = Own(f)
    BY <2>1 DEF Own
  <2>4. Types'
    <3>1. IsFiniteSet(provs')
      BY <2>1, FS_AddElement DEF Types
    <3>2. \A p \in provs' : p.file \in world.files \ todo' /\ p.spec.suitable
      <4> HIDE DEF spec
      <4>1. \A p \in provs' : p \in provs \/ p = new
        BY <2>1
      <4>2. new.file \in world.files \ todo' /\ new.spec.suitable
        BY <1>3, <2>1, <2>2
      <4>3. \A p \in provs : p.file \in world.files \ todo' /\ p.spec.suitable
        BY <1>3 DEF Types, TypeOK
      <4> QED BY <4>1, <4>2, <4>3
    <3> QED BY <1>8, <3>1, <3>2
  <2>5. SpecsRead'
    <3> SUFFICES ASSUME NEW p \in provs'
                 PROVE  /\ p.spec # None
                        /\ p.uploaded = (~BuiltIn(p.file) /\ ~File[p.file].external)
                        /\ \E w \in Which :
                             p.spec = ReadSpec(File[p.file].meta, File[p.file].base, w, Usable(p.file))
      BY <1>4 DEF SpecsRead, BuiltIn
    <3>1. CASE p \in provs
      BY <3>1 DEF SpecsRead
    <3>2. CASE p = new
      BY <2>1, <2>2, <3>2
    <3> QED BY <2>1, <3>1, <3>2
  <2> HIDE DEF spec
  <2>6. CopiesKept'
    <3> SUFFICES ASSUME Distinct, NEW p \in provs', p.uploaded, ~world.local
                 PROVE  remote'[File[p.file].base] = p.file
      BY <1>3, <1>4 DEF CopiesKept
    <3>1. CASE p \in provs
      BY <1>9, <3>1
    <3>2. CASE p = new
      <4>1. remote' = [remote EXCEPT ![File[f].base] = f]
        BY <2>1, <2>2, <3>2
      <4>2. File[f].base \in Bases
        BY <1>3 DEF Bases
      <4> QED BY <2>2, <3>2, <4>1, <4>2 DEF Types
    <3> QED BY <2>1, <3>1, <3>2
  <2>7. FoundSoFar'
    <3> SUFFICES ASSUME ~hiccup'
                 PROVE  provs' = {Provider(g, Own(g)) : g \in {h \in world.files \ (todo \ {f}) : Good(h)}}
      BY <1>3, <1>4 DEF FoundSoFar, Provider, BuiltIn
    <3>1. provs = {Provider(g, Own(g)) : g \in {h \in world.files \ todo : Good(h)}}
      BY <1>3 DEF FoundSoFar
    <3>2. {h \in world.files \ (todo \ {f}) : Good(h)} = {h \in world.files \ todo : Good(h)} \cup {f}
      BY <1>3, <2>1
    <3>3. provs' = provs \cup {Provider(f, Own(f))}
      BY <2>1, <2>3
    <3> QED BY <3>1, <3>2, <3>3
  <2> QED BY <1>7, <2>4, <2>5, <2>6, <2>7
<1> QED BY <1>1, <1>10, <1>11, LoadFacts

-----------------------------------------------------------------------------
(* main() and the bindings. *)

LEMMA InitInd == Init => IndInv
<1> SUFFICES ASSUME Init PROVE IndInv
  OBVIOUS
<1>1. IsFiniteSet({})
  BY FS_EmptySet
<1>2. {Provider(f, Own(f)) : f \in {g \in world.files \ todo : Good(g)}} = {}
  BY DEF Init, Found
<1>3. Types
  BY <1>1 DEF Init, Found, Types, TypeOK
<1> QED
  BY <1>2, <1>3 DEF Init, Found, IndInv, FoundSoFar, SpecsRead, CopiesKept, Stages, ArgumentsRead, OwnCode

\* Once the providers are loaded they stay.
LEMMA LoadedStays ==
  ASSUME IndInv, UNCHANGED <<world, todo, provs, hiccup, req>>
  PROVE  /\ FoundSoFar' /\ SpecsRead' /\ Bases' = Bases
         /\ remote' = remote => CopiesKept'
         /\ FindProvider(req.type, req.name)' = FindProvider(req.type, req.name)
         /\ chosen' = chosen => Should' = Should /\ Readable' = Readable
<1>1. /\ Bases' = Bases /\ Which' = Which /\ Distinct' = Distinct
      /\ \A f : Own(f)' = Own(f) /\ Good(f)' = Good(f) /\ Usable(f)' = Usable(f)
  BY SameWorld
<1>2. FoundSoFar'
  BY <1>1 DEF IndInv, FoundSoFar, Provider, BuiltIn
<1>3. SpecsRead'
  BY <1>1 DEF IndInv, SpecsRead, BuiltIn
<1>4. remote' = remote => CopiesKept'
  BY <1>1 DEF IndInv, CopiesKept
<1>5. FindProvider(req.type, req.name)' = FindProvider(req.type, req.name)
  BY DEF FindProvider
<1>6. chosen' = chosen => Should' = Should /\ Readable' = Readable
  <2> SUFFICES ASSUME chosen' = chosen PROVE Should' = Should /\ Readable' = Readable
    OBVIOUS
  <2>1. \A arg : Parse(arg)' = Parse(arg)
    BY DEF Parse, RubyValue
  <2>2. \A a : LastFor(a)' = LastFor(a)
    BY DEF LastFor, SelectLastInSeq
  <2>3. Named' = Named
    BY DEF Named
  <2>4. Should' = Should
    BY <2>1, <2>2, <2>3 DEF Should
  <2>5. Readable' = Readable
    BY <2>1 DEF Readable
  <2> QED BY <2>4, <2>5
<1> QED BY <1>1, <1>2, <1>3, <1>4, <1>5, <1>6

\* A provider that is found is one of those that are loaded.
LEMMA FoundIsLoaded == \A type, name : FindProvider(type, name) \subseteq provs
BY DEF FindProvider

\* The ways in which an answer leaves.
LEMMA AnswerFacts ==
  ASSUME NEW answer, Answer(answer), logged' \in BOOLEAN, req' = req
  PROVE  /\ pc' = "exited"
         /\ shown' \in {"nothing", answer, "{}"}
         /\ exit' \in {"success", "missing", "error"}
<1>1. shown' = Text(answer) /\ Text(answer) \in {"nothing", answer, "{}"}
  BY DEF Answer, Text, PuppetText, JsonText
<1>2. \A text : GoStatus(text) \subseteq {"success", "missing", "error"}
  BY DEF GoStatus, GetResource, GetResources, SetResource
<1>3. RubyStatus(answer) \in {"success", "missing", "error"}
  BY DEF RubyStatus
<1>4. RalshStatus(answer, logged') \in {"success", "missing", "error"}
  <2>1. CASE answer \in {"error", "missing"}
    BY <2>1 DEF RalshStatus
  <2>2. CASE answer \notin {"error", "missing"}
    <3>1. RalshStatus(answer, logged') = IF logged' THEN "error" ELSE "success"
      BY <2>2 DEF RalshStatus
    <3> QED BY <3>1
  <2> QED BY <2>1, <2>2
<1> QED BY <1>1, <1>2, <1>3, <1>4 DEF Answer

Quiet ==
  \/ Start \/ RefuseStart \/ LoadCrash \/ ListProviders \/ UnknownProvider
  \/ Choose \/ Explain \/ RefuseArguments \/ ReadArguments

Working == Fail \/ Throw \/ Succeed \/ Find \/ FindAbsent \/ FindNone

LEMMA NextIsOneOf == [Next]_vars => Loading \/ Quiet \/ Working \/ UNCHANGED vars
BY DEF Next, Quiet, Working, Ended

LEMMA QuietKeeps ==
  ASSUME IndInv, Quiet
  PROVE  IndInv'
<1>1. UNCHANGED <<world, todo, provs, remote, logged, hiccup, req, ran>>
  BY DEF Quiet, Start, RefuseStart, LoadCrash, ListProviders, UnknownProvider,
         Choose, Explain, RefuseArguments, ReadArguments, loader
<1>2. /\ FoundSoFar' /\ SpecsRead' /\ CopiesKept' /\ Bases' = Bases
      /\ FindProvider(req.type, req.name)' = FindProvider(req.type, req.name)
      /\ chosen' = chosen => Should' = Should /\ Readable' = Readable
  BY <1>1, LoadedStays
<1>3. /\ logged \in BOOLEAN /\ done \in BOOLEAN /\ ran = None
      /\ pc # "exited" /\ (pc \notin {"chosen", "parsed"} => chosen = None \/ todo = {})
  BY DEF IndInv, Stages, Types, TypeOK, Quiet, Start, RefuseStart, LoadCrash, ListProviders,
         UnknownProvider, Choose, Explain, RefuseArguments, ReadArguments, Loaded
<1>4. ASSUME \/ pc' = "exited" /\ exit' \in {"success", "missing", "error", "crash"}
             \/ pc' \in {"loading", "chosen", "parsed"} /\ exit' = None,
             \/ chosen' = chosen
             \/ todo = {} /\ chosen' \in provs,
             done' \in BOOLEAN
      PROVE  Types'
  <2>1. (exit' = None) = (pc' # "exited") /\ exit' \in {None, "success", "missing", "error", "crash"}
    BY <1>4, RequestsAssumption
  <2> QED BY <1>1, <1>2, <1>4, <2>1 DEF IndInv, Types, TypeOK
<1> USE DEF IndInv
<1>5. OwnCode'
  BY <1>1, <1>3 DEF OwnCode
<1>6. pc # "exited" /\ exit = None /\ ~done /\ shown = "nothing"
  BY <1>3 DEF Stages, Types, TypeOK
<1>7. ASSUME pc' = "exited", exit' \in {"success", "missing", "error", "crash"},
             chosen' = chosen, should' = should, done' \in BOOLEAN,
             shown' = "unknown" => todo = {} /\ FindProvider(req.type, req.name) = {}
      PROVE  IndInv'
  <2>1. Types'
    BY <1>4, <1>7
  <2>2. Stages'
    BY <1>1, <1>2, <1>3, <1>7 DEF Stages
  <2>3. ArgumentsRead'
    BY <1>1, <1>2, <1>3, <1>7 DEF ArgumentsRead, NoAttributes
  <2> QED BY <1>2, <1>5, <2>1, <2>2, <2>3
<1>8. CASE Start
  <2>1. pc = "start" /\ pc' = "loading" /\ UNCHANGED <<chosen, should, done, shown, exit>>
    BY <1>8 DEF Start
  <2>2. Types'
    BY <1>4, <1>6, <2>1 DEF Types, TypeOK
  <2>3. Stages'
    BY <1>1, <1>2, <1>3, <1>6, <2>1 DEF Stages
  <2>4. ArgumentsRead'
    BY <1>1, <2>1 DEF ArgumentsRead, NoAttributes
  <2> QED BY <1>2, <1>5, <2>2, <2>3, <2>4
<1>9. CASE RefuseStart
  BY <1>3, <1>7, <1>9 DEF RefuseStart, Exit
<1>10. CASE LoadCrash
  BY <1>3, <1>6, <1>7, <1>10 DEF LoadCrash, Exit
<1>11. CASE UnknownProvider
  BY <1>3, <1>7, <1>11 DEF UnknownProvider, Exit, Loaded
<1>16. CASE ListProviders
  <2>1. Answer("providers") /\ done' = TRUE /\ UNCHANGED <<chosen, should>>
    BY <1>16 DEF ListProviders
  <2>2. logged' \in BOOLEAN /\ req' = req
    BY <1>1, <1>3
  <2>3. /\ pc' = "exited" /\ exit' \in {"success", "missing", "error"}
        /\ shown' \in {"nothing", "providers", "{}"}
    BY <2>1, <2>2, AnswerFacts
  <2> QED BY <1>7, <2>1, <2>3
<1>12. CASE Choose
  <2>1. /\ pc = "loading" /\ todo = {} /\ pc' = "chosen" /\ UNCHANGED <<should, done, shown, exit>>
        /\ chosen' \in FindProvider(req.type, req.name)
    BY <1>12 DEF Choose, Loaded
  <2>2. chosen' \in provs
    BY <2>1, FoundIsLoaded
  <2>3. Stages'
    BY <1>1, <1>2, <1>3, <1>6, <2>1 DEF Stages
  <2>4. should = NoAttributes => ArgumentsRead'
    BY <1>1, <1>3, <2>1 DEF ArgumentsRead, NoAttributes
  <2>5. should = NoAttributes
    BY <2>1 DEF ArgumentsRead
  <2>6. Types'
    BY <1>4, <1>6, <2>1, <2>2 DEF Types, TypeOK
  <2> QED BY <1>2, <1>5, <2>3, <2>4, <2>5, <2>6
<1>13. CASE Explain
  BY <1>7, <1>13 DEF Explain, Exit
<1>14. CASE RefuseArguments
  BY <1>3, <1>7, <1>14 DEF RefuseArguments, Exit
<1>15. CASE ReadArguments
  <2>1. /\ pc = "chosen" /\ pc' = "parsed" /\ UNCHANGED <<chosen, done, shown, exit>>
        /\ should' = Should /\ Readable /\ req.verb = "set"
    BY <1>15 DEF ReadArguments
  <2>2. chosen \in FindProvider(req.type, req.name) /\ todo = {}
    BY <2>1 DEF Stages
  <2>3. ArgumentsRead'
    BY <1>1, <1>2, <2>1, <2>2, FoundIsLoaded DEF ArgumentsRead
  <2>4. Stages'
    BY <1>1, <1>2, <1>3, <1>6, <2>1, <2>2 DEF Stages
  <2>5. Types'
    BY <1>4, <1>6, <2>1 DEF Types, TypeOK
  <2> QED BY <1>2, <1>5, <2>3, <2>4, <2>5
<1> QED
  BY <1>8, <1>9, <1>10, <1>11, <1>12, <1>13, <1>14, <1>15, <1>16 DEF Quiet

\* What running the provider's code does to libral.
LEMMA WorkFacts ==
  ASSUME IndInv, Ready, Works \/ NotCopied
  PROVE  /\ UNCHANGED <<world, todo, provs, hiccup, req, chosen, should>>
         /\ logged' \in BOOLEAN /\ (logged => logged')
         /\ remote' \in [Bases -> world.files \cup {None}]
         /\ ran' \in world.files \cup {None}
         /\ CopiesKept' /\ OwnCode'
<1> USE DEF IndInv
<1>1. /\ chosen \in provs /\ chosen.file \in world.files /\ ran = None
      /\ chosen.uploaded = (~BuiltIn(chosen.file) /\ ~File[chosen.file].external)
      /\ logged \in BOOLEAN /\ remote \in [Bases -> world.files \cup {None}]
  <2>1. chosen \in FindProvider(req.type, req.name) /\ ran = None
    BY DEF Ready, Stages
  <2>2. chosen \in provs
    BY <2>1, FoundIsLoaded
  <2> QED BY <2>1, <2>2 DEF Types, TypeOK, SpecsRead
<1>2. File[chosen.file].base \in Bases
  BY <1>1 DEF Bases
<1>3. CASE NotCopied
  <2>1. UNCHANGED <<world, todo, provs, remote, logged, hiccup, req, chosen, should, ran>>
    BY <1>3 DEF NotCopied, loader
  <2>2. CopiesKept'
    BY <2>1, LoadedStays
  <2> QED BY <1>1, <2>1, <2>2 DEF OwnCode
<1>4. CASE Works
  <2>1. UNCHANGED <<world, todo, provs, hiccup, req, chosen, should>>
    BY <1>4 DEF Works
  <2>2. logged' \in BOOLEAN /\ (logged => logged')
    BY <1>1, <1>4 DEF Works, BuiltIn
  <2>3. Distinct' = Distinct /\ (\A f : BuiltIn(f)' = BuiltIn(f))
    BY <2>1, SameWorld DEF BuiltIn
  <2>4. CASE BuiltIn(chosen.file) \/ world.local
    <3>1. ran' = chosen.file /\ remote' = remote
      BY <1>1, <1>4, <2>4 DEF Works, RunsCode
    <3>2. CopiesKept'
      BY <2>1, <3>1, LoadedStays
    <3> QED BY <1>1, <2>1, <2>2, <3>1, <3>2 DEF OwnCode
  <2>5. CASE ~BuiltIn(chosen.file) /\ ~world.local /\ chosen.uploaded
    <3>1. ran' = remote[File[chosen.file].base] /\ remote' = remote
      BY <1>4, <2>5 DEF Works, RunsCode
    <3>2. CopiesKept'
      BY <2>1, <3>1, LoadedStays
    <3>3. Distinct => remote[File[chosen.file].base] = chosen.file
      BY <1>1, <2>5 DEF CopiesKept
    <3> QED BY <1>1, <1>2, <2>1, <2>2, <2>3, <2>5, <3>1, <3>2, <3>3 DEF OwnCode
  <2>6. CASE ~BuiltIn(chosen.file) /\ ~world.local /\ ~chosen.uploaded
    <3>1. ran' = chosen.file /\ remote' = [remote EXCEPT ![File[chosen.file].base] = chosen.file]
      BY <1>4, <2>6 DEF Works, RunsCode, Uploaded
    <3>2. CopiesKept'
      <4> SUFFICES ASSUME Distinct, NEW p \in provs, p.uploaded, ~world.local
                   PROVE  remote'[File[p.file].base] = p.file
        BY <2>1, <2>3 DEF CopiesKept
      <4>1. remote[File[p.file].base] = p.file /\ ~BuiltIn(p.file) /\ p.file \in world.files
        BY DEF CopiesKept, SpecsRead, Types, TypeOK
      <4>2. File[p.file].base = File[chosen.file].base => p.file = chosen.file
        BY <1>1, <2>6, <4>1 DEF Distinct
      <4> QED BY <1>1, <1>2, <3>1, <4>1, <4>2
    <3>3. remote' \in [Bases -> world.files \cup {None}]
      BY <1>1, <3>1
    <3> QED BY <1>1, <2>1, <2>2, <3>1, <3>2, <3>3 DEF OwnCode
  <2> QED BY <1>4, <2>4, <2>5, <2>6
<1> QED BY <1>3, <1>4

LEMMA WorkingKeeps ==
  ASSUME IndInv, Working
  PROVE  IndInv'
<1> USE DEF IndInv
<1>1. Ready /\ (Works \/ NotCopied)
  BY DEF Working, Fail, Throw, Succeed, Find, FindAbsent, FindNone
<1>2. /\ UNCHANGED <<world, todo, provs, hiccup, req, chosen, should>>
      /\ logged' \in BOOLEAN
      /\ remote' \in [Bases -> world.files \cup {None}]
      /\ ran' \in world.files \cup {None}
      /\ CopiesKept' /\ OwnCode'
  BY <1>1, WorkFacts
<1>3. /\ FoundSoFar' /\ SpecsRead' /\ Bases' = Bases
      /\ FindProvider(req.type, req.name)' = FindProvider(req.type, req.name)
      /\ Should' = Should /\ Readable' = Readable
  BY <1>2, LoadedStays
<1>4. /\ pc' = "exited" /\ exit' \in {"success", "missing", "error", "crash"}
      /\ shown' # "unknown" /\ done' \in BOOLEAN
  <2>1. done \in BOOLEAN /\ shown = "nothing"
    BY <1>1 DEF Types, TypeOK, Stages, Ready
  <2>0. ASSUME NEW answer \in {"error", "missing", "updates", "resources", "resource"}, Answer(answer)
        PROVE  /\ pc' = "exited" /\ exit' \in {"success", "missing", "error", "crash"}
               /\ shown' # "unknown"
    <3>1. logged' \in BOOLEAN /\ req' = req
      BY <1>2
    <3>2. /\ pc' = "exited" /\ exit' \in {"success", "missing", "error"}
          /\ shown' \in {"nothing", answer, "{}"}
      BY <2>0, <3>1, AnswerFacts
    <3> QED BY <3>2
  <2>2. CASE Fail
    BY <2>1, <2>2, <2>0 DEF Fail
  <2>3. CASE Throw
    BY <2>1, <2>3 DEF Throw, Exit
  <2>4. CASE Succeed
    <3>1. Answer("updates") \/ Answer("resources")
      BY <2>4 DEF Succeed
    <3> QED BY <2>4, <2>0, <3>1 DEF Succeed
  <2>5. CASE Find
    BY <2>5, <2>0 DEF Find
  <2>6. CASE FindAbsent
    BY <2>1, <2>6 DEF FindAbsent, Exit, Text, PuppetText, JsonText
  <2>7. CASE FindNone
    BY <2>1, <2>7, <2>0 DEF FindNone
  <2> QED BY <2>2, <2>3, <2>4, <2>5, <2>6, <2>7 DEF Working
<1>5. Types'
  <2>1. (exit' = None) = (pc' # "exited")
    BY <1>4, RequestsAssumption
  <2>2. chosen' # None => todo' = {} /\ chosen' \in provs'
    BY <1>2 DEF Types, TypeOK
  <2> QED BY <1>2, <1>3, <1>4, <2>1, <2>2 DEF Types, TypeOK
<1>6. Stages'
  <2>1. todo = {} /\ chosen \in FindProvider(req.type, req.name)
    BY <1>1 DEF Stages, Ready
  <2> QED BY <1>2, <1>3, <1>4, <2>1 DEF Stages
<1>7. ArgumentsRead'
  <2>1. CASE pc = "parsed"
    BY <1>2, <1>3, <1>4, <2>1 DEF ArgumentsRead
  <2>2. CASE pc # "parsed"
    <3>1. should = NoAttributes /\ req.verb # "set"
      BY <1>1, <2>2 DEF ArgumentsRead, Ready
    <3> QED BY <1>2, <1>4, <3>1 DEF ArgumentsRead, NoAttributes
  <2> QED BY <2>1, <2>2
<1> QED BY <1>2, <1>3, <1>5, <1>6, <1>7

LEMMA UnchangedKeeps ==
  ASSUME IndInv, UNCHANGED vars
  PROVE  IndInv'
<1>1. UNCHANGED <<world, todo, provs, remote, logged, hiccup, req, pc, chosen, should, ran, done, shown, exit>>
  BY DEF vars, loader, session
<1>2. /\ FoundSoFar' /\ SpecsRead' /\ CopiesKept' /\ Bases' = Bases
      /\ FindProvider(req.type, req.name)' = FindProvider(req.type, req.name)
      /\ Should' = Should /\ Readable' = Readable
  BY <1>1, LoadedStays
<1> USE DEF IndInv
<1>3. Types'
  BY <1>1, <1>2 DEF Types, TypeOK
<1>4. Stages'
  BY <1>1, <1>2 DEF Stages
<1>5. ArgumentsRead'
  BY <1>1, <1>2 DEF ArgumentsRead, NoAttributes
<1>6. OwnCode'
  BY <1>1, SameWorld DEF OwnCode
<1> QED BY <1>2, <1>3, <1>4, <1>5, <1>6

\* The inductive invariant holds whatever files, machine and request there are.
THEOREM IndInvHolds == Spec => []IndInv
<1>1. IndInv /\ [Next]_vars => IndInv'
  BY NextIsOneOf, LoadKeeps, QuietKeeps, WorkingKeeps, UnchangedKeeps
<1> QED BY InitInd, <1>1, PTL DEF Spec

\* The state of the loader, of ralsh and of the bindings has its type, and a
\* provider is chosen only once all of them are known (ral.cc, ralsh.cc).
THEOREM TypeCorrect == Spec => []TypeOK
<1>1. IndInv => TypeOK
  BY DEF IndInv, Types
<1> QED BY <1>1, IndInvHolds, PTL

-----------------------------------------------------------------------------
(* The right provider. *)

\* Once all files have been looked at and no command has failed, the providers
\* stand for the files that one can be made of.
LEMMA AllFound ==
  ASSUME IndInv, ~hiccup, todo = {}
  PROVE  /\ \A p \in provs : p.file \in world.files /\ Good(p.file) /\ p.spec = Own(p.file)
         /\ \A f \in world.files : Good(f) => Provider(f, Own(f)) \in provs
         /\ \A f : Provider(f, Own(f)).file = f /\ Provider(f, Own(f)).spec = Own(f)
         /\ \A p \in provs : p = Provider(p.file, Own(p.file))
<1>1. provs = {Provider(f, Own(f)) : f \in {g \in world.files : Good(g)}}
  BY DEF IndInv, FoundSoFar
<1>2. \A f : Provider(f, Own(f)).file = f /\ Provider(f, Own(f)).spec = Own(f)
  BY DEF Provider
<1> QED BY <1>1, <1>2

LEMMA ServingIsGood ==
  ASSUME NEW type, NEW name
  PROVE  \A f : f \in Serving(type, name) <=>
                 /\ f \in world.files /\ Good(f)
                 /\ Own(f).type = type /\ name \in {None, Own(f).name}
BY DEF Serving, Good, Own

LEMMA RightProviderFollows == IndInv => RightProvider
<1> SUFFICES ASSUME IndInv PROVE RightProvider
  OBVIOUS
<1> DEFINE ofType == {p \in provs : p.spec.type = req.type}
           served == Serving(req.type, req.name)
<1>1. IsFiniteSet(ofType)
  BY FS_Subset DEF IndInv, Types
<1>2. \A f : f \in served <=>
              /\ f \in world.files /\ Good(f)
              /\ Own(f).type = req.type /\ req.name \in {None, Own(f).name}
  BY ServingIsGood
<1>3. ASSUME chosen # None, ~hiccup
      PROVE  chosen.file \in served /\ (req.name = None => served = {chosen.file})
  <2>1. todo = {} /\ chosen \in FindProvider(req.type, req.name)
    BY <1>3 DEF IndInv, Stages
  <2>2. /\ chosen \in ofType
        /\ req.name # None => chosen.spec.name = req.name
        /\ req.name = None => Cardinality(ofType) = 1
    BY <2>1 DEF FindProvider
  <2>3. chosen.file \in world.files /\ Good(chosen.file) /\ chosen.spec = Own(chosen.file)
    BY <1>3, <2>1, <2>2, AllFound
  <2>4. chosen.file \in served
    BY <1>2, <2>2, <2>3
  <2>5. ASSUME req.name = None, NEW f \in served PROVE f = chosen.file
    <3>1. PICK x : ofType = {x}
      BY <1>1, <2>2, <2>5, FS_Singleton
    <3>2. Provider(f, Own(f)) \in provs /\ Provider(f, Own(f)).spec = Own(f) /\ Own(f).type = req.type
      BY <1>2, <1>3, <2>1, AllFound
    <3>3. Provider(f, Own(f)) = chosen
      BY <2>2, <3>1, <3>2
    <3> QED BY <1>3, <2>1, <3>3, AllFound
  <2> QED BY <2>4, <2>5
<1>4. ASSUME shown = "unknown", ~hiccup
      PROVE  IF req.name # None THEN served = {} ELSE Cardinality(served) # 1
  <2>1. todo = {} /\ FindProvider(req.type, req.name) = {}
    BY <1>4 DEF IndInv, Stages
  <2>2. ASSUME NEW f \in served PROVE Provider(f, Own(f)) \in ofType /\ req.name \in {None, Own(f).name}
    BY <1>2, <1>4, <2>1, AllFound
  <2>3. CASE req.name # None
    <3>1. \A p \in ofType : p.spec.name # req.name
      BY <2>1, <2>3 DEF FindProvider
    <3>2. \A f : Provider(f, Own(f)).spec = Own(f)
      BY <1>4, <2>1, AllFound
    <3> QED BY <2>2, <2>3, <3>1, <3>2
  <2>4. CASE req.name = None
    <3> SUFFICES ASSUME Cardinality(served) = 1 PROVE FALSE
      BY <2>4
    <3>1. IsFiniteSet(served)
      <4>1. IsFiniteSet(world.files)
        BY WorldsAssumption DEF IndInv, Types
      <4>2. served \subseteq world.files
        BY <1>2
      <4> QED BY <4>1, <4>2, FS_Subset
    <3>2. PICK f : served = {f}
      BY <3>1, FS_Singleton
    <3>3. \A p \in ofType : p = Provider(f, Own(f))
      <4> SUFFICES ASSUME NEW p \in ofType PROVE p = Provider(f, Own(f))
        OBVIOUS
      <4>1. /\ p.file \in world.files /\ Good(p.file) /\ p.spec = Own(p.file)
            /\ p = Provider(p.file, Own(p.file))
        BY <1>4, <2>1, AllFound
      <4>2. p.file \in served
        BY <1>2, <2>4, <4>1
      <4> QED BY <3>2, <4>1, <4>2
    <3>4. ofType = {Provider(f, Own(f))}
      BY <2>2, <3>2, <3>3
    <3>5. Cardinality(ofType) = 1
      BY <1>1, <3>4, FS_Singleton
    <3>6. FindProvider(req.type, req.name) = ofType
      BY <2>4, <3>5 DEF FindProvider
    <3> QED BY <2>1, <3>4, <3>6
  <2> QED BY <2>3, <2>4
<1>5. OwnCode
  BY DEF IndInv
<1> QED BY <1>3, <1>4, <1>5 DEF RightProvider, OwnCode

\* Whatever the other files are like and in whatever order they are read, a name
\* gives the provider that it stands for, a type the only one that serves it,
\* and the code that runs is that provider's own (ral.cc:140-236).
THEOREM RightProviderHolds == Spec => []RightProvider
BY RightProviderFollows, IndInvHolds, PTL

-----------------------------------------------------------------------------
(* Only legal values. *)

\* The text of a value that was read is the one that was written.
LEMMA ReadKeepsText ==
  ASSUME NEW type, NEW text, ReadString(type, text) # None
  PROVE  \/ ReadString(type, text).tag = "boolean"
         \/ ReadString(type, text).v = <<>> /\ text = <<"">>
         \/ ReadString(type, text).v = text
<1>1. \A tag, v : Value(tag, v).tag = tag /\ Value(tag, v).v = v
  BY DEF Value
<1>2. \/ \E b : ReadString(type, text) = Value("boolean", b)
      \/ ReadString(type, text) = Value("array", <<>>) /\ text = <<"">>
      \/ \E tag : ReadString(type, text) = Value(tag, text)
  <2>1. "" \in ToSet(<<"">>)
    <3>1. 1 \in DOMAIN <<"">> /\ <<"">>[1] = ""
      OBVIOUS
    <3> QED BY <3>1 DEF ToSet
  <2>2. CASE type.tag = "array[string]" /\ text = <<"">>
    <3>1. ReadString(type, text) = Value("array", <<>>)
      BY <2>1, <2>2 DEF ReadString
    <3> QED BY <2>2, <3>1
  <2>3. CASE type.tag = "array[string]" /\ text # <<"">>
    <3>1. ReadString(type, text) = IF "" \notin ToSet(text) THEN Value("array", text) ELSE None
      BY <2>3 DEF ReadString
    <3> QED BY <3>1
  <2>4. CASE type.tag = "boolean"
    <3>1. \/ ReadString(type, text) \in {Value("boolean", TRUE), Value("boolean", FALSE)}
          \/ ReadString(type, text) = None
      BY <2>4 DEF ReadString
    <3> QED BY <3>1
  <2>5. CASE type.tag \in {"string", "enum"}
    <3>1. ReadString(type, text) \in {Value("string", text), None}
      BY <2>5 DEF ReadString
    <3> QED BY <3>1
  <2>6. CASE type.tag \notin {"array[string]", "boolean", "string", "enum"}
    <3>1. ReadString(type, text) = None
      BY <2>6 DEF ReadString
    <3> QED BY <3>1
  <2> QED BY <2>2, <2>3, <2>4, <2>5, <2>6
<1>3. ASSUME NEW b PROVE ReadString(type, text) = Value("boolean", b) => ReadString(type, text).tag = "boolean"
  BY <1>1
<1>4. ReadString(type, text) = Value("array", <<>>) => ReadString(type, text).v = <<>>
  BY <1>1
<1>5. ASSUME NEW tag PROVE ReadString(type, text) = Value(tag, text) => ReadString(type, text).v = text
  BY <1>1
<1> QED BY <1>2, <1>3, <1>4, <1>5

\* The provider was made of its file's metadata, each attribute of which has a type.
LEMMA ChosenSpec ==
  ASSUME IndInv, chosen \in provs
  PROVE  LET meta == File[chosen.file].meta IN
         /\ DOMAIN chosen.spec.attrs = DOMAIN meta.attrs
         /\ \A a \in DOMAIN meta.attrs :
              /\ chosen.spec.attrs[a] = DataType(meta.attrs[a].type)
              /\ DataType(meta.attrs[a].type) # None
<1> DEFINE meta == File[chosen.file].meta
<1>1. PICK which \in Which :
        chosen.spec = ReadSpec(meta, File[chosen.file].base, which, Usable(chosen.file))
  BY DEF IndInv, SpecsRead
<1>2. chosen.spec # None
  BY DEF IndInv, SpecsRead
<1> HIDE DEF meta
<1>3. /\ chosen.spec.attrs = [a \in DOMAIN meta.attrs |-> AttrSpec(meta.attrs[a])]
      /\ \A a \in DOMAIN meta.attrs : AttrSpec(meta.attrs[a]) # None
  <2> DEFINE use == IF Usable(chosen.file) THEN ReadSuitable(meta.suitable, which) ELSE FALSE
             bad == \/ ~meta.parses \/ meta.type = None \/ meta.attrs = None
                    \/ \E a \in DOMAIN meta.attrs : AttrSpec(meta.attrs[a]) = None
                    \/ "name" \notin DOMAIN meta.attrs
                    \/ use = None
             spec == [name |-> IF meta.name = None THEN File[chosen.file].base ELSE meta.name,
                      type |-> meta.type, invoke |-> meta.invoke, suitable |-> use,
                      attrs |-> [a \in DOMAIN meta.attrs |-> AttrSpec(meta.attrs[a])]]
  <2>1. chosen.spec = IF bad THEN None ELSE spec
    BY <1>1 DEF ReadSpec
  <2>2. ~bad => \A a \in DOMAIN meta.attrs : AttrSpec(meta.attrs[a]) # None
    OBVIOUS
  <2>3. spec.attrs = [a \in DOMAIN meta.attrs |-> AttrSpec(meta.attrs[a])]
    OBVIOUS
  <2> HIDE DEF bad, spec
  <2> QED BY <1>2, <2>1, <2>2, <2>3
<1>4. \A a \in DOMAIN meta.attrs : AttrSpec(meta.attrs[a]) = DataType(meta.attrs[a].type)
  BY <1>3 DEF AttrSpec
<1> QED BY <1>3, <1>4 DEF meta

LEMMA OnlyLegalValuesFollows == IndInv => OnlyLegalValues
<1> SUFFICES ASSUME IndInv, req.verb = "set", req.via # "ruby" PROVE OnlyLegalValues
  BY DEF OnlyLegalValues
<1> DEFINE meta == File[chosen.file].meta
<1>1. CASE should = NoAttributes /\ ran = None
  <2>1. DOMAIN should = {}
    BY <1>1 DEF NoAttributes
  <2> QED BY <1>1, <2>1 DEF OnlyLegalValues
<1>2. CASE should = Should /\ Readable /\ chosen \in provs
  <2>1. DOMAIN should = Named
    BY <1>2 DEF Should
  <2>2. ASSUME NEW a \in Named
        PROVE  /\ LastFor(a) \in DOMAIN req.args /\ req.args[LastFor(a)].attr = a
               /\ a \in DOMAIN meta.attrs
               /\ should[a] = ReadString(DataType(meta.attrs[a].type), req.args[LastFor(a)].text)
               /\ should[a] # None
    <3> DEFINE arg == req.args[LastFor(a)]
    <3>1. /\ LastFor(a) \in DOMAIN req.args
          /\ req.args[LastFor(a)].attr = a
      BY LastForFacts DEF IndInv, Types
    <3>2. should[a] = Parse(arg) /\ a # None
      BY <1>2 DEF Should, Named
    <3>3. Parse(arg) # None
      BY <1>2, <3>1, <3>2 DEF Readable
    <3>4. /\ a \in DOMAIN chosen.spec.attrs
          /\ Parse(arg) = ReadString(chosen.spec.attrs[a], arg.text)
      BY <3>1, <3>3 DEF Parse
    <3>5. a \in DOMAIN meta.attrs /\ chosen.spec.attrs[a] = DataType(meta.attrs[a].type)
      BY <1>2, <3>4, ChosenSpec
    <3> QED BY <3>1, <3>2, <3>3, <3>4, <3>5
  <2>3. ASSUME NEW a \in DOMAIN should
        PROVE  a \in DOMAIN meta.attrs /\ Legal(meta.attrs[a].type, should[a])
    <3>1. DataType(meta.attrs[a].type) # None
      BY <1>2, <2>1, <2>2, ChosenSpec
    <3> QED BY <2>1, <2>2, <3>1, ReadIsLegal
  <2>4. ASSUME NEW i \in DOMAIN req.args, req.args[i].attr # None,
               \A j \in i + 1 .. Len(req.args) : req.args[j].attr # req.args[i].attr
        PROVE  LET value == should[req.args[i].attr] IN
               \/ value.tag = "boolean"
               \/ value.v = <<>> /\ req.args[i].text = <<"">>
               \/ value.v = req.args[i].text
    <3> DEFINE a == req.args[i].attr
    <3>1. a \in Named
      BY <2>4 DEF Named
    <3>2. Len(req.args) \in Nat /\ DOMAIN req.args = 1..Len(req.args)
      BY RequestsAssumption DEF IndInv, Types
    <3>3. /\ LastFor(a) \in 1..Len(req.args) /\ i <= LastFor(a)
          /\ req.args[LastFor(a)].attr = a
      BY <3>1, <3>2, LastForFacts DEF IndInv, Types
    <3>4. LastFor(a) = i
      BY <2>4, <3>2, <3>3
    <3>5. /\ should[a] = ReadString(DataType(meta.attrs[a].type), req.args[i].text)
          /\ should[a] # None
      BY <2>2, <3>1, <3>4
    <3> QED BY <3>5, ReadKeepsText
  <2> QED BY <2>1, <2>3, <2>4 DEF OnlyLegalValues
<1> QED BY <1>1, <1>2 DEF IndInv, ArgumentsRead

\* A provider is asked to set only attributes that its metadata declares, to
\* values that the metadata admits and that were written last, and nothing at
\* all when one of the arguments is wrong (ralsh.cc:313-335, attr/spec.cc:121).
THEOREM OnlyLegalValuesHold == Spec => []OnlyLegalValues
BY OnlyLegalValuesFollows, IndInvHolds, PTL

-----------------------------------------------------------------------------
(* The exit status. *)

\* What the way an answer leaves says of it.
AnswerSays(answer) ==
  /\ exit' = "success" =>
       \/ answer \notin {"error", "missing"}
       \/ req.via = "go" /\ req.verb \notin {"find", "set"}
       \/ req.via = "ruby" /\ answer = "missing"
  /\ exit' = "success" /\ ViaRalsh => ~logged'
  /\ exit' = "missing" => answer = "missing"
  /\ exit' = "error" =>
       \/ answer = "error" \/ logged'
       \/ req.via = "go" /\ (req.verb = "set" \/ (req.verb = "find" /\ answer # "resource"))
  /\ shown' \in {"nothing", answer, "{}"}

LEMMA AnswerTells ==
  ASSUME NEW answer, Answer(answer), logged' \in BOOLEAN, req' = req
  PROVE  AnswerSays(answer)
<1> USE DEF AnswerSays
<1>1. shown' \in {"nothing", answer, "{}"}
  BY AnswerFacts
<1>2. CASE req.via = "go"
  <2>1. exit' \in GoStatus(Text(answer)) /\ ~ViaRalsh
    BY <1>2 DEF Answer, ViaRalsh
  <2>2. Text(answer) = IF answer = "missing" THEN "{}" ELSE answer
    BY <1>2 DEF Text, JsonText
  <2>3. CASE req.verb = "find"
    <3>1. exit' = IF Text(answer) = "resource" THEN "success" ELSE "error"
      BY <2>1, <2>3 DEF GoStatus, GetResource
    <3> QED BY <1>1, <1>2, <2>1, <2>2, <2>3, <3>1
  <2>4. CASE req.verb = "set"
    <3>1. exit' \in IF Text(answer) = "updates" THEN {"success", "error"} ELSE {"error"}
      BY <2>1, <2>4 DEF GoStatus, SetResource
    <3> QED BY <1>1, <1>2, <2>1, <2>2, <2>4, <3>1
  <2>5. CASE req.verb \notin {"find", "set"}
    <3>1. exit' = "success"
      BY <2>1, <2>5 DEF GoStatus, GetResources
    <3> QED BY <1>1, <1>2, <2>1, <2>5, <3>1
  <2> QED BY <2>3, <2>4, <2>5
<1>3. CASE req.via = "ruby"
  <2>1. exit' = RubyStatus(answer) /\ ~ViaRalsh
    BY <1>3 DEF Answer, ViaRalsh
  <2> QED BY <1>1, <1>3, <2>1 DEF RubyStatus
<1>4. CASE req.via \notin {"go", "ruby"}
  <2>1. exit' = RalshStatus(answer, logged')
    BY <1>4 DEF Answer
  <2>2. CASE answer \in {"error", "missing"}
    <3>1. exit' = answer
      BY <2>1, <2>2 DEF RalshStatus
    <3> QED BY <1>1, <2>2, <3>1
  <2>3. CASE answer \notin {"error", "missing"}
    <3>1. exit' = IF logged' THEN "error" ELSE "success"
      BY <2>1, <2>3 DEF RalshStatus
    <3> QED BY <1>1, <2>3, <3>1
  <2> QED BY <2>2, <2>3
<1> QED BY <1>2, <1>3, <1>4

LEMMA ExitStep ==
  ASSUME IndInv, ExitTells, [Next]_vars
  PROVE  ExitTells'
<1>1. CASE UNCHANGED vars
  BY <1>1 DEF ExitTells, ViaRalsh, vars, loader, session
<1>2. ASSUME pc # "exited" PROVE ~done /\ shown = "nothing" /\ exit = None /\ logged \in BOOLEAN
  BY <1>2 DEF IndInv, Stages, Types, TypeOK
<1>3. ASSUME pc' # "exited", exit' = None PROVE ExitTells'
  BY <1>3, RequestsAssumption DEF ExitTells
<1>4. CASE Loading
  <2>1. pc # "exited" /\ pc' = pc /\ exit' = exit
    BY <1>4 DEF Loading, session
  <2> QED BY <1>2, <1>3, <2>1
<1>5. CASE Start \/ Choose \/ ReadArguments
  <2>1. pc # "exited" /\ pc' # "exited" /\ exit' = exit
    BY <1>5 DEF Start, Choose, ReadArguments, Loaded
  <2> QED BY <1>2, <1>3, <2>1
<1>6. CASE RefuseStart \/ UnknownProvider \/ RefuseArguments
  <2>1. pc # "exited" /\ exit' = "error" /\ shown' \in {"error", "unknown"} /\ done' = done
    BY <1>6 DEF RefuseStart, UnknownProvider, RefuseArguments, Exit, Loaded
  <2> QED BY <1>2, <2>1 DEF ExitTells
<1>7. CASE LoadCrash \/ Throw
  <2>1. pc # "exited" /\ exit' = "crash" /\ shown' = shown /\ done' = done
    BY <1>7 DEF LoadCrash, Throw, Exit, Ready
  <2> QED BY <1>2, <2>1 DEF ExitTells
<1>8. CASE Explain
  <2>1. exit' = "success" /\ done' = TRUE /\ req.verb = "explain" /\ req' = req
    BY <1>8 DEF Explain, Exit
  <2> QED BY <2>1 DEF ExitTells
<1>9. CASE ListProviders
  <2>1. /\ pc # "exited" /\ req.verb = "providers" /\ req' = req /\ logged' = logged
        /\ done' = TRUE /\ Answer("providers")
    BY <1>9 DEF ListProviders, Loaded, loader
  <2>2. logged' \in BOOLEAN
    BY <1>2, <2>1
  <2>3. /\ exit' = "success" /\ ViaRalsh => ~logged'
        /\ exit' # "missing"
        /\ exit' = "error" => logged'
    BY <2>1, <2>2, AnswerTells DEF AnswerSays
  <2> QED BY <2>1, <2>3 DEF ExitTells, ViaRalsh
<1>10. CASE Fail \/ Succeed \/ Find \/ FindAbsent \/ FindNone
  <2>1. Ready /\ (Works \/ NotCopied)
    BY <1>10 DEF Fail, Succeed, Find, FindAbsent, FindNone
  <2>2. logged' \in BOOLEAN /\ req' = req
    BY <2>1, WorkFacts
  <2>3. pc # "exited" /\ (pc = "parsed" => req.verb = "set") /\ (pc # "parsed" => req.verb \in {"find", "list"})
    BY <2>1 DEF Ready, IndInv, ArgumentsRead
  <2>4. req.via = "ruby" => req.verb \in {"list", "set"}
    BY RequestsAssumption DEF IndInv, Types
  <2>10. ASSUME NEW answer, Answer(answer) PROVE AnswerSays(answer)
    BY <2>2, <2>10, AnswerTells
  <2>5. CASE Fail
    <3>0. Answer("error")
      BY <2>5 DEF Fail
    <3>1. Answer("error") /\ ~done'
      BY <1>2, <2>3, <2>5 DEF Fail
    <3>3. /\ exit' = "success" => req.via = "go" /\ req.verb \notin {"find", "set"}
          /\ exit' = "success" /\ ViaRalsh => ~logged'
          /\ exit' # "missing"
          /\ shown' \in {"nothing", "error", "{}"}
      <4>1. AnswerSays("error")
        BY <3>0, <2>10
      <4> QED BY <4>1 DEF AnswerSays
    <3>2. exit' = "success" => req.via = "go" /\ req.verb = "list"
      BY <2>3, <3>3
    <3> QED BY <2>2, <3>1, <3>2, <3>3 DEF ExitTells, ViaRalsh
  <2>6. CASE Succeed
    <3>1. PICK answer \in {"updates", "resources"} : Answer(answer)
      BY <2>6 DEF Succeed
    <3>2. done' = TRUE /\ req.verb \in {"set", "list"}
      BY <2>6 DEF Succeed
    <3>3. /\ exit' = "success" /\ ViaRalsh => ~logged'
          /\ exit' # "missing"
          /\ exit' = "error" => logged' \/ (req.via = "go" /\ req.verb = "set")
      BY <2>2, <3>1, <3>2, AnswerTells DEF AnswerSays
    <3> QED BY <2>2, <3>2, <3>3 DEF ExitTells, ViaRalsh
  <2>7. CASE Find
    <3>1. Answer("resource") /\ done' = TRUE /\ req.verb = "find"
      BY <2>7 DEF Find
    <3>2. /\ exit' = "success" /\ ViaRalsh => ~logged'
          /\ exit' # "missing"
          /\ exit' = "error" => logged'
      <4>1. AnswerSays("resource")
        BY <3>1, <2>10
      <4> QED BY <3>1, <4>1 DEF AnswerSays
    <3> QED BY <2>2, <3>1, <3>2 DEF ExitTells, ViaRalsh
  <2>8. CASE FindAbsent
    <3>1. /\ exit' = "missing" /\ ~done' /\ req.verb = "find"
          /\ shown' \in {"nothing", "resource", "{}"}
      BY <1>2, <2>3, <2>8 DEF FindAbsent, Exit, Text, PuppetText, JsonText
    <3> QED BY <2>2, <3>1 DEF ExitTells
  <2>9. CASE FindNone
    <3>0. Answer("missing")
      BY <2>9 DEF FindNone
    <3>1. Answer("missing") /\ ~done' /\ req.verb = "find"
      BY <1>2, <2>3, <2>9 DEF FindNone
    <3>3. /\ exit' = "success" =>
               \/ req.via = "go" /\ req.verb \notin {"find", "set"}
               \/ req.via = "ruby"
          /\ shown' \in {"nothing", "missing", "{}"}
      <4>1. AnswerSays("missing")
        BY <3>0, <2>10
      <4> QED BY <4>1 DEF AnswerSays
    <3>2. exit' # "success"
      BY <2>4, <3>1, <3>3
    <3> QED BY <2>2, <3>1, <3>2, <3>3 DEF ExitTells
  <2> QED BY <1>10, <2>5, <2>6, <2>7, <2>8, <2>9
<1> QED
  BY <1>1, <1>4, <1>5, <1>6, <1>7, <1>8, <1>9, <1>10, NextIsOneOf DEF Quiet, Working

\* Success is reported only for what was done, by ralsh only when nothing was
\* logged as an error, a missing resource only by a query, and an error that is
\* no failure has been logged; Go is the exception (ralsh.cc:335-379, libral.go).
THEOREM ExitAlwaysTells == Spec => []ExitTells
<1>1. Init => ExitTells
  BY RequestsAssumption DEF Init, ExitTells
<1>2. IndInv /\ ExitTells /\ [Next]_vars => ExitTells'
  BY ExitStep
<1> QED BY <1>1, <1>2, IndInvHolds, PTL DEF Spec

-----------------------------------------------------------------------------
(* The table of a provider on the other machine, for every set of texts.     *)

USE TableAssumption

\* The initial states are typed.
LEMMA TableInitType == TableInit => TableTypeOK
<1> SUFFICES ASSUME TableInit PROVE TableTypeOK
  OBVIOUS
<1>1. dd \in [to: {"path", "temp", "file", "gone"}, shared: BOOLEAN]
  BY DEF TableInit, Closed
<1>2. moves \in 0..MaxLate
  BY DEF TableInit
<1> QED BY <1>1, <1>2 DEF TableInit, TableTypeOK, Whole

\* A move keeps the types of the files and of the dds that have them open.
LEMMA MoveKeepsTypes ==
  ASSUME TableTypeOK, NEW place \in {"temp", "left"}, MoveOf(place)
  PROVE  /\ {file, temp, left}' \subseteq Whole \cup {Torn}
         /\ dd' \in [to: {"path", "temp", "file", "gone"}, shared: BOOLEAN]
         /\ transfers' \subseteq [text: Whole, to: {"path", "temp", "file", "left"}]
<1>1. {file, temp, left}' \subseteq Whole \cup {Torn}
  BY DEF MoveOf, TableTypeOK, Whole
<1>2. dd' \in [to: {"path", "temp", "file", "gone"}, shared: BOOLEAN]
  BY DEF MoveOf, TableTypeOK, After
<1>3. ASSUME NEW d \in transfers, d.to # "file"
      PROVE  [d EXCEPT !.to = After(@, place)] \in [text: Whole, to: {"path", "temp", "file", "left"}]
  BY <1>3 DEF TableTypeOK, After
<1>4. transfers' \subseteq [text: Whole, to: {"path", "temp", "file", "left"}]
  BY <1>3 DEF MoveOf
<1> QED BY <1>1, <1>2, <1>4

\* Every remote command, however it ends and whenever, keeps the types.
LEMMA TableTypeStep == TableTypeOK /\ [TableNext]_tableVars => TableTypeOK'
<1> SUFFICES ASSUME TableTypeOK, [TableNext]_tableVars PROVE TableTypeOK'
  OBVIOUS
<1> USE DEF TableTypeOK, Whole, machine, files, handle, Give, Done, Failed, TimesOut, Elsewhere
<1>1. CASE MakeTmpdir
  <2>1. UNCHANGED machine BY <1>1 DEF MakeTmpdir
  <2>2. CASE tmpdir' = TRUE /\ stage' = "transfer" /\ UNCHANGED <<handle, outcome>> BY <2>1, <2>2
  <2>3. CASE Failed /\ UNCHANGED tmpdir BY <2>1, <2>3
  <2>4. CASE TimesOut /\ UNCHANGED tmpdir BY <2>1, <2>4
  <2> QED BY <1>1, <2>2, <2>3, <2>4 DEF MakeTmpdir
<1>2. CASE StartTransfer BY <1>2 DEF StartTransfer
<1>3. CASE FinishTransfer
  BY <1>3 DEF FinishTransfer, Write, Closed
<1>4. CASE TransferFails
  <2>1. Failed \/ TimesOut BY <1>4 DEF TransferFails
  <2>2. {file, temp, left}' \subseteq Whole \cup {Torn} /\ UNCHANGED <<moves, tmpdir>> /\ dd' = Closed
    BY <1>4 DEF TransferFails
  <2>3. transfers' \subseteq [text: Whole, to: {"path", "temp", "file", "left"}]
    BY <1>4 DEF TransferFails
  <2>4. strays' \subseteq {"transfer", "move", "orphan"}
    BY <1>4 DEF TransferFails
  <2> QED BY <2>1, <2>2, <2>3, <2>4 DEF Closed
<1>5. CASE Move
  BY <1>5, MoveKeepsTypes DEF Move
<1>6. CASE MoveFails
  <2>1. Failed \/ TimesOut BY <1>6 DEF MoveFails
  <2>2. CASE UNCHANGED machine BY <1>6, <2>1, <2>2 DEF MoveFails
  <2>3. CASE temp # NoText /\ MoveOf("temp") /\ UNCHANGED <<moves, strays>>
    BY <1>6, <2>1, <2>3, MoveKeepsTypes DEF MoveFails
  <2>4. CASE moves < MaxLate /\ moves' = moves + 1 /\ strays' = strays \cup {"move"}
             /\ UNCHANGED <<files, dd, transfers>>
    <3>1. moves' \in 0..MaxLate BY <2>4
    <3>2. strays' \subseteq {"transfer", "move", "orphan"} BY <2>4
    <3> QED BY <1>6, <2>1, <2>4, <3>1, <3>2 DEF MoveFails
  <2> QED BY <1>6, <2>2, <2>3, <2>4 DEF MoveFails
<1>7. CASE LateStart
  <2>1. PICK d \in transfers : transfers' = (transfers \ {d}) \cup {[d EXCEPT !.to = "temp"]}
    BY <1>7 DEF LateStart
  <2>2. transfers' \subseteq [text: Whole, to: {"path", "temp", "file", "left"}] BY <2>1
  <2>3. dd' \in [to: {"path", "temp", "file", "gone"}, shared: BOOLEAN] BY <1>7 DEF LateStart
  <2> QED BY <1>7, <2>2, <2>3 DEF LateStart
<1>8. CASE LateEnd
  BY <1>8 DEF LateEnd, Write
<1>9. CASE LateMove
  <2>1. CASE MoveOf("temp") BY <1>9, <2>1, MoveKeepsTypes DEF LateMove
  <2>2. CASE UNCHANGED <<files, dd, transfers>> BY <1>9, <2>2 DEF LateMove
  <2> QED BY <1>9, <2>1, <2>2 DEF LateMove
<1>10. CASE OrphanMove
  BY <1>10, MoveKeepsTypes DEF OrphanMove
<1>11. CASE LoadTable BY <1>11 DEF LoadTable
<1>12. CASE Edit BY <1>12 DEF Edit
<1>13. CASE Retrieve BY <1>13 DEF Retrieve
<1>14. CASE Release BY <1>14 DEF Release
<1>15. CASE Restart
  <2>1. /\ UNCHANGED <<file, dd>> /\ temp' = NoText /\ moves' = 0 /\ tmpdir' = FALSE
        /\ in' = NoText /\ tree' = NoText /\ out' = NoText /\ err' = FALSE
        /\ stage' = "unloaded" /\ outcome' = "none"
    BY <1>15 DEF Restart
  <2>2. left' \in Whole \cup {Torn} /\ strays' \subseteq {"transfer", "move", "orphan"}
    BY <1>15 DEF Restart
  <2>3. transfers' \subseteq [text: Whole, to: {"path", "temp", "file", "left"}]
    BY <1>15 DEF Restart
  <2>4. moves' \in 0..MaxLate BY <2>1
  <2> QED BY <2>1, <2>2, <2>3, <2>4
<1>16. CASE UNCHANGED tableVars BY <1>16 DEF tableVars
<1> QED
  BY <1>1, <1>2, <1>3, <1>4, <1>5, <1>6, <1>7, <1>8, <1>9, <1>10, <1>11, <1>12, <1>13,
     <1>14, <1>15, <1>16 DEF TableNext, SaveStep, LateStep

\* The state of the remote file, its temporary file and the handle always has
\* the shape the model gives it.
THEOREM TableTypeCorrect == TableSpec => []TableTypeOK
<1> QED BY TableInitType, TableTypeStep, PTL DEF TableSpec

-----------------------------------------------------------------------------
\* A table that was not read has nothing to save.  Until a dd outlives its call
\* the temporary file is the save's own: a late move may take it away, also from
\* the dd that has it open, but never changes what is in it.
Temp ==
  /\ in = NoText => out = NoText
  /\ stage \in {"tmpdir", "transfer", "dd", "move"} => out # NoText /\ in # out
  /\ outcome # "none" => stage = "returned"
  /\ stage # "dd" => dd = Closed
  /\ "transfer" \notin strays =>
       /\ stage = "dd" =>
            /\ ~dd.shared
            /\ \/ dd.to = "temp" /\ temp = Torn
               \/ dd.to \in {"file", "gone"} /\ temp = NoText
       /\ stage = "move" => temp \in {out, NoText}
       /\ outcome = "ok" /\ out # NoText /\ in # out => temp = NoText

\* What is at large shows in `strays`; as long as nothing is, nobody but the save
\* touches its files.
Alone ==
  /\ "transfer" \notin strays => transfers = {}
  /\ "move" \notin strays => moves = 0
  /\ "orphan" \notin strays => left = NoText /\ \A d \in transfers : d.to # "left"
  /\ strays = {} /\ stage = "dd" => dd.to = "temp" /\ temp = Torn
  /\ strays = {} /\ stage = "move" => temp = out

TableInd == TableTypeOK /\ Temp /\ Alone /\ SavedIsOnDisk

\* Before the table is loaded there is no save to have gone wrong.
LEMMA TableInitInductive == TableInit => TableInd
<1> SUFFICES ASSUME TableInit PROVE TableInd
  OBVIOUS
<1>1. TableTypeOK BY TableInitType
<1> QED BY <1>1 DEF TableInit, TableInd, Temp, Alone, SavedIsOnDisk

\* A move does not open a file for a save that has none open.
LEMMA ClosedStays ==
  ASSUME dd = Closed, NEW place \in {"temp", "left"}, MoveOf(place)
  PROVE  dd' = Closed
BY DEF MoveOf, After, Closed

\* Every step keeps the temporary file as the save in progress needs it.
LEMMA TempStep == TableInd /\ [TableNext]_tableVars => Temp'
<1> SUFFICES ASSUME TableTypeOK, Temp, Alone, [TableNext]_tableVars PROVE Temp'
  BY DEF TableInd
<1> USE DEF Temp, Closed, machine, files, handle, Give, Done, Failed, TimesOut, Elsewhere
<1>1. CASE MakeTmpdir BY <1>1 DEF MakeTmpdir
<1>2. CASE StartTransfer BY <1>2 DEF StartTransfer, Alone
<1>3. CASE FinishTransfer BY <1>3 DEF FinishTransfer, Write
<1>4. CASE TransferFails BY <1>4 DEF TransferFails
<1>5. CASE Move
  <2>1. stage = "move" /\ dd = Closed BY <1>5 DEF Move
  <2>2. dd' = Closed BY <1>5, <2>1, ClosedStays DEF Move
  <2>3. temp' = NoText BY <1>5 DEF Move, MoveOf
  <2> QED BY <1>5, <2>2, <2>3 DEF Move
<1>6. CASE MoveFails
  <2>1. stage = "move" /\ dd = Closed BY <1>6 DEF MoveFails
  <2>2. dd' = Closed BY <1>6, <2>1, ClosedStays DEF MoveFails
  <2> QED BY <1>6, <2>2 DEF MoveFails
<1>7. CASE LateStart
  <2>1. "transfer" \in strays /\ strays' = strays BY <1>7 DEF LateStart, Alone
  <2>2. stage # "dd" => dd' = Closed
    <3>1. dd' = [dd EXCEPT !.shared = @ \/ dd.to = "temp"] BY <1>7 DEF LateStart
    <3>2. ASSUME dd = Closed PROVE dd' = Closed
      <4>1. dd.to # "temp" /\ dd.shared = FALSE BY <3>2
      <4> QED BY ONLY <3>1, <3>2, <4>1 DEF Closed
    <3> QED BY <3>2
  <2> QED BY <1>7, <2>1, <2>2 DEF LateStart
<1>8. CASE LateEnd BY <1>8 DEF LateEnd, Alone
<1>9. CASE LateMove
  <2>1. CASE UNCHANGED <<files, dd, transfers>> BY <1>9, <2>1 DEF LateMove
  <2>2. CASE temp # NoText /\ MoveOf("temp")
    <3>1. stage # "dd" => dd' = Closed BY <2>2, ClosedStays
    <3>2. temp' = NoText BY <2>2 DEF MoveOf
    <3>3. "transfer" \notin strays /\ stage = "dd" => ~dd'.shared /\ dd'.to \in {"file", "gone"}
      BY <2>2 DEF MoveOf, After, TableTypeOK
    <3> QED BY <1>9, <3>1, <3>2, <3>3 DEF LateMove
  <2> QED BY <1>9, <2>1, <2>2 DEF LateMove
<1>10. CASE OrphanMove
  <2>1. MoveOf("left") BY <1>10 DEF OrphanMove
  <2>2. stage # "dd" => dd' = Closed BY <2>1, ClosedStays
  <2>3. temp' = temp BY <2>1 DEF MoveOf
  <2>4. dd'.shared = dd.shared /\ dd'.to = After(dd.to, "left")
    BY <2>1 DEF MoveOf, TableTypeOK
  <2>5. dd'.to = dd.to \/ (dd.to = "file" /\ dd'.to = "gone")
    <3>1. dd.to # "left" BY DEF TableTypeOK
    <3> QED BY ONLY <2>4, <3>1 DEF After
  <2> QED BY <1>10, <2>2, <2>3, <2>4, <2>5 DEF OrphanMove
<1>11. CASE LoadTable BY <1>11 DEF LoadTable
<1>12. CASE Edit BY <1>12 DEF Edit
<1>13. CASE Retrieve BY <1>13 DEF Retrieve
<1>14. CASE Release BY <1>14 DEF Release
<1>15. CASE Restart BY <1>15 DEF Restart
<1>16. CASE UNCHANGED tableVars BY <1>16 DEF tableVars
<1> QED
  BY <1>1, <1>2, <1>3, <1>4, <1>5, <1>6, <1>7, <1>8, <1>9, <1>10, <1>11, <1>12, <1>13,
     <1>14, <1>15, <1>16 DEF TableNext, SaveStep, LateStep

\* The move of a temporary file leaves nothing of an ended program behind, and
\* no dd where there was none.
LEMMA NoneLeftBehind ==
  ASSUME TableTypeOK, MoveOf("temp")
  PROVE  /\ left' = left
         /\ transfers = {} => transfers' = {}
         /\ (\A d \in transfers : d.to # "left") => \A d \in transfers' : d.to # "left"
<1>1. left' = left BY DEF MoveOf
<1>2. \A d \in transfers : [d EXCEPT !.to = After(@, "temp")].to = After(d.to, "temp")
  BY DEF TableTypeOK
<1>3. \A to : to # "left" => After(to, "temp") # "left"
  BY DEF After
<1> QED BY <1>1, <1>2, <1>3 DEF MoveOf

\* The only steps that let another actor near the files are TransferFails and
\* MoveFails, and Restart when one is at large; each says so in `strays`.
LEMMA AloneStep == TableInd /\ [TableNext]_tableVars => Alone'
<1> SUFFICES ASSUME TableTypeOK, Temp, Alone, [TableNext]_tableVars PROVE Alone'
  BY DEF TableInd
<1> USE DEF Alone, machine, files, handle, Give, Done, Failed, TimesOut, Elsewhere
<1>1. CASE MakeTmpdir BY <1>1 DEF MakeTmpdir
<1>2. CASE StartTransfer BY <1>2 DEF StartTransfer
<1>3. CASE FinishTransfer
  <2>1. left' = left BY <1>3 DEF FinishTransfer, Write, TableTypeOK
  <2>2. strays = {} => ~dd.shared /\ dd.to = "temp" BY <1>3 DEF FinishTransfer, Temp
  <2>3. strays = {} => temp' = out BY <1>3, <2>2 DEF FinishTransfer, Write
  <2> QED BY <1>3, <2>1, <2>3 DEF FinishTransfer
<1>4. CASE TransferFails BY <1>4 DEF TransferFails, TableTypeOK
<1>5. CASE Move
  <2>1. MoveOf("temp") BY <1>5 DEF Move
  <2> QED BY <1>5, <2>1, NoneLeftBehind DEF Move
<1>6. CASE MoveFails
  <2>1. stage' = "returned" BY <1>6 DEF MoveFails
  <2>2. CASE UNCHANGED machine BY <2>1, <2>2
  <2>3. CASE temp # NoText /\ MoveOf("temp") /\ UNCHANGED <<moves, strays>>
    BY <2>1, <2>3, NoneLeftBehind
  <2>4. CASE strays' = strays \cup {"move"} /\ UNCHANGED <<files, dd, transfers>>
    BY <2>1, <2>4
  <2> QED BY <1>6, <2>2, <2>3, <2>4 DEF MoveFails
<1>7. CASE LateStart
  <2>1. "transfer" \in strays /\ strays' = strays BY <1>7 DEF LateStart
  <2>2. "orphan" \notin strays => \A d \in transfers' : d.to # "left"
    BY <1>7 DEF LateStart, TableTypeOK
  <2> QED BY <1>7, <2>1, <2>2 DEF LateStart
<1>8. CASE LateEnd
  <2>1. PICK d \in transfers :
          /\ (\E text \in {d.text, Torn} : Write(d.to, text)) \/ UNCHANGED files
          /\ transfers' = transfers \ {d}
    BY <1>8 DEF LateEnd
  <2>2. "transfer" \in strays /\ strays' = strays /\ moves' = moves BY <1>8, <2>1 DEF LateEnd
  <2>3. d.to # "left" => left' = left BY <2>1 DEF Write
  <2> QED BY <2>1, <2>2, <2>3
<1>9. CASE LateMove
  <2>1. /\ MoveOf("temp") \/ UNCHANGED <<files, dd, transfers>>
        /\ "move" \in strays /\ strays' = strays
    BY <1>9 DEF LateMove, TableTypeOK
  <2>2. CASE MoveOf("temp") BY <2>1, <2>2, NoneLeftBehind
  <2>3. CASE UNCHANGED <<files, dd, transfers>> BY <2>1, <2>3
  <2> QED BY <2>1, <2>2, <2>3
<1>10. CASE OrphanMove
  <2>1. MoveOf("left") /\ "orphan" \in strays /\ strays' = strays /\ moves' = moves
    BY <1>10 DEF OrphanMove
  <2> QED BY <2>1 DEF MoveOf
<1>11. CASE LoadTable BY <1>11 DEF LoadTable
<1>12. CASE Edit BY <1>12 DEF Edit
<1>13. CASE Retrieve BY <1>13 DEF Retrieve
<1>14. CASE Release BY <1>14 DEF Release
<1>15. CASE Restart
  <2>1. stage' = "unloaded" /\ moves' = 0 BY <1>15 DEF Restart
  <2>2. CASE /\ transfers' = {d \in transfers : d.to \in {"file", "left"}}
             /\ UNCHANGED <<left, strays>>
    BY <2>1, <2>2
  <2>3. CASE moves > 0 /\ "orphan" \in strays'
             /\ transfers' = {[d EXCEPT !.to = IF @ = "file" THEN @ ELSE "left"] : d \in transfers}
             /\ strays' = strays \cup {"orphan"}
    BY <2>1, <2>3
  <2> QED BY <1>15, <2>2, <2>3 DEF Restart
<1>16. CASE UNCHANGED tableVars BY <1>16 DEF tableVars
<1> QED
  BY <1>1, <1>2, <1>3, <1>4, <1>5, <1>6, <1>7, <1>8, <1>9, <1>10, <1>11, <1>12, <1>13,
     <1>14, <1>15, <1>16 DEF TableNext, SaveStep, LateStep

\* A save that says ok has moved the temporary file, which held the whole text;
\* a late move finds nothing to put over it.
LEMMA SavedStep == TableInd /\ [TableNext]_tableVars => SavedIsOnDisk'
<1> SUFFICES ASSUME TableTypeOK, Temp, Alone, SavedIsOnDisk, [TableNext]_tableVars PROVE SavedIsOnDisk'
  BY DEF TableInd
<1> USE DEF SavedIsOnDisk, machine, files, handle, Give, Done, Failed, TimesOut, Elsewhere
<1>1. CASE MakeTmpdir BY <1>1 DEF MakeTmpdir, Temp
<1>2. CASE StartTransfer BY <1>2 DEF StartTransfer, Temp
<1>3. CASE FinishTransfer BY <1>3 DEF FinishTransfer, Temp
<1>4. CASE TransferFails BY <1>4 DEF TransferFails
<1>5. CASE Move BY <1>5 DEF Move, MoveOf, Temp
<1>6. CASE MoveFails BY <1>6 DEF MoveFails
<1>7. CASE LateStart BY <1>7 DEF LateStart, Alone
<1>8. CASE LateEnd BY <1>8 DEF LateEnd, Alone
<1>9. CASE LateMove BY <1>9 DEF LateMove, MoveOf, Temp, Alone
<1>10. CASE OrphanMove BY <1>10 DEF OrphanMove, Alone
<1>11. CASE LoadTable BY <1>11 DEF LoadTable, Temp
<1>12. CASE Edit BY <1>12 DEF Edit, Temp
<1>13. CASE Retrieve BY <1>13 DEF Retrieve, Temp
<1>14. CASE Release BY <1>14 DEF Release
<1>15. CASE Restart BY <1>15 DEF Restart
<1>16. CASE UNCHANGED tableVars BY <1>16 DEF tableVars
<1> QED
  BY <1>1, <1>2, <1>3, <1>4, <1>5, <1>6, <1>7, <1>8, <1>9, <1>10, <1>11, <1>12, <1>13,
     <1>14, <1>15, <1>16 DEF TableNext, SaveStep, LateStep

\* The four parts of the invariant are inductive together.
LEMMA TableInductiveStep == TableInd /\ [TableNext]_tableVars => TableInd'
BY TableTypeStep, TempStep, AloneStep, SavedStep DEF TableInd

\* A save that had something to write and returns ok has written it, for every
\* set of texts, any number of saves before it and of moves that outlived their
\* call, until a dd outlives its own.
THEOREM SavedIsAlwaysOnDisk == TableSpec => []SavedIsOnDisk
<1>1. TableInd => SavedIsOnDisk
  BY DEF TableInd
<1> QED BY TableInitInductive, TableInductiveStep, <1>1, PTL DEF TableSpec

\* What one step may do to the file while no command is at large.
Replacing == strays = {} /\ file' # file => stage = "move" /\ file' = out /\ out # in

\* Of the steps that change the file, Move and MoveFails put the whole temporary
\* file in its place; every other one needs a command that outlived its call.
LEMMA StepReplaces == TableInd /\ [TableNext]_tableVars => [Replacing]_tableVars
<1> SUFFICES ASSUME TableTypeOK, Temp, Alone, [TableNext]_tableVars, strays = {}, file' # file
             PROVE  stage = "move" /\ file' = out /\ out # in
  BY DEF TableInd, Replacing
<1> USE DEF machine, files, handle
<1>1. CASE FinishTransfer BY <1>1 DEF FinishTransfer, Write, Alone
<1>2. CASE Move BY <1>2 DEF Move, MoveOf, Temp, Alone
<1>3. CASE MoveFails BY <1>3 DEF MoveFails, MoveOf, Temp, Alone
<1>4. CASE LateStep BY <1>4 DEF LateStep, LateStart, LateEnd, LateMove, OrphanMove, Alone
<1>5. CASE MakeTmpdir \/ StartTransfer \/ TransferFails
  BY <1>5 DEF MakeTmpdir, StartTransfer, TransferFails
<1>6. CASE LoadTable \/ Edit \/ Retrieve \/ Release \/ Restart \/ UNCHANGED tableVars
  BY <1>6 DEF LoadTable, Edit, Retrieve, Release, Restart, tableVars
<1> QED BY <1>1, <1>2, <1>3, <1>4, <1>5, <1>6 DEF TableNext, SaveStep

\* The remote file is replaced in one step by the whole text being saved and
\* changes in no other way, until a remote command outlives its call.
THEOREM AlwaysReplacedWhole == TableSpec => ReplacedWhole
<1>1. TableInd /\ [TableNext]_tableVars => [Replacing]_tableVars
  BY StepReplaces
<1> QED BY TableInitInductive, TableInductiveStep, <1>1, PTL DEF TableSpec, ReplacedWhole, Replacing
=============================================================================
