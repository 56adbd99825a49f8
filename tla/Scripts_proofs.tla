---------------------------- MODULE Scripts_proofs ----------------------------
(* Theorems about the two providers that run a script, SimpleProvider and    *)
(* JsonProvider, for any packages, versions and batches.                     *)
EXTENDS SimpleProvider, JsonProvider, Lists_proofs

-----------------------------------------------------------------------------
(* Operators. *)

\* A set of natural numbers has a least element.
LEMMA LeastNumber ==
  ASSUME NEW I, I \subseteq Nat, I # {}
  PROVE  Min(I) \in I /\ \A k \in I : Min(I) <= k
<1>1. PICK m \in I : \A k \in I : ~ (<<k, m>> \in OpToRel(<, Nat))
  BY NatLessThanWellFounded, WFMin
<1>2. \A k \in I : ~ (k < m)
  <2> SUFFICES ASSUME NEW k \in I, k < m PROVE FALSE
    OBVIOUS
  <2>1. <<k, m>> \in {ss \in Nat \X Nat : ss[1] < ss[2]}
    OBVIOUS
  <2> QED BY <2>1, <1>1 DEF OpToRel
<1>3. \E x \in I : \A y \in I : x <= y
  BY <1>2
<1> QED BY <1>3 DEF Min

\* SetToSeq lists every element once.
LEMMA SetToSeqFacts ==
  ASSUME NEW S, IsFiniteSet(S)
  PROVE  /\ Cardinality(S) \in Nat
         /\ SetToSeq(S) \in [1..Cardinality(S) -> S]
         /\ \A i, j \in 1..Cardinality(S) : SetToSeq(S)[i] = SetToSeq(S)[j] => i = j
         /\ \A x \in S : \E i \in 1..Cardinality(S) : SetToSeq(S)[i] = x
<1> DEFINE k == Cardinality(S)
           f == SetToSeq(S)
<1>1. k \in Nat /\ ExistsBijection(1..k, S)
  BY FS_CardinalityType
<1>2. \E g \in [1..k -> S] : IsInjective(g)
  BY <1>1 DEF ExistsBijection, Bijection, Injection
<1>3. f \in [1..k -> S] /\ IsInjective(f)
  BY <1>2 DEF SetToSeq
<1> HIDE DEF f
<1>4. f \in Injection(1..k, S)
  BY <1>3 DEF Injection
<1>5. IsFiniteSet(1..k) /\ Cardinality(1..k) = k
  BY <1>1, FS_Interval
<1> HIDE DEF k
<1>6. f \in Surjection(1..k, S)
  BY <1>4, <1>5, FS_Injection DEF k
<1> QED BY <1>1, <1>3, <1>6 DEF IsInjective, Surjection, f, k

\* The attributes that are listed are those that were to be.
LEMMA InOrderFacts ==
  ASSUME NEW A, A \subseteq Attr
  PROVE  /\ InOrder(A) \in Seq(Attr)
         /\ \A i \in 1..Len(InOrder(A)) : InOrder(A)[i] \in A
         /\ \A a \in A : \E i \in 1..Len(InOrder(A)) : InOrder(A)[i] = a
<1>1. Attr = {"ensure", "version"}
  BY DEF Attr
<1>2. CASE "ensure" \in A /\ "version" \in A
  <2> DEFINE s == <<"ensure">>
             t == <<"version">>
  <2>1. s \in Seq(Attr) /\ t \in Seq(Attr) /\ Len(s) = 1 /\ Len(t) = 1 /\ s[1] = "ensure" /\ t[1] = "version"
    BY <1>1
  <2>2. InOrder(A) = s \o t
    BY <1>2 DEF InOrder
  <2> HIDE DEF s, t
  <2>3. /\ s \o t \in Seq(Attr) /\ Len(s \o t) = Len(s) + Len(t)
        /\ \A k \in 1..Len(s) : (s \o t)[k] = s[k]
        /\ \A k \in 1..Len(t) : (s \o t)[Len(s) + k] = t[k]
    BY <2>1, ConcatFacts
  <2>5. Len(s \o t) = 2 /\ (s \o t)[1] = "ensure" /\ (s \o t)[2] = "version"
    BY <2>1, <2>3
  <2>4. 1 \in 1..2 /\ 2 \in 1..2 /\ \A i \in 1..2 : i = 1 \/ i = 2
    OBVIOUS
  <2> QED BY <1>1, <1>2, <2>2, <2>3, <2>4, <2>5
<1>3. CASE "ensure" \in A /\ "version" \notin A
  <2>1. InOrder(A) = <<"ensure">>
    BY <1>3 DEF InOrder
  <2> QED BY <1>1, <1>3, <2>1
<1>4. CASE "ensure" \notin A /\ "version" \in A
  <2>1. InOrder(A) = <<"version">>
    BY <1>4 DEF InOrder
  <2> QED BY <1>1, <1>4, <2>1
<1>5. CASE "ensure" \notin A /\ "version" \notin A
  <2>1. InOrder(A) = <<>>
    BY <1>5 DEF InOrder
  <2> QED BY <1>1, <1>5, <2>1
<1> QED BY <1>2, <1>3, <1>4, <1>5

-----------------------------------------------------------------------------
(* Packages. *)

USE WordsAssumption

LEMMA AttrsType ==
  ASSUME NEW s \in PackageState
  PROVE  /\ Attrs(s)["ensure"] \in {"present", "absent"} /\ Attrs(s)["version"] \in Version \cup {None}
         /\ Attrs(s)["ensure"] = "absent" <=> s \notin Version
         /\ s \in Version => Attrs(s)["version"] = s
         /\ s \notin Version => Attrs(s)["version"] = None
         /\ Attrs(s) = [a \in Attr |-> Attrs(s)[a]]
BY DEF Attrs, Attr

LEMMA AttrIs == Attr = {"ensure", "version"} /\ "ensure" \in Attr /\ "version" \in Attr /\ "ensure" # "version"
BY DEF Attr

\* A package is known to be absent, or of a version, or not to exist.
LEMMA StateIs ==
  ASSUME NEW s \in PackageState
  PROVE  /\ s = "absent" \/ s = "unknown" \/ s \in Version
         /\ s \in Version => s # "absent" /\ s # "unknown"
         /\ s # None
BY DEF PackageState

LEMMA ShouldType ==
  ASSUME NEW w \in PackageShould
  PROVE  /\ w.name \in Name /\ w.attrs["ensure"] \in {None, "present", "absent"}
         /\ w.attrs["version"] \in Version \cup {None}
BY DEF PackageShould, Attr

\* What a script is told: some of a should, or all of it.
PartOf(args, w) ==
  args["ensure"] \in {None, w.attrs["ensure"]} /\ args["version"] \in {None, w.attrs["version"]}

LEMMA ResultsType ==
  ASSUME NEW s \in PackageState, NEW args, NEW w \in PackageShould, PartOf(args, w),
         NEW t \in Results(s, args)
  PROVE  t \in PackageState /\ (t = "unknown" <=> s = "unknown")
<1>1. w.attrs["version"] \in Version \cup {None}
  BY ShouldType
<1> QED BY <1>1, StateIs DEF Results, PartOf, PackageState

\* What is not told the package was already.
LEMMA ResultsAsAsked ==
  ASSUME NEW s \in PackageState, s # "unknown", NEW w \in PackageShould, Sensible(w, s),
         NEW args, args = [a \in Attr |-> args[a]], PartOf(args, w),
         \A a \in Attr : args[a] = None => w.attrs[a] \in {None, Attrs(s)[a]},
         NEW t \in Results(s, args)
  PROVE  AsAsked(w, t)
<1> DEFINE e == w.attrs["ensure"]
           v == w.attrs["version"]
<1>1. e \in {None, "present", "absent"} /\ v \in Version \cup {None}
  BY ShouldType
<1>2. /\ args["ensure"] \in {None, e} /\ args["version"] \in {None, v}
      /\ args["ensure"] = None => e \in {None, Attrs(s)["ensure"]}
      /\ args["version"] = None => v \in {None, Attrs(s)["version"]}
  BY AttrIs DEF PartOf
<1>3. t \in PackageState /\ t # "unknown"
  BY ResultsType
<1>4. AsAsked(w, t) <=> e \in {None, Attrs(t)["ensure"]} /\ v \in {None, Attrs(t)["version"]}
  BY AttrIs DEF AsAsked
<1>5. Sensible(w, s) <=> CASE e = "absent" -> v = None [] e = "present" -> TRUE [] OTHER -> s # "absent"
  BY DEF Sensible
<1>6. args = [ensure |-> "present", version |-> None] <=> args["ensure"] = "present" /\ args["version"] = None
  BY AttrIs
<1> DEFINE ae == args["ensure"]
           av == args["version"]
<1>7. Results(s, args) = CASE ae = "absent" -> {"absent"}
                           [] ae # "absent" /\ s = "absent" /\ ae = None -> {s}
                           [] s = "absent" /\ ae = "present" /\ av = None -> Version
                           [] OTHER -> {IF av = None THEN s ELSE av}
  BY <1>1, <1>2, <1>6 DEF Results
<1> HIDE DEF e, v, ae, av
<1>8. CASE ae = "absent"
  BY <1>1, <1>2, <1>3, <1>4, <1>5, <1>7, <1>8, AttrsType, StateIs DEF ae, av
<1>9. CASE ae = None /\ s = "absent"
  BY <1>1, <1>2, <1>3, <1>4, <1>5, <1>7, <1>9, AttrsType, StateIs DEF ae, av
<1>10. CASE s = "absent" /\ ae = "present" /\ av = None
  BY <1>1, <1>2, <1>3, <1>4, <1>5, <1>7, <1>10, AttrsType, StateIs DEF ae, av
<1>11. CASE ~ (ae = "absent") /\ ~ (ae = None /\ s = "absent") /\ ~ (s = "absent" /\ ae = "present" /\ av = None)
  <2>1. t = IF av = None THEN s ELSE av
    BY <1>7, <1>11
  <2> QED BY <1>1, <1>2, <1>3, <1>4, <1>5, <1>11, <2>1, AttrsType, StateIs DEF ae, av
<1> QED BY <1>8, <1>9, <1>10, <1>11

\* A package that is as asked stays what it is.
LEMMA ResultsStay ==
  ASSUME NEW s \in PackageState, s # "unknown", NEW w \in PackageShould, AsAsked(w, s),
         NEW args, args = [a \in Attr |-> args[a]], PartOf(args, w),
         NEW t \in Results(s, args)
  PROVE  t = s
<1> DEFINE e == w.attrs["ensure"]
           v == w.attrs["version"]
           ae == args["ensure"]
           av == args["version"]
<1>1. e \in {None, "present", "absent"} /\ v \in Version \cup {None}
  BY ShouldType
<1>2. ae \in {None, e} /\ av \in {None, v}
  BY DEF PartOf
<1>3. e \in {None, Attrs(s)["ensure"]} /\ v \in {None, Attrs(s)["version"]}
  BY AttrIs DEF AsAsked
<1>4. args = [ensure |-> "present", version |-> None] => ae = "present"
  BY AttrIs
<1>5. t \in CASE ae = "absent" -> {"absent"}
              [] ae # "absent" /\ s = "absent" /\ ae = None -> {s}
              [] args = [ensure |-> "present", version |-> None] /\ s = "absent" -> Version
              [] OTHER -> {IF av = None THEN s ELSE av}
  BY <1>1, <1>2, <1>4 DEF Results
<1> HIDE DEF e, v, ae, av
<1>6. s = "absent" => ae # "present"
  BY <1>1, <1>2, <1>3, AttrsType, StateIs
<1>7. ae = "absent" => s = "absent"
  BY <1>1, <1>2, <1>3, AttrsType, StateIs
<1>8. av # None => av = s
  BY <1>1, <1>2, <1>3, AttrsType, StateIs
<1> QED BY <1>1, <1>2, <1>4, <1>5, <1>6, <1>7, <1>8

\* An update derives the changes of a package that went from state s to state t
\* as asked and of which nothing was asked that is not on record.
LEMMA DueTruthful ==
  ASSUME NEW s \in PackageState, NEW t \in PackageState, s # "unknown",
         NEW upd, upd.should \in PackageShould, Sensible(upd.should, s), AsAsked(upd.should, t),
         \A a \in Attr : upd.is.attrs[a] \in {None, Attrs(s)[a]},
         NEW T, \A a \in Attr : Changed(upd, a) => Diff(upd, a) \in T, NEW c \in Seq(T),
         NEW a \in Attr, Attrs(t)[a] \notin {None, Attrs(s)[a]}, Exists(c, a) \/ upd.should.attrs[a] # None
  PROVE  Exists(MaybeAdd(c, AttrSeq, upd), a)
<1> DEFINE d == MaybeAdd(c, AttrSeq, upd)
           due == DueAttrs(AttrSeq, upd)
<1>1. AttrSeq \in Seq(Attr) /\ AttrSeq = <<"ensure", "version">> /\ "ensure" \in Attr
  BY AttrIs DEF AttrSeq
<1>2. /\ \A b : Exists(c, b) => Exists(d, b)
      /\ \A i \in 1..Len(due) : Changed(upd, due[i]) => Exists(d, due[i])
  BY <1>1, MaybeAddFacts
<1> HIDE DEF d
<1>3. CASE Exists(c, a)
  BY <1>2, <1>3 DEF d
<1>4. CASE upd.should.attrs[a] # None
  <2>1. Changed(upd, a)
    BY <1>4 DEF AsAsked, Changed
  <2>2. CASE Desired(upd, "ensure") = "absent"
    <3>1. due = <<"ensure">>
      BY <2>2 DEF DueAttrs
    <3>2. a = "ensure"
      <4> SUFFICES ASSUME a = "version" PROVE FALSE
        BY AttrIs
      <4>1. t \in Version /\ Attrs(t)["ensure"] = "present"
        BY AttrsType
      <4>2. upd.should.attrs["ensure"] \in {None, "present"}
        BY <4>1, AttrIs DEF AsAsked
      <4>3. upd.should.attrs["ensure"] = None /\ upd.is.attrs["ensure"] = "absent"
        BY <2>2, <4>2 DEF Desired, Lookup
      <4>4. Attrs(s)["ensure"] = "absent"
        BY <4>3, AttrIs
      <4>5. s = "absent"
        BY <4>4, AttrsType, StateIs
      <4> QED BY <4>3, <4>5 DEF Sensible
    <3>3. 1 \in 1..Len(due) /\ due[1] = a
      BY <3>1, <3>2
    <3> QED BY <1>2, <2>1, <3>3 DEF d
  <2>3. CASE Desired(upd, "ensure") # "absent"
    <3>1. due = <<"ensure", "version">>
      BY <1>1, <2>3 DEF DueAttrs
    <3>2. Len(due) = 2 /\ due[1] = "ensure" /\ due[2] = "version"
      BY <3>1
    <3>3. 1 \in 1..2 /\ 2 \in 1..2
      OBVIOUS
    <3>4. \E k \in 1..Len(due) : due[k] = a
      BY <3>2, <3>3, AttrIs
    <3> QED BY <1>2, <2>1, <3>4 DEF d
  <2> QED BY <2>2, <2>3
<1> QED BY <1>3, <1>4

Value == Version \cup {None, "present", "absent"}

Found == [name: Name, attrs: [Attr -> Value]]

Updates == [is: Found, should: PackageShould]

\* The lookup makes updates of the shoulds of the batch, of what was found, or
\* of a blank resource.
LEMMA PairBatch ==
  ASSUME NEW batch \in Seq(PackageShould), NEW P \in SUBSET Found, NEW iss \in Seq(P),
         \A n \in Name : Blank(n, Attr) \in P
  PROVE  Pair(batch, iss, Attr) \in Seq({x \in Updates :
           /\ x.is \in P /\ UpdateName(x) = x.should.name
           /\ \E j \in DOMAIN batch : x.should = batch[j]})
<1> DEFINE W == {batch[j] : j \in DOMAIN batch}
           U == {x \in Updates : /\ x.is \in P /\ UpdateName(x) = x.should.name
                                 /\ \E j \in DOMAIN batch : x.should = batch[j]}
<1>1. batch \in Seq(W) /\ W \subseteq PackageShould
  <2>1. DOMAIN batch = 1..Len(batch) /\ Len(batch) \in Nat /\ \A j \in 1..Len(batch) : batch[j] \in PackageShould
    OBVIOUS
  <2> QED BY <2>1
<1>2. \A w \in W : \E j \in DOMAIN batch : w = batch[j]
  OBVIOUS
<1>3. ASSUME NEW w \in W, NEW r \in P, r.name = w.name PROVE Update(r, w) \in U
  <2>1. Update(r, w).is = r /\ Update(r, w).should = w
    BY DEF Update
  <2>2. Update(r, w) \in Updates
    BY <1>1 DEF Update, Updates
  <2> QED BY <1>2, <1>3, <2>1, <2>2 DEF UpdateName
<1>4. ASSUME NEW w \in W PROVE Update(Blank(w.name, Attr), w) \in U
  <2>1. w.name \in Name
    BY <1>1, ShouldType
  <2>2. Blank(w.name, Attr) \in P /\ Blank(w.name, Attr).name = w.name
    BY <2>1 DEF Blank, Resource
  <2> QED BY <1>3, <2>2
<1> HIDE DEF W, U
<1>5. Pair(batch, iss, Attr) \in Seq(U)
  BY <1>1, <1>3, <1>4, PairType
<1> QED BY <1>5 DEF U

-----------------------------------------------------------------------------
(* SimpleProvider: the inductive invariant. *)

Noted == [attr: Attr \cup {"ral_unknown", "junk"}, is: Value \cup {"true", "junk"}, was: Value]

\* The lines of a reply after the first, when nothing goes wrong.
EntryLine ==
  [key: {"name"}, value: Name] \cup [key: {"ral_unknown", "ral_derive"}, value: {"true"}] \cup
  [key: Attr \cup {"ral_was"}, value: Value]

AnyLine == EntryLine \cup {Header, ErrorLine, Eom, Junk}

\* The first line comes first, and the end of an error after its beginning.
Framed ==
  \A i \in DOMAIN out :
    /\ out[i] = Header => i = 1 /\ mode = "header"
    /\ out[i] = Eom => IF i = 1 THEN mode = "message" ELSE out[i - 1] = ErrorLine

Shape ==
  /\ SimpleTypeOK
  /\ out \in Seq(AnyLine)
  /\ res \in Seq(Found) /\ chgs \in [Name -> Seq(Noted)]
  /\ pc \in {"idle", "find", "list"} =>
       upds = <<>> /\ next = 1 /\ chgs = [n \in Name |-> <<>>] /\ outcome = "none"
  /\ pc \in {"find", "list"} => before = sys
  /\ pc = "idle" => before = sys /\ faults = {} /\ res = <<>>
  /\ pc = "update" => next \in DOMAIN upds
  /\ outcome # "none" => pc = "returned"
  /\ outcome = "ok" => next > Len(upds)
  /\ mode # "failed" => Framed

\* The garbage that the script printed is still to be read.
GarbageDue ==
  /\ mode \in {"header", "entries"}
  /\ out # <<>> /\ out[Len(out)] = Junk
  /\ \A i \in DOMAIN out : out[i] # ErrorLine

\* The error that the script printed is still to be read, or its end is.
ErrorDue ==
  \/ mode = "message" /\ out = <<Eom>>
  \/ /\ mode \in {"header", "entries"}
     /\ Len(out) > 1 /\ out[Len(out) - 1] = ErrorLine /\ out[Len(out)] = Eom
     /\ \A i \in 1..Len(out) - 2 : out[i] # ErrorLine

\* Every fault but an error without an end is noticed before its run ends.
Announced ==
  /\ Running => /\ "died" \in faults => ~exit
                /\ "garbage" \in faults => mode = "failed" \/ GarbageDue
                /\ "error" \in faults => mode = "failed" \/ ErrorDue
  /\ pc = "set" \/ outcome = "ok" => faults \subseteq {"unfinished"}

\* A run in which nothing went wrong has neither an error nor garbage to tell.
Clean ==
  Running /\ faults = {} =>
    mode # "message" /\ \A i \in DOMAIN out : out[i] \notin {ErrorLine, Junk}

\* Line i belongs to a package whose attribute it tells: that of the last name
\* above it, which is in the reply or was read before.
Owned(lines, i, state) ==
  \E j \in 1..i - 1 :
    /\ lines[j].key = "name" /\ \A k \in j + 1..i - 1 : lines[k].key # "name"
    /\ lines[i].value = Attrs(state[lines[j].value])[lines[i].key]

LinesOwned ==
  \A i \in DOMAIN out :
    out[i].key \in Attr =>
      \/ Owned(out, i, before)
      \/ /\ \A k \in 1..i - 1 : out[k].key # "name"
         /\ res # <<>> => out[i].value = Attrs(before[res[Len(res)].name])[out[i].key]

\* What is known of a package is what it was at the lookup.
AsBefore(rsrc) == \A a \in Attr : rsrc.attrs[a] \in {None, Attrs(before[rsrc.name])[a]}

LookedUp ==
  pc \in {"find", "list"} /\ faults = {} /\ mode # "failed" =>
    LinesOwned /\ \A i \in DOMAIN res : AsBefore(res[i])

\* Each update is that of a should, and no should is without one.
Paired ==
  /\ \A i \in DOMAIN upds :
       /\ AsBefore(upds[i].is)
       /\ \E j \in DOMAIN shoulds : upds[i].should = shoulds[j]
       /\ UpdateName(upds[i]) = upds[i].should.name
  /\ \A j \in DOMAIN shoulds : \E i \in DOMAIN upds : upds[i].should = shoulds[j]

\* The loop is past update i, or the script has run for it.
Past(i) == i < next \/ (i = next /\ pc = "update")

\* The updates of package n.
Of(n) == {i \in DOMAIN upds : UpdateName(upds[i]) = n}

Meant(i, n) == Sensible(upds[i].should, before[n]) /\ sys[n] # "unknown"

\* The changes on record tell what the package is now.
Current(n) ==
  \A k \in DOMAIN chgs[n] :
    chgs[n][k].attr \in Attr /\ chgs[n][k].is = Attrs(sys[n])[chgs[n][k].attr]

Gained(n, a) == Attrs(sys[n])[a] \notin {None, Attrs(before[n])[a]}

NothingLost(n) == \A a \in Attr : Gained(n, a) => Exists(chgs[n], a)

\* What the run that is read has yet to tell of package n.
ReadOn(n) ==
  /\ \A i \in DOMAIN out : out[i].key \in Attr => out[i].value = Attrs(sys[n])[out[i].key]
  /\ \A i \in DOMAIN out : out[i].key # "ral_unknown"
  /\ \A a \in Attr : Gained(n, a) =>
       \/ Exists(chgs[n], a)
       \/ \E i \in DOMAIN out : out[i].key = a
       \/ (derive \/ \E i \in DOMAIN out : out[i].key = "ral_derive") /\ Args[a] = Attrs(sys[n])[a]

\* How far the updates of package n are.
Brought(n) ==
  /\ sys[n] = "unknown" <=> before[n] = "unknown"
  /\ (\A i \in Of(n) : ~Past(i)) => sys[n] = before[n] /\ chgs[n] = <<>>
  /\ \A i \in Of(n) : Meant(i, n) =>
       /\ Past(i) => AsAsked(upds[i].should, sys[n])
       /\ Current(n)
       /\ IF pc = "update" /\ next \in Of(n) THEN mode # "failed" => ReadOn(n) ELSE NothingLost(n)

Progress ==
  (pc \in {"set", "update"} \/ outcome = "ok") /\ faults = {} =>
    Paired /\ (Distinct => \A n \in Name : Brought(n))

SimpleInd == Shape /\ Announced /\ Clean /\ LookedUp /\ Progress

-----------------------------------------------------------------------------
(* SimpleProvider: the output of a script. *)

LEMMA LinesDiffer ==
  /\ \A l \in EntryLine : l # Header /\ l # ErrorLine /\ l # Eom /\ l # Junk
  /\ Header # ErrorLine /\ Header # Eom /\ Header # Junk
  /\ ErrorLine # Eom /\ ErrorLine # Junk /\ Eom # Junk
  /\ \A l \in EntryLine : l.key \in {"name", "ral_unknown", "ral_derive", "ral_was"} \cup Attr
  /\ Header.key = "# simple" /\ ErrorLine.key = "ral_error" /\ Eom.key = "ral_eom" /\ Junk.key = "junk"
<1>1. Header.key = "# simple" /\ ErrorLine.key = "ral_error" /\ Eom.key = "ral_eom" /\ Junk.key = "junk"
  BY DEF Header, ErrorLine, Eom, Junk, Line
<1>2. \A l \in EntryLine : l.key \in {"name", "ral_unknown", "ral_derive", "ral_was"} \cup Attr
  BY DEF EntryLine
<1> QED BY <1>1, <1>2, AttrIs

\* What each fault adds to the output.
Ending(f) ==
  CASE f = "died" -> <<>> [] f = "error" -> <<ErrorLine, Eom>>
    [] f = "unfinished" -> <<ErrorLine>> [] f = "garbage" -> <<Junk>>

ScriptFaults == {"died", "error", "unfinished", "garbage"}

\* The output is a complete reply, or some of it and the ending of a fault.
CutShort(o, full, k, f) ==
  /\ Len(o) = k + Len(Ending(f))
  /\ \A i \in 1..k : o[i] = full[i]
  /\ \A i \in 1..Len(Ending(f)) : o[k + i] = Ending(f)[i]

LEMMA LinesConcat ==
  ASSUME NEW a \in Seq(AnyLine), NEW b \in Seq(AnyLine)
  PROVE  /\ a \o b \in Seq(AnyLine) /\ Len(a \o b) = Len(a) + Len(b)
         /\ Len(a) \in Nat /\ Len(b) \in Nat
         /\ \A k \in 1..Len(a) : (a \o b)[k] = a[k]
         /\ \A k \in 1..Len(b) : (a \o b)[Len(a) + k] = b[k]
BY ConcatFacts

LEMMA EntryConcat ==
  ASSUME NEW a \in Seq(EntryLine), NEW b \in Seq(EntryLine)
  PROVE  /\ a \o b \in Seq(EntryLine) /\ Len(a \o b) = Len(a) + Len(b)
         /\ Len(a) \in Nat /\ Len(b) \in Nat
         /\ \A k \in 1..Len(a) : (a \o b)[k] = a[k]
         /\ \A k \in 1..Len(b) : (a \o b)[Len(a) + k] = b[k]
BY ConcatFacts

LEMMA FullReply ==
  ASSUME NEW text \in Seq(EntryLine)
  PROVE  LET full == <<Header>> \o text
         IN  /\ full \in Seq(AnyLine) /\ Len(full) = Len(text) + 1 /\ Len(text) \in Nat
             /\ full[1] = Header
             /\ \A i \in 2..Len(full) : i - 1 \in 1..Len(text) /\ full[i] = text[i - 1]
             /\ \A i \in 1..Len(text) : full[i + 1] = text[i] /\ text[i] \in EntryLine
<1> DEFINE h == <<Header>>
<1>1. h \in Seq(AnyLine) /\ Len(h) = 1 /\ h[1] = Header /\ text \in Seq(AnyLine)
  BY DEF AnyLine
<1> HIDE DEF h
<1>2. /\ h \o text \in Seq(AnyLine) /\ Len(h \o text) = Len(h) + Len(text)
      /\ Len(h) \in Nat /\ Len(text) \in Nat
      /\ \A k \in 1..Len(h) : (h \o text)[k] = h[k]
      /\ \A k \in 1..Len(text) : (h \o text)[Len(h) + k] = text[k]
  BY <1>1, LinesConcat
<1> DEFINE full == h \o text
<1>3. full \in Seq(AnyLine) /\ Len(full) = Len(text) + 1 /\ full[1] = Header
  BY <1>1, <1>2
<1>4. \A k \in 1..Len(text) : full[1 + k] = text[k] /\ text[k] \in EntryLine
  BY <1>1, <1>2
<1> HIDE DEF full
<1>5. \A i \in 2..Len(full) : i - 1 \in 1..Len(text) /\ 1 + (i - 1) = i
  BY <1>2, <1>3
<1>6. \A i \in 2..Len(full) : full[i] = text[i - 1]
  BY <1>4, <1>5
<1> QED BY <1>2, <1>3, <1>4, <1>5, <1>6 DEF full, h

LEMMA EndingFacts ==
  ASSUME NEW f \in ScriptFaults
  PROVE  /\ Ending(f) \in Seq(AnyLine)
         /\ f = "died" => Len(Ending(f)) = 0
         /\ f = "error" => Len(Ending(f)) = 2 /\ Ending(f)[1] = ErrorLine /\ Ending(f)[2] = Eom
         /\ f = "unfinished" => Len(Ending(f)) = 1 /\ Ending(f)[1] = ErrorLine
         /\ f = "garbage" => Len(Ending(f)) = 1 /\ Ending(f)[1] = Junk
<1>1. CASE f = "died"
  BY <1>1 DEF Ending
<1>2. CASE f = "error"
  BY <1>2 DEF Ending, AnyLine
<1>3. CASE f = "unfinished"
  BY <1>3 DEF Ending, AnyLine
<1>4. CASE f = "garbage"
  BY <1>4 DEF Ending, AnyLine
<1> QED BY <1>1, <1>2, <1>3, <1>4 DEF ScriptFaults

LEMMA RunsFacts ==
  ASSUME NEW text \in Seq(EntryLine), NEW n, NEW s, NEW t, ScriptRuns(text, n, s, t)
  PROVE  LET full == <<Header>> \o text
         IN  /\ out' \in Seq(AnyLine) /\ exit' \in BOOLEAN
             /\ \E e \in {s, t} : sys' = [sys EXCEPT ![n] = e]
             /\ \/ out' = full /\ exit' = TRUE /\ faults' = faults /\ sys' = [sys EXCEPT ![n] = s]
                \/ \E k \in 0..Len(full), f \in ScriptFaults :
                     /\ CutShort(out', full, k, f)
                     /\ exit' = (f # "died")
                     /\ faults' = faults \cup {f}
<1> DEFINE full == <<Header>> \o text
<1>1. full \in Seq(AnyLine)
  BY FullReply
<1>2. CASE out' = full /\ exit' = TRUE /\ sys' = [sys EXCEPT ![n] = s] /\ UNCHANGED faults
  BY <1>1, <1>2
<1>3. ASSUME NEW k \in 0..Len(full), NEW f \in ScriptFaults, NEW e \in {s, t},
             out' = SubSeq(full, 1, k) \o Ending(f), exit' = (f # "died"),
             sys' = [sys EXCEPT ![n] = e], faults' = faults \cup {f}
      PROVE  CutShort(out', full, k, f) /\ out' \in Seq(AnyLine)
  <2> HIDE DEF full
  <2> DEFINE p == SubSeq(full, 1, k)
             q == Ending(f)
  <2>1. p \in Seq(AnyLine) /\ Len(p) = k /\ \A i \in 1..k : p[i] = full[i]
    BY <1>1
  <2>2. q \in Seq(AnyLine)
    BY EndingFacts
  <2>3. out' = p \o q
    BY <1>3
  <2> HIDE DEF p, q
  <2>4. /\ p \o q \in Seq(AnyLine) /\ Len(p \o q) = Len(p) + Len(q)
        /\ \A i \in 1..Len(p) : (p \o q)[i] = p[i]
        /\ \A i \in 1..Len(q) : (p \o q)[Len(p) + i] = q[i]
    BY <2>1, <2>2, LinesConcat
  <2> QED BY <2>1, <2>3, <2>4 DEF CutShort, q
<1> QED BY <1>2, <1>3 DEF ScriptRuns, Ending, ScriptFaults

LEMMA LineKinds ==
  ASSUME NEW l \in AnyLine
  PROVE  /\ l.key = "name" => l.value \in Name
         /\ l.key \in Attr \cup {"ral_was"} => l.value \in Value
         /\ l.key \in {"ral_unknown", "ral_derive"} => l.value = "true"
         /\ l.key = "junk" => l.value = "junk"
         /\ l.key \in {"name", "ral_unknown", "ral_derive", "ral_was", "junk"} \cup Attr
              \/ l \in {Header, ErrorLine, Eom}
         /\ l.key = "junk" <=> l = Junk
         /\ l \in EntryLine \/ l \in {Header, ErrorLine, Eom, Junk}
<1>1. CASE l \in EntryLine
  <2>1. l.key = "name" => l.value \in Name
    BY <1>1, AttrIs DEF EntryLine
  <2>2. l.key \in Attr \cup {"ral_was"} => l.value \in Value
    BY <1>1, AttrIs DEF EntryLine
  <2>3. l.key \in {"ral_unknown", "ral_derive"} => l.value = "true"
    BY <1>1, AttrIs DEF EntryLine
  <2> QED BY <1>1, <2>1, <2>2, <2>3, LinesDiffer, AttrIs
<1>2. CASE l = Header
  <2>1. l.key = "# simple" /\ l # Junk
    BY <1>2, LinesDiffer
  <2> QED BY <1>2, <2>1, AttrIs
<1>3. CASE l = ErrorLine
  <2>1. l.key = "ral_error" /\ l # Junk
    BY <1>3, LinesDiffer
  <2> QED BY <1>3, <2>1, AttrIs
<1>4. CASE l = Eom
  <2>1. l.key = "ral_eom" /\ l # Junk
    BY <1>4, LinesDiffer
  <2> QED BY <1>4, <2>1, AttrIs
<1>5. CASE l = Junk
  <2>1. l.key = "junk" /\ l.value = "junk"
    BY <1>5 DEF Junk, Line
  <2> QED BY <1>5, <2>1, AttrIs
<1> QED BY <1>1, <1>2, <1>3, <1>4, <1>5 DEF AnyLine

LEMMA LinesType == AnyLine \subseteq Lines
<1>1. EntryLine \subseteq Lines
  BY AttrIs DEF EntryLine, Lines, Value
<1> QED BY <1>1 DEF AnyLine, Lines

\* The first line and the others.
LEMMA TailFacts ==
  ASSUME NEW S, NEW s \in Seq(S), s # <<>>
  PROVE  /\ Len(s) \in Nat \ {0} /\ Head(s) = s[1] /\ s[1] \in S /\ 1 \in DOMAIN s
         /\ Tail(s) \in Seq(S) /\ Len(Tail(s)) = Len(s) - 1
         /\ DOMAIN s = 1..Len(s) /\ DOMAIN Tail(s) = 1..Len(s) - 1
         /\ \A i \in 1..Len(s) - 1 : Tail(s)[i] = s[i + 1]
OBVIOUS

LEMMA WrittenType ==
  ASSUME NEW n \in Name, sys[n] \in PackageState
  PROVE  /\ Written(n) \in Seq(EntryLine)
         /\ Len(Written(n)) \in Nat \ {0} /\ Written(n)[1] = Line("name", n)
         /\ \A i \in 2..Len(Written(n)) :
              \/ sys[n] = "unknown" /\ Written(n)[i] = Line("ral_unknown", "true")
              \/ /\ sys[n] # "unknown" /\ Written(n)[i].key \in Attr
                 /\ Written(n)[i].value = Attrs(sys[n])[Written(n)[i].key]
<1> DEFINE h == <<Line("name", n)>>
           has == InOrder({a \in Attr : Attrs(sys[n])[a] # None})
           x(i) == Line(has[i], Attrs(sys[n])[has[i]])
           t == IF sys[n] = "unknown" THEN <<Line("ral_unknown", "true")>> ELSE [i \in DOMAIN has |-> x(i)]
<1>1. h \in Seq(EntryLine) /\ Len(h) = 1 /\ h[1] = Line("name", n)
  BY DEF EntryLine, Line
<1>2. has \in Seq(Attr) /\ DOMAIN has = 1..Len(has) /\ Len(has) \in Nat
  <2>1. has \in Seq(Attr)
    BY InOrderFacts
  <2> HIDE DEF has
  <2> QED BY <2>1
<1> HIDE DEF has
<1>3. ASSUME NEW i \in 1..Len(has)
      PROVE  x(i) \in EntryLine /\ x(i).key \in Attr /\ x(i).value = Attrs(sys[n])[x(i).key]
  <2>1. has[i] \in Attr
    BY <1>2
  <2>2. Attrs(sys[n])[has[i]] \in Value
    BY <2>1, AttrIs, AttrsType DEF Value
  <2> QED BY <2>1, <2>2 DEF EntryLine, Line
<1>4. /\ t \in Seq(EntryLine) /\ Len(t) \in Nat
      /\ \A i \in 1..Len(t) :
           \/ sys[n] = "unknown" /\ t[i] = Line("ral_unknown", "true")
           \/ sys[n] # "unknown" /\ t[i].key \in Attr /\ t[i].value = Attrs(sys[n])[t[i].key]
  <2>1. CASE sys[n] = "unknown"
    <3>1. Line("ral_unknown", "true") \in EntryLine
      BY DEF EntryLine, Line
    <3> QED BY <2>1, <3>1
  <2>2. CASE sys[n] # "unknown"
    <3> HIDE DEF x
    <3> QED BY <1>2, <1>3, <2>2
  <2> QED BY <2>1, <2>2
<1>5. Written(n) = h \o t
  BY DEF Written, has
<1> HIDE DEF h, t
<1>6. /\ h \o t \in Seq(EntryLine) /\ Len(h \o t) = Len(h) + Len(t)
      /\ \A k \in 1..Len(h) : (h \o t)[k] = h[k]
      /\ \A k \in 1..Len(t) : (h \o t)[Len(h) + k] = t[k]
  BY <1>1, <1>4, EntryConcat
<1>7. \A i \in 2..Len(h \o t) : i - 1 \in 1..Len(t) /\ (h \o t)[i] = t[i - 1]
  <2> SUFFICES ASSUME NEW i \in 2..Len(h \o t) PROVE i - 1 \in 1..Len(t) /\ (h \o t)[i] = t[i - 1]
    OBVIOUS
  <2>1. i - 1 \in 1..Len(t) /\ 1 + (i - 1) = i
    BY <1>1, <1>4, <1>6
  <2> QED BY <1>1, <1>6, <2>1
<1> QED BY <1>1, <1>4, <1>5, <1>6, <1>7

LEMMA ListingType ==
  ASSUME sys \in [Name -> PackageState]
  PROVE  Listing \in Seq(EntryLine)
<1> DEFINE c == Cardinality(Name)
           order == SetToSeq(Name)
           part(i) == IF sys[order[i]] \in Version THEN Written(order[i]) ELSE <<>>
           parts == [i \in 1..c |-> part(i)]
<1>1. c \in Nat /\ order \in [1..c -> Name]
  BY SetToSeqFacts, CallsAssumption
<1>2. Listing = FlattenSeq(parts)
  BY DEF Listing
<1> HIDE DEF c, order
<1>3. ASSUME NEW i \in 1..c PROVE part(i) \in Seq(EntryLine)
  BY <1>1, WrittenType
<1> HIDE DEF part
<1>4. parts \in Seq(Seq(EntryLine))
  BY <1>1, <1>3
<1> QED BY <1>2, <1>4, FlattenType

-----------------------------------------------------------------------------
(* SimpleProvider: what the script reports of a package that went to state s. *)

Telling(s) ==
  {l \in EntryLine : /\ l.key \in {"name", "ral_derive", "ral_was"} \cup Attr
                     /\ l.key \in Attr => l.value = Attrs(s)[l.key]}

Has(text, key) == \E i \in 1..Len(text) : text[i].key = key

LEMMA TellingConcat ==
  ASSUME NEW s, NEW a \in Seq(Telling(s)), NEW b \in Seq(Telling(s))
  PROVE  /\ a \o b \in Seq(Telling(s)) /\ Len(a \o b) = Len(a) + Len(b)
         /\ Len(a) \in Nat /\ Len(b) \in Nat
         /\ \A k \in 1..Len(a) : (a \o b)[k] = a[k]
         /\ \A k \in 1..Len(b) : (a \o b)[Len(a) + k] = b[k]
BY ConcatFacts

LEMMA HasConcat ==
  ASSUME NEW s, NEW a \in Seq(Telling(s)), NEW b \in Seq(Telling(s)), NEW key,
         Has(a, key) \/ Has(b, key)
  PROVE  Has(a \o b, key)
<1> DEFINE c == a \o b
<1>1. /\ Len(c) = Len(a) + Len(b) /\ Len(a) \in Nat /\ Len(b) \in Nat
      /\ \A k \in 1..Len(a) : c[k] = a[k]
      /\ \A k \in 1..Len(b) : c[Len(a) + k] = b[k]
  BY TellingConcat
<1> HIDE DEF c
<1>2. CASE Has(a, key)
  <2>1. PICK i \in 1..Len(a) : a[i].key = key
    BY <1>2 DEF Has
  <2>2. i \in 1..Len(c) /\ c[i].key = key
    BY <1>1, <2>1
  <2> QED BY <2>2 DEF Has, c
<1>3. CASE Has(b, key)
  <2>1. PICK i \in 1..Len(b) : b[i].key = key
    BY <1>3 DEF Has
  <2>2. Len(a) + i \in 1..Len(c) /\ c[Len(a) + i].key = key
    BY <1>1, <2>1
  <2> QED BY <2>2 DEF Has, c
<1> QED BY <1>2, <1>3

\* The lines for the attributes in A of a package that went from state r to s.
ChangeLines(A, r, s) ==
  FlattenSeq([i \in DOMAIN InOrder(A) |->
    LET a == InOrder(A)[i] IN <<Line(a, Attrs(s)[a]), Line("ral_was", Attrs(r)[a])>>])

LEMMA ChangeLinesFacts ==
  ASSUME NEW A, A \subseteq Attr, NEW r \in PackageState, NEW s \in PackageState
  PROVE  /\ ChangeLines(A, r, s) \in Seq(Telling(s))
         /\ \A a \in A : Has(ChangeLines(A, r, s), a)
<1> DEFINE T == Telling(s)
           attrs == InOrder(A)
           two(a) == <<Line(a, Attrs(s)[a]), Line("ral_was", Attrs(r)[a])>>
           parts == [i \in DOMAIN attrs |-> two(attrs[i])]
<1>1. /\ attrs \in Seq(Attr) /\ Len(attrs) \in Nat /\ DOMAIN attrs = 1..Len(attrs)
      /\ \A a \in A : \E i \in 1..Len(attrs) : attrs[i] = a
  <2>1. attrs \in Seq(Attr) /\ \A a \in A : \E i \in 1..Len(attrs) : attrs[i] = a
    BY InOrderFacts
  <2> HIDE DEF attrs
  <2> QED BY <2>1
<1> HIDE DEF attrs
<1>2. ASSUME NEW a \in Attr PROVE two(a) \in Seq(T) /\ Len(two(a)) = 2 /\ two(a)[1].key = a
  <2>1. Attrs(s)[a] \in Value /\ Attrs(r)[a] \in Value
    BY AttrIs, AttrsType DEF Value
  <2> DEFINE x == Line(a, Attrs(s)[a])
             y == Line("ral_was", Attrs(r)[a])
  <2>2. x \in T
    BY <2>1 DEF Telling, EntryLine, Line
  <2>3. y \in T
    BY <2>1, AttrIs DEF Telling, EntryLine, Line
  <2>4. x.key = a
    BY DEF Line
  <2> HIDE DEF x, y, T
  <2>5. <<x, y>> \in Seq(T) /\ Len(<<x, y>>) = 2 /\ <<x, y>>[1] = x
    BY <2>2, <2>3
  <2> QED BY <2>4, <2>5 DEF x, y
<1> HIDE DEF two, T
<1>3. parts \in Seq(Seq(T)) /\ Len(parts) = Len(attrs) /\ \A i \in 1..Len(attrs) : parts[i] = two(attrs[i])
  BY <1>1, <1>2
<1>4. ChangeLines(A, r, s) = FlattenSeq(parts)
  BY DEF ChangeLines, attrs, two
<1> HIDE DEF parts
<1>5. ASSUME NEW a \in A PROVE Has(FlattenSeq(parts), a)
  <2>1. PICK i \in 1..Len(attrs) : attrs[i] = a
    BY <1>1
  <2>2. i \in 1..Len(parts) /\ parts[i] = two(a) /\ 1 \in 1..Len(parts[i]) /\ parts[i][1].key = a
    BY <1>2, <1>3, <2>1
  <2>3. \E k \in 1..Len(FlattenSeq(parts)) : FlattenSeq(parts)[k] = parts[i][1]
    BY <1>3, <2>2, FlattenHolds
  <2> QED BY <2>2, <2>3 DEF Has
<1>6. FlattenSeq(parts) \in Seq(T)
  BY <1>3, FlattenType
<1> QED BY <1>4, <1>5, <1>6 DEF T

\* Every line tells what the package is, and an attribute that it gained has a
\* line or is what the script was told.
LEMMA ReportsFacts ==
  ASSUME NEW n \in Name, sys[n] \in PackageState, NEW args, NEW s \in PackageState,
         s # "unknown", NEW text \in Reports(n, args, s)
  PROVE  /\ text \in Seq(Telling(s))
         /\ \A a \in Attr : Attrs(s)[a] \notin {None, Attrs(sys[n])[a]} =>
              Has(text, a) \/ (Has(text, "ral_derive") /\ args[a] = Attrs(s)[a])
<1> DEFINE new == Attrs(s)
           old == Attrs(sys[n])
           changed == {a \in Attr : new[a] \notin {None, old[a]}}
           own == {a \in changed : args[a] # new[a]}
           nameLine == <<Line("name", n)>>
           deriveLine == <<Line("ral_derive", "true")>>
           all == ChangeLines(changed, sys[n], s)
           some == ChangeLines(own, sys[n], s)
<1>1. text \in {nameLine \o all, deriveLine \o some, nameLine \o some \o deriveLine}
  BY DEF Reports, ChangeLines
<1>2. nameLine \in Seq(Telling(s))
  <2>1. Line("name", n) \in Telling(s)
    BY AttrIs DEF Telling, EntryLine, Line
  <2> QED BY <2>1
<1>3. deriveLine \in Seq(Telling(s)) /\ Has(deriveLine, "ral_derive")
  <2> DEFINE l == Line("ral_derive", "true")
  <2>1. l \in Telling(s) /\ l.key = "ral_derive"
    BY AttrIs DEF Telling, EntryLine, Line
  <2> HIDE DEF l
  <2>2. <<l>> \in Seq(Telling(s)) /\ Len(<<l>>) = 1 /\ <<l>>[1] = l
    BY <2>1
  <2>3. Has(<<l>>, "ral_derive")
    BY <2>1, <2>2 DEF Has
  <2> QED BY <2>2, <2>3 DEF l
<1>4. all \in Seq(Telling(s)) /\ \A a \in changed : Has(all, a)
  <2>1. changed \subseteq Attr
    OBVIOUS
  <2> QED BY <2>1, ChangeLinesFacts
<1>5. some \in Seq(Telling(s)) /\ \A a \in own : Has(some, a)
  <2>1. own \subseteq Attr
    OBVIOUS
  <2> QED BY <2>1, ChangeLinesFacts
<1>6. \A a \in Attr : Attrs(s)[a] \notin {None, Attrs(sys[n])[a]} =>
        a \in changed /\ (a \in own \/ args[a] = Attrs(s)[a])
  OBVIOUS
<1> HIDE DEF nameLine, deriveLine, all, some, changed, own
<1>7. CASE text = nameLine \o all
  <2>1. text \in Seq(Telling(s)) /\ \A a \in changed : Has(text, a)
    BY <1>2, <1>4, <1>7, TellingConcat, HasConcat
  <2> QED BY <1>6, <2>1
<1>8. CASE text = deriveLine \o some
  <2>1. text \in Seq(Telling(s)) /\ Has(text, "ral_derive") /\ \A a \in own : Has(text, a)
    BY <1>3, <1>5, <1>8, TellingConcat, HasConcat
  <2> QED BY <1>6, <2>1
<1>9. CASE text = nameLine \o some \o deriveLine
  <2> DEFINE x == nameLine \o some
  <2>1. x \in Seq(Telling(s)) /\ \A a \in own : Has(x, a)
    BY <1>2, <1>5, TellingConcat, HasConcat
  <2> HIDE DEF x
  <2>2. text = x \o deriveLine
    BY <1>9 DEF x
  <2>3. text \in Seq(Telling(s)) /\ Has(text, "ral_derive") /\ \A a \in own : Has(text, a)
    BY <1>3, <2>1, <2>2, TellingConcat, HasConcat
  <2> QED BY <1>6, <2>3
<1> QED BY <1>1, <1>7, <1>8, <1>9

LEMMA ReportsType ==
  ASSUME NEW n \in Name, sys[n] \in PackageState, NEW args, NEW s \in PackageState,
         s = "unknown" => sys[n] = "unknown", NEW text \in Reports(n, args, s)
  PROVE  text \in Seq(EntryLine)
<1>1. CASE s = "unknown"
  BY <1>1, WrittenType DEF Reports
<1>2. CASE s # "unknown"
  <2>1. text \in Seq(Telling(s)) /\ Telling(s) \subseteq EntryLine
    BY <1>2, ReportsFacts DEF Telling
  <2> QED BY <2>1
<1> QED BY <1>1, <1>2

-----------------------------------------------------------------------------
(* SimpleProvider: the shape of its state. *)

\* The output of a run starts with the header and ends in a fault's ending.
LEMMA RunsShape ==
  ASSUME NEW text \in Seq(EntryLine), NEW n, NEW s, NEW t, ScriptRuns(text, n, s, t), mode' = "header"
  PROVE  /\ out' \in Seq(AnyLine) /\ exit' \in BOOLEAN /\ Framed'
         /\ \E e \in {s, t} : sys' = [sys EXCEPT ![n] = e]
         /\ faults' = faults \/ \E f \in ScriptFaults : faults' = faults \cup {f}
<1> DEFINE full == <<Header>> \o text
<1>1. /\ full \in Seq(AnyLine) /\ Len(full) \in Nat /\ full[1] = Header
      /\ \A i \in 2..Len(full) : full[i] \in EntryLine
  <2>1. /\ full \in Seq(AnyLine) /\ Len(full) = Len(text) + 1 /\ Len(text) \in Nat /\ full[1] = Header
        /\ \A i \in 2..Len(full) : i - 1 \in 1..Len(text) /\ full[i] = text[i - 1]
        /\ \A i \in 1..Len(text) : full[i + 1] = text[i] /\ text[i] \in EntryLine
    BY FullReply
  <2> HIDE DEF full
  <2> QED BY <2>1
<1>2. /\ out' \in Seq(AnyLine) /\ exit' \in BOOLEAN
      /\ \E e \in {s, t} : sys' = [sys EXCEPT ![n] = e]
      /\ \/ out' = full /\ exit' = TRUE /\ faults' = faults /\ sys' = [sys EXCEPT ![n] = s]
         \/ \E k \in 0..Len(full), f \in ScriptFaults :
              /\ CutShort(out', full, k, f)
              /\ exit' = (f # "died")
              /\ faults' = faults \cup {f}
  BY RunsFacts
<1> HIDE DEF full
<1>3. CASE out' = full /\ faults' = faults
  <2>1. \A i \in DOMAIN out' : i \in 1..Len(full) /\ (i = 1 \/ i \in 2..Len(full))
    BY <1>1, <1>3
  <2>2. Framed'
    BY <1>1, <1>3, <2>1, LinesDiffer DEF Framed
  <2> QED BY <1>2, <1>3, <2>2
<1>4. ASSUME NEW k \in 0..Len(full), NEW f \in ScriptFaults,
             CutShort(out', full, k, f), faults' = faults \cup {f}
      PROVE  Framed'
  <2> DEFINE e == Ending(f)
             o == out'
  <2>1. /\ Len(e) \in {0, 1, 2} /\ (Len(e) > 0 => e[1] \in {ErrorLine, Junk})
        /\ Len(e) = 2 => e[1] = ErrorLine /\ e[2] = Eom
    BY EndingFacts DEF ScriptFaults
  <2>2. /\ Len(o) = k + Len(e) /\ DOMAIN o = 1..Len(o)
        /\ \A i \in 1..k : o[i] = full[i]
        /\ \A i \in 1..Len(e) : o[k + i] = e[i]
    BY <1>2, <1>4 DEF CutShort
  <2> HIDE DEF e, o
  <2>3. ASSUME NEW i \in 1..k
        PROVE  o[i] # Eom /\ (o[i] = Header => i = 1)
    <3>1. o[i] = full[i] /\ (i = 1 \/ i \in 2..Len(full))
      BY <2>2
    <3> QED BY <1>1, <3>1, LinesDiffer
  <2>4. ASSUME NEW i \in 1..Len(o), i > k
        PROVE  o[i] # Header /\ (o[i] = Eom => i > 1 /\ o[i - 1] = ErrorLine)
    <3>1. i = k + 1 \/ i = k + 2
      BY <2>1, <2>2, <2>4
    <3>2. CASE i = k + 1
      <4>1. o[i] \in {ErrorLine, Junk}
        BY <2>1, <2>2, <2>4, <3>2
      <4> QED BY <4>1, LinesDiffer
    <3>3. CASE i = k + 2
      <4>1. o[i] = Eom /\ o[i - 1] = ErrorLine /\ i > 1
        BY <2>1, <2>2, <2>4, <3>3
      <4> QED BY <4>1, LinesDiffer
    <3> QED BY <3>1, <3>2, <3>3
  <2>5. \A i \in DOMAIN o : i \in 1..Len(o) /\ (i \in 1..k \/ i > k)
    BY <2>2
  <2>6. \A i \in DOMAIN o :
          /\ o[i] = Header => i = 1
          /\ o[i] = Eom => i # 1 /\ o[i - 1] = ErrorLine
    BY <2>3, <2>4, <2>5
  <2> QED BY <2>6 DEF Framed, o
<1> QED BY <1>2, <1>3, <1>4

\* A fault is announced by how the output ends, or by the exit status.
LEMMA RunsAnnounced ==
  ASSUME NEW text \in Seq(EntryLine), NEW n, NEW s, NEW t, ScriptRuns(text, n, s, t), mode' = "header",
         faults \subseteq {"unfinished"}
  PROVE  /\ "died" \in faults' => ~exit'
         /\ "garbage" \in faults' => GarbageDue'
         /\ "error" \in faults' => ErrorDue'
<1> DEFINE full == <<Header>> \o text
<1>1. /\ full \in Seq(AnyLine) /\ Len(full) \in Nat /\ full[1] = Header
      /\ \A i \in 2..Len(full) : full[i] \in EntryLine
  <2>1. /\ full \in Seq(AnyLine) /\ Len(full) = Len(text) + 1 /\ Len(text) \in Nat /\ full[1] = Header
        /\ \A i \in 2..Len(full) : i - 1 \in 1..Len(text) /\ full[i] = text[i - 1]
        /\ \A i \in 1..Len(text) : full[i + 1] = text[i] /\ text[i] \in EntryLine
    BY FullReply
  <2> HIDE DEF full
  <2> QED BY <2>1
<1>2. /\ out' \in Seq(AnyLine)
      /\ \/ faults' = faults
         \/ \E k \in 0..Len(full), f \in ScriptFaults :
              CutShort(out', full, k, f) /\ exit' = (f # "died") /\ faults' = faults \cup {f}
  BY RunsFacts
<1> HIDE DEF full
<1>3. CASE faults' = faults
  BY <1>3
<1>4. ASSUME NEW k \in 0..Len(full), NEW f \in ScriptFaults,
             CutShort(out', full, k, f), exit' = (f # "died"), faults' = faults \cup {f}
      PROVE  /\ "died" \in faults' => ~exit'
             /\ "garbage" \in faults' => GarbageDue'
             /\ "error" \in faults' => ErrorDue'
  <2>1. \A x \in {"died", "garbage", "error"} : x \in faults' => f = x
    BY <1>4
  <2> DEFINE o == out'
  <2>2. /\ Len(o) = k + Len(Ending(f)) /\ DOMAIN o = 1..Len(o) /\ o \in Seq(AnyLine)
        /\ \A i \in 1..k : o[i] = full[i]
        /\ \A i \in 1..Len(Ending(f)) : o[k + i] = Ending(f)[i]
    BY <1>2, <1>4 DEF CutShort
  <2> HIDE DEF o
  <2>3. ASSUME NEW i \in 1..k PROVE o[i] # ErrorLine
    <3>1. o[i] = full[i] /\ (i = 1 \/ i \in 2..Len(full))
      BY <2>2
    <3> QED BY <1>1, <3>1, LinesDiffer
  <2>4. CASE f = "garbage"
    <3>1. Len(o) = k + 1 /\ o[k + 1] = Junk
      BY <2>2, <2>4, EndingFacts
    <3>2. \A i \in DOMAIN o : i \in 1..k \/ i = k + 1
      BY <2>2, <3>1
    <3>3. \A i \in DOMAIN o : o[i] # ErrorLine
      BY <2>3, <3>1, <3>2, LinesDiffer
    <3>4. o # <<>> /\ o[Len(o)] = Junk
      BY <2>2, <3>1
    <3>5. GarbageDue'
      BY <3>3, <3>4 DEF GarbageDue, o
    <3> QED BY <2>1, <2>4, <3>5
  <2>5. CASE f = "error"
    <3>1. Len(o) = k + 2 /\ o[k + 1] = ErrorLine /\ o[k + 2] = Eom
      <4>1. Len(Ending(f)) = 2 /\ Ending(f)[1] = ErrorLine /\ Ending(f)[2] = Eom
        BY <2>5, EndingFacts
      <4> QED BY <2>2, <4>1
    <3>2. /\ Len(o) > 1 /\ Len(o) - 1 = k + 1 /\ Len(o) - 2 = k
          /\ o[Len(o) - 1] = ErrorLine /\ o[Len(o)] = Eom
          /\ \A i \in 1..Len(o) - 2 : o[i] # ErrorLine
      BY <2>3, <3>1
    <3>3. ErrorDue'
      BY <3>2 DEF ErrorDue, o
    <3> QED BY <2>1, <2>5, <3>3
  <2>6. CASE f = "died"
    BY <1>4, <2>1, <2>6
  <2>7. CASE f = "unfinished"
    BY <2>1, <2>7
  <2> QED BY <2>4, <2>5, <2>6, <2>7 DEF ScriptFaults
<1> QED BY <1>2, <1>3, <1>4

\* What is left once a line is read.
LEMMA ReadFacts ==
  ASSUME Shape, Reading
  PROVE  /\ line \in AnyLine /\ line = out[1] /\ Len(out) \in Nat \ {0}
         /\ Tail(out) \in Seq(AnyLine) /\ Len(Tail(out)) = Len(out) - 1
         /\ DOMAIN out = 1..Len(out) /\ DOMAIN Tail(out) = 1..Len(out) - 1
         /\ \A i \in 1..Len(out) - 1 : Tail(out)[i] = out[i + 1]
         /\ line = Header => mode = "header"
         /\ line = Eom => mode = "message"
<1>1. out \in Seq(AnyLine) /\ out # <<>> /\ Framed
  BY DEF Shape, Reading
<1>2. 1 \in DOMAIN out /\ line = out[1]
  BY <1>1, TailFacts DEF line
<1> QED BY <1>1, <1>2, TailFacts DEF Framed, line

LEMMA ReadFramed ==
  ASSUME Shape, Reading, out' = Tail(out), mode' # "failed", line = ErrorLine => mode' = "message"
  PROVE  Framed'
<1>1. /\ line = out[1] /\ Len(out) \in Nat \ {0} /\ DOMAIN out = 1..Len(out)
      /\ DOMAIN out' = 1..Len(out) - 1 /\ \A i \in 1..Len(out) - 1 : out'[i] = out[i + 1]
  BY ReadFacts
<1>2. Framed
  BY DEF Shape, Reading
<1>3. ASSUME NEW i \in DOMAIN out'
      PROVE  /\ out'[i] = Header => i = 1 /\ mode' = "header"
             /\ out'[i] = Eom => IF i = 1 THEN mode' = "message" ELSE out'[i - 1] = ErrorLine
  <2>1. i + 1 \in DOMAIN out /\ i + 1 # 1 /\ out'[i] = out[i + 1] /\ (i + 1) - 1 = i
    BY <1>1
  <2>2. out'[i] # Header
    BY <1>2, <2>1 DEF Framed
  <2>3. out'[i] = Eom => out[i] = ErrorLine
    BY <1>2, <2>1 DEF Framed
  <2>4. i # 1 => i - 1 \in 1..Len(out) - 1 /\ (i - 1) + 1 = i
    BY <1>1
  <2>5. i # 1 => out'[i - 1] = out[i]
    BY <1>1, <2>4
  <2> QED BY <1>1, <2>2, <2>3, <2>5
<1> QED BY <1>3 DEF Framed

LEMMA ShapeFacts ==
  ASSUME Shape
  PROVE  /\ sys \in [Name -> PackageState] /\ before \in [Name -> PackageState]
         /\ upds \in Seq(Updates) /\ Len(upds) \in Nat /\ DOMAIN upds = 1..Len(upds)
         /\ next \in 1..Len(upds) + 1
         /\ \A i \in DOMAIN upds : /\ UpdateName(upds[i]) \in Name /\ upds[i].is \in Found
                                   /\ upds[i].should \in PackageShould
         /\ shoulds \in Seq(PackageShould) /\ DOMAIN shoulds = 1..Len(shoulds) /\ Len(shoulds) \in Nat
         /\ res \in Seq(Found) /\ chgs \in [Name -> Seq(Noted)] /\ out \in Seq(AnyLine)
         /\ \A n \in Name : Len(chgs[n]) \in Nat /\ DOMAIN chgs[n] = 1..Len(chgs[n])
         /\ \A n \in Name : \A i \in 1..Len(chgs[n]) : chgs[n][i] \in Noted
<1>1. upds \in Seq(Updates)
  BY DEF Shape, SimpleTypeOK, Updates, Found, Value
<1>2. \A i \in DOMAIN upds : upds[i] \in Updates
  BY <1>1
<1>3. \A i \in DOMAIN upds : /\ UpdateName(upds[i]) \in Name /\ upds[i].is \in Found
                             /\ upds[i].should \in PackageShould
  BY <1>2 DEF Updates, Found, UpdateName
<1>4. chgs \in [Name -> Seq(Noted)] /\ \A n \in Name : chgs[n] \in Seq(Noted)
  BY DEF Shape
<1> QED BY <1>1, <1>3, <1>4 DEF Shape, SimpleTypeOK

LEMMA NotedAttr ==
  ASSUME NEW c \in [Name -> Seq(Noted)]
  PROVE  \A n \in Name : \A i \in DOMAIN c[n] : c[n][i].attr \in Attr \cup {"ral_unknown", "junk"}
<1>1. \A n \in Name : c[n] \in Seq(Noted)
  OBVIOUS
<1>2. \A n \in Name : \A i \in DOMAIN c[n] : c[n][i] \in Noted
  BY <1>1
<1>3. \A x \in Noted : x.attr \in Attr \cup {"ral_unknown", "junk"}
  BY DEF Noted
<1> QED BY <1>2, <1>3

LEMMA UpdatesType ==
  ASSUME upds' \in Seq(Updates)
  PROVE  upds' \in Seq([is: [name: Name, attrs: [Attr -> Version \cup {None, "present", "absent"}]],
                        should: PackageShould])
BY DEF Updates, Found, Value

LEMMA ReadShape ==
  ASSUME Shape, Reading, out' = Tail(out), mode' \in {"header", "entries", "message", "failed"},
         mode' # "failed" /\ line = ErrorLine => mode' = "message",
         UNCHANGED <<sys, exit, pc, call, outcome, upds>>,
         res' \in Seq(Found), chgs' \in [Name -> Seq(Noted)], pc \in {"find", "list"} => chgs' = chgs,
         derive' \in BOOLEAN, unknown' \in BOOLEAN
  PROVE  Shape'
<1>1. mode' # "failed" => Framed'
  BY ReadFramed
<1>2. out' \in Seq(AnyLine) /\ AnyLine \subseteq Lines
  BY ReadFacts, LinesType
<1>3. out' \in Seq(Lines)
  BY <1>2
<1>4. SimpleTypeOK'
  BY <1>3, NotedAttr DEF Shape, SimpleTypeOK, call
<1>5. pc \in {"find", "list", "update"}
  BY DEF Reading, Running
<1> QED BY <1>1, <1>2, <1>4, <1>5 DEF Shape, call

LEMMA LineValue ==
  ASSUME Shape, Reading, mode = "entries", line # ErrorLine
  PROVE  /\ line \in AnyLine /\ (line \in EntryLine \/ line = Junk)
         /\ line.key \in {"name", "ral_unknown", "ral_derive", "ral_was", "junk"} \cup Attr
         /\ line.key = "name" => line.value \in Name
         /\ line.key \in Attr \cup {"ral_was"} => line.value \in Value
         /\ line.key \in {"ral_unknown", "ral_derive"} => line.value = "true"
         /\ line.key = "junk" <=> line = Junk
         /\ line.key = "junk" => line.value = "junk"
<1>1. line \in AnyLine /\ line # Header /\ line # Eom /\ line # ErrorLine
  BY ReadFacts
<1> QED BY <1>1, LineKinds

LEMMA ReadResourceShape ==
  ASSUME Shape, ReadResource
  PROVE  Shape'
<1> USE DEF EntryDue, EntryRead
<1>1. /\ Reading /\ out' = Tail(out) /\ mode' \in {"entries", "failed"} /\ line # ErrorLine /\ mode = "entries"
      /\ UNCHANGED <<sys, exit, pc, call, outcome, upds, derive, chgs>>
      /\ unknown' \in {unknown, TRUE}
  BY DEF ReadResource, call
<1>2. line.key = "name" => line.value \in Name
  BY <1>1, LineValue
<1>3. line.key \in Attr => line.value \in Value
  BY <1>1, LineValue
<1>4. res \in Seq(Found)
  BY DEF Shape
<1>5. res' \in Seq(Found)
  <2>1. CASE line.key = "name" /\ res' = Append(res, Blank(line.value, Attr))
    <3>1. Blank(line.value, Attr) \in Found
      BY <1>2, <2>1 DEF Blank, Resource, Found, Value
    <3> QED BY <1>4, <2>1, <3>1
  <2>2. CASE res' = LastWith(line.key, line.value) /\ res # <<>>
    <3> DEFINE last == res[Len(res)]
               at == [a \in Attr |-> IF a = line.key THEN line.value ELSE last.attrs[a]]
    <3>1. Len(res) \in 1..Len(res) /\ last \in Found
      BY <1>4, <2>2
    <3>2. at \in [Attr -> Value]
      BY <1>3, <3>1 DEF Found
    <3>3. res' = [res EXCEPT ![Len(res)] = [last EXCEPT !.attrs = at]]
      BY <2>2 DEF LastWith
    <3>4. [last EXCEPT !.attrs = at] \in Found
      BY <3>1, <3>2 DEF Found
    <3> HIDE DEF at, last
    <3> QED BY <1>4, <3>1, <3>3, <3>4
  <2>3. CASE res' = res
    BY <1>4, <2>3
  <2> QED BY <2>1, <2>2, <2>3 DEF ReadResource
<1>6. unknown' \in BOOLEAN /\ derive' \in BOOLEAN /\ chgs' \in [Name -> Seq(Noted)]
  BY <1>1 DEF Shape, SimpleTypeOK
<1> QED BY <1>1, <1>5, <1>6, ReadShape

LEMMA ReadChangeShape ==
  ASSUME Shape, ReadChange
  PROVE  Shape'
<1> USE DEF EntryDue, EntryRead
<1>1. /\ Reading /\ out' = Tail(out) /\ mode' \in {"entries", "failed"} /\ line # ErrorLine /\ mode = "entries"
      /\ UNCHANGED <<sys, exit, pc, call, outcome, upds, unknown, res>> /\ pc = "update"
      /\ derive' \in {derive, TRUE, FALSE}
  BY DEF ReadChange, call
<1> DEFINE n == UpdateName(u)
           last == Len(chgs[n])
<1>2. n \in Name /\ chgs[n] \in Seq(Noted) /\ last \in Nat
  BY <1>1, ShapeFacts DEF Shape, u
<1> HIDE DEF n
<1>3. chgs' \in [Name -> Seq(Noted)]
  <2>1. CASE /\ line.key = "ral_was" /\ last > 0
             /\ chgs' = [chgs EXCEPT ![n][last].was = line.value]
    <3>1. line.value \in Value
      BY <1>1, <2>1, LineValue
    <3> DEFINE c == chgs[n]
               x == [c[last] EXCEPT !.was = line.value]
    <3>2. c[last] \in Noted /\ last \in 1..Len(c)
      BY <1>2, <2>1
    <3>3. x \in Noted
      BY <3>1, <3>2 DEF Noted
    <3>4. chgs' = [chgs EXCEPT ![n] = [c EXCEPT ![last] = x]]
      BY <2>1
    <3> HIDE DEF x
    <3>5. [c EXCEPT ![last] = x] \in Seq(Noted)
      BY <1>2, <3>2, <3>3
    <3> QED BY <1>2, <3>4, <3>5 DEF Shape
  <2>2. CASE /\ line.key \notin {"ral_derive", "name", "ral_was"}
             /\ chgs' = [chgs EXCEPT ![n] = Append(@, Change(line.key, line.value, None))]
    <3>1. line.key \in Attr \cup {"ral_unknown", "junk"}
      BY <1>1, <2>2, LineValue
    <3>2. line.value \in Value \cup {"true", "junk"}
      BY <1>1, <3>1, LineValue
    <3>3. Change(line.key, line.value, None) \in Noted
      BY <3>1, <3>2 DEF Change, Noted, Value
    <3>4. Append(chgs[n], Change(line.key, line.value, None)) \in Seq(Noted)
      BY <1>2, <3>3
    <3> QED BY <1>2, <2>2, <3>4 DEF Shape
  <2>3. CASE chgs' = chgs
    BY <2>3 DEF Shape
  <2> QED BY <2>1, <2>2, <2>3 DEF ReadChange, n
<1>4. derive' \in BOOLEAN /\ unknown' \in BOOLEAN /\ res' \in Seq(Found)
  BY <1>1 DEF Shape, SimpleTypeOK
<1> QED BY <1>1, <1>3, <1>4, ReadShape

\* A run of the script is started.
LEMMA RunsKeepShape ==
  ASSUME Shape, NEW text \in Seq(EntryLine), NEW n, NEW s, NEW t, ScriptRuns(text, n, s, t),
         mode' = "header"
  PROVE  /\ out' \in Seq(AnyLine) /\ out' \in Seq(Lines) /\ exit' \in BOOLEAN /\ Framed'
         /\ faults' \subseteq {"died", "error", "unfinished", "garbage"}
<1>1. /\ out' \in Seq(AnyLine) /\ exit' \in BOOLEAN /\ Framed'
      /\ faults' = faults \/ \E f \in ScriptFaults : faults' = faults \cup {f}
  BY RunsShape
<1>2. out' \in Seq(Lines)
  BY <1>1, LinesType
<1> QED BY <1>1, <1>2 DEF Shape, SimpleTypeOK, ScriptFaults

\* What Call runs the script for leaves the packages as they are.
LEMMA CallRuns ==
  ASSUME Shape, NEW batch \in Calls, Call(batch)
  PROVE  /\ batch \in Seq(PackageShould) /\ sys' = sys
         /\ \E n : \E text \in Seq(EntryLine) :
              /\ ScriptRuns(text, n, sys[n], sys[n])
              /\ \/ /\ pc' = "find" /\ unknown' \in BOOLEAN
                    /\ Len(batch) = 1 /\ n = batch[1].name /\ n \in Name /\ text = Written(n)
                 \/ pc' = "list" /\ unknown' = unknown /\ text = Listing
<1> DEFINE n == IF batch = <<>> THEN CHOOSE m \in Name : TRUE ELSE batch[1].name
<1>1. \/ /\ Len(batch) = 1 /\ pc' = "find" /\ unknown' \in BOOLEAN
         /\ ScriptRuns(Written(n), n, sys[n], sys[n])
      \/ /\ Len(batch) # 1 /\ pc' = "list" /\ UNCHANGED unknown
         /\ ScriptRuns(Listing, n, sys[n], sys[n])
  BY DEF Call
<1>2. ASSUME NEW m PROVE [sys EXCEPT ![m] = sys[m]] = sys
  BY ShapeFacts
<1>3. batch \in Seq(PackageShould)
  BY CallsAssumption
<1>4. Len(batch) = 1 => n = batch[1].name /\ n \in Name
  <2> SUFFICES ASSUME Len(batch) = 1 PROVE n = batch[1].name /\ n \in Name
    OBVIOUS
  <2>1. batch[1] \in PackageShould /\ batch # <<>>
    BY <1>3
  <2> QED BY <2>1, ShouldType
<1> HIDE DEF n
<1>5. Len(batch) = 1 => Written(n) \in Seq(EntryLine)
  BY <1>4, ShapeFacts, WrittenType
<1>6. Listing \in Seq(EntryLine)
  BY ShapeFacts, ListingType
<1>7. ASSUME NEW text \in Seq(EntryLine), ScriptRuns(text, n, sys[n], sys[n]) PROVE sys' = sys
  <2>1. \E e \in {sys[n], sys[n]} : sys' = [sys EXCEPT ![n] = e]
    BY <1>7, RunsShape DEF Call
  <2> QED BY <1>2, <2>1
<1>8. CASE /\ Len(batch) = 1 /\ pc' = "find" /\ unknown' \in BOOLEAN
           /\ ScriptRuns(Written(n), n, sys[n], sys[n])
  BY <1>3, <1>4, <1>5, <1>7, <1>8
<1>9. CASE /\ Len(batch) # 1 /\ pc' = "list" /\ UNCHANGED unknown
           /\ ScriptRuns(Listing, n, sys[n], sys[n])
  BY <1>3, <1>6, <1>7, <1>9
<1> QED BY <1>1, <1>8, <1>9

LEMMA CallShape ==
  ASSUME Shape, NEW batch \in Calls, Call(batch)
  PROVE  Shape'
<1>1. /\ pc = "idle" /\ shoulds' = batch /\ before' = sys /\ mode' = "header"
      /\ UNCHANGED <<res, derive, upds, next, chgs, outcome>>
  BY DEF Call
<1>2. /\ batch \in Seq(PackageShould) /\ sys' = sys /\ pc' \in {"find", "list"} /\ unknown' \in BOOLEAN
      /\ \E n : \E text \in Seq(EntryLine) : ScriptRuns(text, n, sys[n], sys[n])
  BY CallRuns DEF Shape, SimpleTypeOK
<1>3. /\ out' \in Seq(AnyLine) /\ out' \in Seq(Lines) /\ exit' \in BOOLEAN /\ Framed'
      /\ faults' \subseteq {"died", "error", "unfinished", "garbage"}
  BY <1>1, <1>2, RunsKeepShape
<1>4. SimpleTypeOK'
  BY <1>1, <1>2, <1>3 DEF Shape, SimpleTypeOK
<1> QED BY <1>1, <1>2, <1>3, <1>4 DEF Shape

\* The arguments of an update are part of its should.
LEMMA ArgsFacts ==
  ASSUME Shape, next \in DOMAIN upds
  PROVE  /\ PartOf(Args, u.should) /\ Args = [a \in Attr |-> Args[a]]
         /\ \A a \in Attr : Args[a] = None => u.should.attrs[a] \in {None, u.is.attrs[a]}
         /\ \A a \in Attr : Args[a] # None => Changed(u, a) /\ Args[a] = u.should.attrs[a]
         /\ u \in Updates /\ UpdateName(u) \in Name /\ u.should \in PackageShould /\ u.is \in Found
<1>1. u \in Updates /\ UpdateName(u) \in Name /\ u.should \in PackageShould /\ u.is \in Found
  BY ShapeFacts DEF u
<1>2. \A a \in Attr : Args[a] = IF Changed(u, a) THEN u.should.attrs[a] ELSE None
  BY DEF Args
<1>3. Args = [a \in Attr |-> Args[a]]
  BY <1>2 DEF Args
<1> QED BY <1>1, <1>2, <1>3, AttrIs DEF PartOf, Changed

\* The run for an update.
LEMMA UpdateRuns ==
  ASSUME Shape, RunUpdate
  PROVE  LET n == UpdateName(u)
         IN  /\ next \in DOMAIN upds /\ pc = "set" /\ n \in Name /\ sys' \in [Name -> PackageState]
             /\ \E s \in Results(sys[n], Args) : \E text \in Reports(n, Args, s) :
                  /\ s \in PackageState /\ (s = "unknown" <=> sys[n] = "unknown")
                  /\ text \in Seq(EntryLine) /\ ScriptRuns(text, n, s, sys[n])
<1> DEFINE n == UpdateName(u)
<1>1. next \in DOMAIN upds /\ pc = "set"
  BY DEF RunUpdate, Processing
<1>2. PICK s \in Results(sys[n], Args) : \E text \in Reports(n, Args, s) : ScriptRuns(text, n, s, sys[n])
  BY DEF RunUpdate
<1>3. PICK text \in Reports(n, Args, s) : ScriptRuns(text, n, s, sys[n])
  BY <1>2
<1>4. n \in Name /\ u.should \in PackageShould /\ PartOf(Args, u.should)
  BY <1>1, ArgsFacts
<1> HIDE DEF n
<1>5. sys[n] \in PackageState /\ sys \in [Name -> PackageState]
  BY <1>4, ShapeFacts
<1>6. s \in PackageState /\ (s = "unknown" <=> sys[n] = "unknown")
  BY <1>4, <1>5, ResultsType
<1>7. text \in Seq(EntryLine)
  BY <1>3, <1>4, <1>5, <1>6, ReportsType
<1>8. \E e \in {s, sys[n]} : sys' = [sys EXCEPT ![n] = e]
  BY <1>3, <1>7, RunsShape DEF RunUpdate
<1>9. sys' \in [Name -> PackageState]
  BY <1>5, <1>6, <1>8
<1> QED BY <1>1, <1>3, <1>4, <1>6, <1>7, <1>9 DEF n

LEMMA RunUpdateShape ==
  ASSUME Shape, RunUpdate
  PROVE  Shape'
<1>1. /\ pc' = "update" /\ mode' = "header" /\ derive' = FALSE
      /\ UNCHANGED <<shoulds, upds, next, before, res, unknown, chgs, outcome>>
  BY DEF RunUpdate
<1>2. /\ next \in DOMAIN upds /\ pc = "set" /\ sys' \in [Name -> PackageState]
      /\ \E n, s, t : \E text \in Seq(EntryLine) : ScriptRuns(text, n, s, t)
  BY UpdateRuns
<1>3. /\ out' \in Seq(AnyLine) /\ out' \in Seq(Lines) /\ exit' \in BOOLEAN /\ Framed'
      /\ faults' \subseteq {"died", "error", "unfinished", "garbage"}
  BY <1>1, <1>2, RunsKeepShape
<1>4. SimpleTypeOK'
  BY <1>1, <1>2, <1>3 DEF Shape, SimpleTypeOK
<1> QED BY <1>1, <1>2, <1>3, <1>4 DEF Shape

\* What the lookup is paired with.
LEMMA LookupPairs ==
  ASSUME Shape, LookupDone
  PROVE  /\ \E iss \in Seq(Found) : iss \in {<<>>, res} /\ upds' = Pair(shoulds, iss, Attr)
         /\ upds' \in Seq(Updates)
<1>1. PICK iss \in {<<>>, res} : upds' = Pair(shoulds, iss, Attr)
  BY DEF LookupDone
<1>2. iss \in Seq(Found) /\ shoulds \in Seq(PackageShould)
  <2>1. <<>> \in Seq(Found)
    OBVIOUS
  <2> QED BY <2>1, ShapeFacts
<1>3. \A n \in Name : Blank(n, Attr) \in Found
  BY DEF Blank, Resource, Found, Value
<1> DEFINE U == {x \in Updates : /\ x.is \in Found /\ UpdateName(x) = x.should.name
                                 /\ \E j \in DOMAIN shoulds : x.should = shoulds[j]}
<1>4. Pair(shoulds, iss, Attr) \in Seq(U) /\ U \subseteq Updates
  BY <1>2, <1>3, PairBatch
<1>5. Pair(shoulds, iss, Attr) \in Seq(Updates)
  BY <1>4
<1> QED BY <1>1, <1>2, <1>5

LEMMA LookupDoneShape ==
  ASSUME Shape, LookupDone
  PROVE  Shape'
<1>1. /\ pc \in {"find", "list"} /\ pc' = "set"
      /\ UNCHANGED <<script, mode, shoulds, next, before, faults, res, unknown, derive, chgs, outcome>>
  BY DEF LookupDone
<1>2. upds' \in Seq(Updates) /\ Len(upds') \in Nat
  <2>1. upds' \in Seq(Updates)
    BY LookupPairs
  <2> QED BY <2>1
<1>3. SimpleTypeOK'
  BY <1>1, <1>2, UpdatesType DEF Shape, SimpleTypeOK, script
<1> QED BY <1>1, <1>3 DEF Shape, script, Framed

\* The changes that an update completes.
LEMMA DerivedType ==
  ASSUME Shape, next \in DOMAIN upds, NEW c \in Seq(Noted)
  PROVE  MaybeAdd(c, AttrSeq, u) \in Seq(Noted)
<1>1. AttrSeq \in Seq(Attr) /\ "ensure" \in Attr
  BY AttrIs DEF AttrSeq
<1>2. ASSUME NEW a \in Attr PROVE Diff(u, a) \in Noted
  <2>1. u.should \in PackageShould /\ u.is \in Found
    BY ArgsFacts
  <2>2. u.should.attrs[a] \in Value /\ u.is.attrs[a] \in Value
    BY <2>1, AttrIs, ShouldType DEF Value, Found
  <2> QED BY <2>2 DEF Diff, Change, Noted
<1> QED BY <1>1, <1>2, MaybeAddFacts

LEMMA UpdateDoneShape ==
  ASSUME Shape, UpdateDone
  PROVE  Shape'
<1>1. /\ pc = "update" /\ pc' = "set" /\ next' = next + 1 /\ next \in DOMAIN upds
      /\ UNCHANGED <<script, mode, shoulds, upds, before, faults, res, unknown, derive, outcome>>
  BY DEF UpdateDone, Shape
<1>2. chgs' \in [Name -> Seq(Noted)]
  <2> DEFINE n == UpdateName(u)
  <2>1. n \in Name /\ chgs[n] \in Seq(Noted)
    BY <1>1, ArgsFacts DEF Shape
  <2>2. MaybeAdd(chgs[n], AttrSeq, u) \in Seq(Noted)
    BY <1>1, <2>1, DerivedType
  <2>3. chgs' = [chgs EXCEPT ![n] = IF derive THEN MaybeAdd(@, AttrSeq, u) ELSE @]
    BY DEF UpdateDone
  <2> HIDE DEF n
  <2> QED BY <2>1, <2>2, <2>3 DEF Shape
<1>3. next' \in 1..Len(upds') + 1
  BY <1>1, ShapeFacts
<1>4. SimpleTypeOK'
  BY <1>1, <1>2, <1>3, NotedAttr DEF Shape, SimpleTypeOK, script
<1> QED BY <1>1, <1>2, <1>4 DEF Shape, script, Framed

\* Nothing is going on.
LEMMA EmptyShape ==
  ASSUME sys' \in [Name -> PackageState], pc' = "idle", outcome' = "none",
         out' = <<>>, exit' = TRUE, mode' = "header", shoulds' = <<>>, res' = <<>>,
         unknown' = FALSE, derive' = FALSE, upds' = <<>>, next' = 1,
         chgs' = [n \in Name |-> <<>>], before' = sys', faults' = {}
  PROVE  Shape'
<1>1. /\ <<>> \in Seq(AnyLine) /\ <<>> \in Seq(Lines) /\ <<>> \in Seq(Found) /\ <<>> \in Seq(PackageShould)
      /\ <<>> \in Seq(Updates) /\ Len(<<>>) = 0 /\ DOMAIN <<>> = {} /\ <<>> \in Seq(Noted)
  OBVIOUS
<1>2. chgs' \in [Name -> Seq(Noted)] /\ \A n \in Name : \A i \in DOMAIN chgs'[n] : FALSE
  BY <1>1
<1>3. upds' \in Seq(Updates)
  BY <1>1
<1>4. SimpleTypeOK'
  <2>1. next' \in 1..Len(upds') + 1 /\ out' \in Seq(Lines) /\ shoulds' \in Seq(PackageShould)
    BY <1>1
  <2>2. \A n \in Name : \A i \in DOMAIN chgs'[n] : chgs'[n][i].attr \in Attr \cup {"ral_unknown", "junk"}
    BY <1>2
  <2>3. sys' \in [Name -> PackageState] /\ before' \in [Name -> PackageState]
    OBVIOUS
  <2>4. faults' \subseteq {"died", "error", "unfinished", "garbage"}
    OBVIOUS
  <2> QED BY <1>3, <2>1, <2>2, <2>3, <2>4, UpdatesType DEF SimpleTypeOK
<1>5. Framed'
  BY <1>1 DEF Framed
<1> QED BY <1>1, <1>2, <1>4, <1>5 DEF Shape

LEMMA ShapeStep ==
  ASSUME Shape, [SimpleNext]_simpleVars
  PROVE  Shape'
<1>1. CASE ReadHeader
  <2>1. /\ Reading /\ out' = Tail(out) /\ mode' \in {"header", "entries", "message", "failed"}
        /\ mode' # "failed" /\ line = ErrorLine => mode' = "message"
    BY <1>1, LinesDiffer DEF ReadHeader
  <2>2. /\ UNCHANGED <<sys, exit, pc, call, outcome, upds>> /\ chgs' = chgs
        /\ derive' \in BOOLEAN /\ unknown' \in BOOLEAN /\ res' \in Seq(Found) /\ chgs' \in [Name -> Seq(Noted)]
    BY <1>1 DEF ReadHeader, call, Shape, SimpleTypeOK
  <2> QED BY <2>1, <2>2, ReadShape
<1>2. CASE ReadError
  <2>1. /\ Reading /\ out' = Tail(out) /\ mode' \in {"header", "entries", "message", "failed"}
        /\ mode' # "failed" /\ line = ErrorLine => mode' = "message"
    BY <1>2, LinesDiffer DEF ReadError
  <2>2. /\ UNCHANGED <<sys, exit, pc, call, outcome, upds>> /\ chgs' = chgs
        /\ derive' \in BOOLEAN /\ unknown' \in BOOLEAN /\ res' \in Seq(Found) /\ chgs' \in [Name -> Seq(Noted)]
    BY <1>2 DEF ReadError, call, Shape, SimpleTypeOK
  <2> QED BY <2>1, <2>2, ReadShape
<1>3. CASE ReadResource
  BY <1>3, ReadResourceShape
<1>4. CASE ReadChange
  BY <1>4, ReadChangeShape
<1>5. CASE ReadBeforeFirst \/ RunFails
  <2>1. /\ Running /\ pc' = "returned" /\ outcome' \in {"crash", "error"}
        /\ UNCHANGED <<script, mode, call, res, unknown, derive, chgs, upds>>
    BY <1>5 DEF ReadBeforeFirst, RunFails, Give, Ended, EntryDue, Reading, call
  <2> QED BY <2>1 DEF Shape, SimpleTypeOK, script, call, Framed, Running
<1>6. CASE LookupDone
  BY <1>6, LookupDoneShape
<1>7. CASE NothingToDo
  <2>1. /\ pc = "set" /\ next \in DOMAIN upds /\ next' = next + 1
        /\ UNCHANGED <<script, pc, mode, shoulds, upds, before, faults, res, unknown, derive, chgs, outcome>>
    BY <1>7 DEF NothingToDo, Processing
  <2>2. next' \in 1..Len(upds') + 1
    BY <2>1, ShapeFacts
  <2> QED BY <2>1, <2>2 DEF Shape, SimpleTypeOK, script, Framed
<1>8. CASE RunUpdate
  BY <1>8, RunUpdateShape
<1>9. CASE UpdateDone
  BY <1>9, UpdateDoneShape
<1>10. CASE Finish
  <2>1. /\ pc = "set" /\ next > Len(upds) /\ pc' = "returned" /\ outcome' = "ok"
        /\ UNCHANGED <<script, mode, call, res, unknown, derive, chgs, upds>>
    BY <1>10 DEF Finish, Give, call
  <2> QED BY <2>1 DEF Shape, SimpleTypeOK, script, call, Framed
<1>11. CASE \E batch \in Calls : Call(batch)
  BY <1>11, CallShape
<1>12. CASE Release
  <2>1. /\ pc' = "idle" /\ outcome' = "none" /\ out' = <<>> /\ exit' = TRUE /\ mode' = "header"
        /\ shoulds' = <<>> /\ res' = <<>> /\ unknown' = FALSE /\ derive' = FALSE
        /\ upds' = <<>> /\ next' = 1 /\ chgs' = [n \in Name |-> <<>>]
        /\ before' = sys /\ faults' = {} /\ sys' = sys
    BY <1>12 DEF Release
  <2>2. sys \in [Name -> PackageState]
    BY ShapeFacts
  <2> QED BY <2>1, <2>2, EmptyShape
<1>13. CASE UNCHANGED simpleVars
  BY <1>13 DEF simpleVars, script, call, Shape, SimpleTypeOK, Framed
<1> QED BY <1>1, <1>2, <1>3, <1>4, <1>5, <1>6, <1>7, <1>8, <1>9, <1>10, <1>11, <1>12, <1>13
        DEF SimpleNext, Step

LEMMA InitShape ==
  ASSUME SimpleInit
  PROVE  Shape
<1>1. /\ <<>> \in Seq(AnyLine) /\ <<>> \in Seq(Lines) /\ <<>> \in Seq(Found) /\ <<>> \in Seq(PackageShould)
      /\ <<>> \in Seq(Updates) /\ Len(<<>>) = 0 /\ DOMAIN <<>> = {} /\ <<>> \in Seq(Noted)
  OBVIOUS
<1>2. chgs \in [Name -> Seq(Noted)] /\ \A n \in Name : \A i \in DOMAIN chgs[n] : FALSE
  BY <1>1 DEF SimpleInit
<1>3. /\ next \in 1..Len(upds) + 1 /\ out \in Seq(Lines) /\ shoulds \in Seq(PackageShould)
      /\ upds \in Seq([is: [name: Name, attrs: [Attr -> Version \cup {None, "present", "absent"}]],
                       should: PackageShould])
  BY <1>1 DEF SimpleInit
<1>4. SimpleTypeOK
  BY <1>2, <1>3 DEF SimpleInit, SimpleTypeOK
<1> QED BY <1>1, <1>2, <1>4 DEF Shape, SimpleInit, Framed

-----------------------------------------------------------------------------
(* SimpleProvider: no fault goes unnoticed. *)

\* A line that is read leaves what announces a fault, or is it.
LEMMA ReadAnnounced ==
  ASSUME Shape, Announced, Reading, out' = Tail(out), UNCHANGED <<exit, faults, pc, outcome>>,
         \/ mode' = "failed"
         \/ /\ mode' = "message"
            /\ \/ mode = "message" /\ line # Eom
               \/ mode = "entries" /\ line = ErrorLine
         \/ mode' = "entries" /\ mode \in {"header", "entries"} /\ line \notin {ErrorLine, Junk}
  PROVE  Announced'
<1>1. /\ line = out[1] /\ Len(out) \in Nat \ {0} /\ DOMAIN out = 1..Len(out)
      /\ out' \in Seq(AnyLine) /\ Len(out') = Len(out) - 1 /\ DOMAIN out' = 1..Len(out) - 1
      /\ \A i \in 1..Len(out) - 1 : out'[i] = out[i + 1]
  BY ReadFacts
<1>2. Running /\ Running' /\ mode # "failed" /\ pc # "set" /\ outcome # "ok"
  BY DEF Reading, Running, Shape
<1>3. ASSUME mode' # "failed", GarbageDue PROVE GarbageDue'
  <2>1. /\ mode \in {"header", "entries"} /\ out[Len(out)] = Junk /\ \A i \in DOMAIN out : out[i] # ErrorLine
    BY <1>3 DEF GarbageDue
  <2>2. mode' = "entries" /\ line # Junk
    BY <1>1, <1>3, <2>1
  <2>3. Len(out) > 1
    BY <1>1, <2>1, <2>2
  <2>4. \A i \in DOMAIN out' : i + 1 \in DOMAIN out /\ out'[i] = out[i + 1]
    BY <1>1
  <2>5. \A i \in DOMAIN out' : out'[i] # ErrorLine
    BY <2>1, <2>4
  <2>6. Len(out') \in DOMAIN out' /\ Len(out') + 1 = Len(out) /\ out' # <<>>
    <3>1. Len(out') = Len(out) - 1 /\ Len(out) - 1 \in 1..Len(out) - 1
      BY <1>1, <2>3
    <3>2. Len(out') # 0 /\ Len(out') + 1 = Len(out)
      BY <1>1, <2>3, <3>1
    <3>3. out' # <<>>
      BY <3>2
    <3> QED BY <1>1, <3>1, <3>2, <3>3
  <2>7. out'[Len(out')] = Junk
    BY <2>1, <2>4, <2>6
  <2> QED BY <2>2, <2>5, <2>6, <2>7 DEF GarbageDue
<1>4. ASSUME mode' # "failed", ErrorDue PROVE ErrorDue'
  <2>1. mode # "message"
    <3> SUFFICES ASSUME mode = "message" PROVE FALSE
      OBVIOUS
    <3>1. out = <<Eom>>
      BY <1>4 DEF ErrorDue
    <3>2. line = Eom
      BY <1>1, <3>1
    <3> QED BY <1>4, <3>2
  <2>2. /\ Len(out) > 1 /\ out[Len(out) - 1] = ErrorLine /\ out[Len(out)] = Eom
        /\ \A i \in 1..Len(out) - 2 : out[i] # ErrorLine
    BY <1>4, <2>1 DEF ErrorDue
  <2>3. CASE Len(out) = 2
    <3>1. line = ErrorLine
      BY <1>1, <2>2, <2>3
    <3>2. mode' = "message"
      BY <1>4, <3>1
    <3>3. Len(out') = 1 /\ out'[1] = Eom
      BY <1>1, <2>2, <2>3
    <3>4. \A o \in Seq(AnyLine) : Len(o) = 1 => o = <<o[1]>>
      OBVIOUS
    <3>5. out' = <<Eom>>
      BY <1>1, <3>3, <3>4
    <3> QED BY <3>2, <3>5 DEF ErrorDue
  <2>4. CASE Len(out) > 2
    <3>1. line # ErrorLine
      BY <1>1, <2>2, <2>4
    <3>2. mode' = "entries"
      BY <1>4, <2>1, <3>1
    <3>3. /\ Len(out') > 1 /\ Len(out') - 1 \in 1..Len(out) - 1 /\ (Len(out') - 1) + 1 = Len(out) - 1
          /\ Len(out') \in 1..Len(out) - 1 /\ Len(out') + 1 = Len(out)
      BY <1>1, <2>4
    <3>4. out'[Len(out') - 1] = ErrorLine /\ out'[Len(out')] = Eom
      BY <1>1, <2>2, <3>3
    <3>5. ASSUME NEW i \in 1..Len(out') - 2 PROVE out'[i] # ErrorLine
      <4>1. i \in 1..Len(out) - 1 /\ i + 1 \in 1..Len(out) - 2
        BY <1>1
      <4> QED BY <1>1, <2>2, <4>1
    <3> QED BY <3>2, <3>3, <3>4, <3>5 DEF ErrorDue
  <2> QED BY <1>1, <2>2, <2>3, <2>4
<1> QED BY <1>2, <1>3, <1>4 DEF Announced

\* A run begins when nothing but an error without an end has gone wrong.
LEMMA RunsKeepAnnounced ==
  ASSUME faults \subseteq {"unfinished"}, NEW text \in Seq(EntryLine), NEW n, NEW s, NEW t,
         ScriptRuns(text, n, s, t), mode' = "header", pc' \in {"find", "list", "update"}, outcome' # "ok"
  PROVE  Announced'
<1>1. /\ "died" \in faults' => ~exit'
      /\ "garbage" \in faults' => GarbageDue'
      /\ "error" \in faults' => ErrorDue'
  BY RunsAnnounced
<1> QED BY <1>1 DEF Announced

\* A run that succeeds has hidden nothing but an error without an end.
LEMMA EndedWell ==
  ASSUME Shape, Announced, Ended(TRUE)
  PROVE  faults \subseteq {"unfinished"}
<1>1. Running /\ out = <<>> /\ mode # "failed" /\ exit
  BY DEF Ended
<1>2. ~GarbageDue /\ ~ErrorDue
  <2>1. Len(<<>>) = 0 /\ <<>> # <<Eom>>
    OBVIOUS
  <2> QED BY <1>1, <2>1 DEF GarbageDue, ErrorDue
<1>3. faults \subseteq {"died", "error", "unfinished", "garbage"}
  BY DEF Shape, SimpleTypeOK
<1> QED BY <1>1, <1>2, <1>3 DEF Announced

LEMMA AnnouncedStep ==
  ASSUME Shape, Announced, [SimpleNext]_simpleVars
  PROVE  Announced'
<1> USE DEF EntryDue, EntryRead
<1>1. CASE ReadHeader
  <2>1. Reading /\ out' = Tail(out) /\ UNCHANGED <<exit, faults, pc, outcome>>
    BY <1>1 DEF ReadHeader, call
  <2>2. mode' = "failed" \/ (mode' = "entries" /\ mode \in {"header", "entries"} /\ line \notin {ErrorLine, Junk})
    BY <1>1, LinesDiffer DEF ReadHeader
  <2> QED BY <2>1, <2>2, ReadAnnounced
<1>2. CASE ReadError
  <2>1. Reading /\ out' = Tail(out) /\ UNCHANGED <<exit, faults, pc, outcome>>
    BY <1>2 DEF ReadError, call
  <2>2. \/ mode' = "failed"
        \/ /\ mode' = "message"
           /\ \/ mode = "message" /\ line # Eom
              \/ mode = "entries" /\ line = ErrorLine
    BY <1>2, LinesDiffer DEF ReadError
  <2> QED BY <2>1, <2>2, ReadAnnounced
<1>3. CASE ReadResource \/ ReadChange
  <2>1. Reading /\ out' = Tail(out) /\ UNCHANGED <<exit, faults, pc, outcome>>
    BY <1>3 DEF ReadResource, ReadChange, call
  <2>2. mode' = "failed" \/ (mode' = "entries" /\ mode \in {"header", "entries"} /\ line \notin {ErrorLine, Junk})
    BY <1>3 DEF ReadResource, ReadChange
  <2> QED BY <2>1, <2>2, ReadAnnounced
<1>4. CASE ReadBeforeFirst \/ RunFails
  <2>1. pc' = "returned" /\ outcome' \in {"crash", "error"}
    BY <1>4 DEF ReadBeforeFirst, RunFails, Give
  <2> QED BY <2>1 DEF Announced, Running
<1>5. CASE LookupDone
  <2>1. pc' = "set" /\ faults' = faults /\ Ended(TRUE)
    BY <1>5 DEF LookupDone
  <2>2. faults \subseteq {"unfinished"}
    BY <2>1, EndedWell
  <2> QED BY <2>1, <2>2 DEF Announced, Running
<1>6. CASE UpdateDone
  <2>1. pc' = "set" /\ faults' = faults /\ Ended(TRUE)
    BY <1>6 DEF UpdateDone
  <2>2. faults \subseteq {"unfinished"}
    BY <2>1, EndedWell
  <2> QED BY <2>1, <2>2 DEF Announced, Running
<1>7. CASE NothingToDo \/ Finish
  <2>1. pc = "set" /\ pc' \in {"set", "returned"} /\ faults' = faults
    BY <1>7 DEF NothingToDo, Processing, Finish, Give, call
  <2> QED BY <2>1 DEF Announced, Running
<1>8. CASE RunUpdate
  <2>1. pc' = "update" /\ mode' = "header" /\ outcome' = outcome /\ pc = "set"
    BY <1>8 DEF RunUpdate, Processing
  <2>2. faults \subseteq {"unfinished"} /\ outcome' # "ok"
    BY <2>1 DEF Announced, Shape
  <2>3. \E n, s, t : \E text \in Seq(EntryLine) : ScriptRuns(text, n, s, t)
    BY <1>8, UpdateRuns
  <2> QED BY <2>1, <2>2, <2>3, RunsKeepAnnounced
<1>9. CASE \E batch \in Calls : Call(batch)
  <2>1. PICK batch \in Calls : Call(batch)
    BY <1>9
  <2>2. pc = "idle" /\ mode' = "header" /\ outcome' = outcome
    BY <2>1 DEF Call
  <2>3. faults \subseteq {"unfinished"} /\ outcome' # "ok"
    BY <2>2 DEF Shape
  <2>4. /\ \E n : \E text \in Seq(EntryLine) : ScriptRuns(text, n, sys[n], sys[n])
        /\ pc' \in {"find", "list", "update"}
    BY <2>1, CallRuns
  <2> QED BY <2>2, <2>3, <2>4, RunsKeepAnnounced
<1>10. CASE Release
  BY <1>10 DEF Release, Announced, Running
<1>11. CASE UNCHANGED simpleVars
  BY <1>11 DEF simpleVars, script, call, Announced, Running, GarbageDue, ErrorDue
<1> QED BY <1>1, <1>2, <1>3, <1>4, <1>5, <1>6, <1>7, <1>8, <1>9, <1>10, <1>11 DEF SimpleNext, Step

\* The model's state has the types that its definitions say (set, the lookups
\* and the runs of the script in simple_provider.cc).
THEOREM SimpleTypeCorrect == SimpleSpec => []SimpleTypeOK
<1>1. SimpleInit => Shape
  BY InitShape
<1>2. Shape /\ [SimpleNext]_simpleVars => Shape'
  BY ShapeStep
<1>3. Shape => SimpleTypeOK
  BY DEF Shape
<1> QED BY <1>1, <1>2, <1>3, PTL DEF SimpleSpec

\* A set() of a simple provider that succeeds was told of no fault by any run
\* of its script, but for an error that is not ended (run_action in
\* simple_provider.cc).
THEOREM NoFaultGoesUnnoticed == SimpleSpec => []NoFaultUnnoticed
<1>1. SimpleInit => Shape /\ Announced
  <2>1. SimpleInit => Shape
    BY InitShape
  <2>2. SimpleInit => Announced
    BY DEF SimpleInit, Announced, Running
  <2> QED BY <2>1, <2>2
<1>2. Shape /\ Announced /\ [SimpleNext]_simpleVars => (Shape /\ Announced)'
  BY ShapeStep, AnnouncedStep
<1>3. Announced => NoFaultUnnoticed
  BY DEF Announced, NoFaultUnnoticed
<1> QED BY <1>1, <1>2, <1>3, PTL DEF SimpleSpec

-----------------------------------------------------------------------------
(* SimpleProvider: what the lookup knows. *)

\* A run in which nothing goes wrong prints its reply.
LEMMA RunsWell ==
  ASSUME NEW text \in Seq(EntryLine), NEW n, NEW s, NEW t, ScriptRuns(text, n, s, t), faults' = {}
  PROVE  /\ out' = <<Header>> \o text /\ sys' = [sys EXCEPT ![n] = s] /\ faults = {}
         /\ <<Header>> \o text \in Seq(AnyLine)
         /\ Len(<<Header>> \o text) = Len(text) + 1 /\ Len(text) \in Nat
         /\ (<<Header>> \o text)[1] = Header
         /\ \A i \in 1..Len(text) : (<<Header>> \o text)[i + 1] = text[i] /\ text[i] \in EntryLine
         /\ \A i \in 2..Len(text) + 1 : i - 1 \in 1..Len(text) /\ (<<Header>> \o text)[i] = text[i - 1]
<1> DEFINE full == <<Header>> \o text
<1>1. /\ out' \in Seq(AnyLine) /\ exit' \in BOOLEAN
      /\ \E e \in {s, t} : sys' = [sys EXCEPT ![n] = e]
      /\ \/ out' = full /\ exit' = TRUE /\ faults' = faults /\ sys' = [sys EXCEPT ![n] = s]
         \/ \E k \in 0..Len(full), f \in ScriptFaults :
              /\ CutShort(out', full, k, f)
              /\ exit' = (f # "died")
              /\ faults' = faults \cup {f}
  BY RunsFacts
<1>2. /\ full \in Seq(AnyLine) /\ Len(full) = Len(text) + 1 /\ Len(text) \in Nat /\ full[1] = Header
      /\ \A i \in 2..Len(full) : i - 1 \in 1..Len(text) /\ full[i] = text[i - 1]
      /\ \A i \in 1..Len(text) : full[i + 1] = text[i] /\ text[i] \in EntryLine
  BY FullReply
<1> HIDE DEF full
<1>3. out' = full /\ faults = {} /\ sys' = [sys EXCEPT ![n] = s]
  BY <1>1
<1> QED BY <1>2, <1>3 DEF full

LEMMA RunsClean ==
  ASSUME NEW text \in Seq(EntryLine), NEW n, NEW s, NEW t, ScriptRuns(text, n, s, t), mode' = "header"
  PROVE  Clean'
<1> SUFFICES ASSUME faults' = {} PROVE \A i \in DOMAIN out' : out'[i] \notin {ErrorLine, Junk}
  BY DEF Clean
<1> DEFINE full == <<Header>> \o text
<1>1. /\ out' = full /\ full \in Seq(AnyLine) /\ Len(full) = Len(text) + 1 /\ Len(text) \in Nat
      /\ full[1] = Header
      /\ \A i \in 1..Len(text) : full[i + 1] = text[i] /\ text[i] \in EntryLine
      /\ \A i \in 2..Len(text) + 1 : i - 1 \in 1..Len(text) /\ full[i] = text[i - 1]
  BY RunsWell
<1> HIDE DEF full
<1>2. \A i \in DOMAIN full : i = 1 \/ i \in 2..Len(text) + 1
  BY <1>1
<1>3. \A i \in DOMAIN full : full[i] = Header \/ full[i] \in EntryLine
  BY <1>1, <1>2
<1> QED BY <1>1, <1>3, LinesDiffer

LEMMA CleanStep ==
  ASSUME Shape, Clean, [SimpleNext]_simpleVars
  PROVE  Clean'
<1>1. CASE ReadHeader \/ ReadError \/ ReadResource \/ ReadChange
  <2>1. Reading /\ out' = Tail(out) /\ UNCHANGED <<pc, faults>>
    BY <1>1 DEF ReadHeader, ReadError, ReadResource, ReadChange, EntryDue, EntryRead, call
  <2>2. Running /\ Running'
    BY <2>1 DEF Reading, Running
  <2> SUFFICES ASSUME faults = {}
               PROVE  mode' # "message" /\ \A i \in DOMAIN out' : out'[i] \notin {ErrorLine, Junk}
    BY <2>1, <2>2 DEF Clean
  <2>3. mode # "message" /\ \A i \in DOMAIN out : out[i] \notin {ErrorLine, Junk}
    BY <2>2 DEF Clean
  <2>4. /\ line = out[1] /\ DOMAIN out = 1..Len(out) /\ Len(out) \in Nat \ {0}
        /\ DOMAIN out' = 1..Len(out) - 1 /\ \A i \in 1..Len(out) - 1 : out'[i] = out[i + 1]
    BY <2>1, ReadFacts
  <2>5. line # ErrorLine
    BY <2>3, <2>4
  <2>6. mode' # "message"
    BY <1>1, <2>3, <2>5 DEF ReadHeader, ReadError, ReadResource, ReadChange, EntryDue, EntryRead
  <2>7. \A i \in DOMAIN out' : i + 1 \in DOMAIN out /\ out'[i] = out[i + 1]
    BY <2>4
  <2> QED BY <2>3, <2>6, <2>7
<1>2. CASE RunUpdate
  <2>1. mode' = "header" /\ \E n, s, t : \E text \in Seq(EntryLine) : ScriptRuns(text, n, s, t)
    BY <1>2, UpdateRuns DEF RunUpdate
  <2> QED BY <2>1, RunsClean
<1>3. CASE \E batch \in Calls : Call(batch)
  <2>1. mode' = "header" /\ \E n : \E text \in Seq(EntryLine) : ScriptRuns(text, n, sys[n], sys[n])
    BY <1>3, CallRuns DEF Call
  <2> QED BY <2>1, RunsClean
<1>4. CASE ReadBeforeFirst \/ RunFails \/ LookupDone \/ NothingToDo \/ UpdateDone \/ Finish \/ Release
  <2>1. pc' \in {"returned", "set", "idle"}
    BY <1>4 DEF ReadBeforeFirst, RunFails, LookupDone, NothingToDo, Processing, UpdateDone, Finish, Release, Give
  <2> QED BY <2>1 DEF Clean, Running
<1>5. CASE UNCHANGED simpleVars
  BY <1>5 DEF simpleVars, script, call, Clean, Running
<1> QED BY <1>1, <1>2, <1>3, <1>4, <1>5 DEF SimpleNext, Step

\* The replies in which each attribute belongs to the package named above it.
OwnedTexts(state) ==
  {text \in Seq(AnyLine) : \A i \in 1..Len(text) : text[i].key \in Attr => Owned(text, i, state)}

LEMMA OwnedConcat ==
  ASSUME NEW state, NEW a \in OwnedTexts(state), NEW b \in OwnedTexts(state)
  PROVE  a \o b \in OwnedTexts(state)
<1> DEFINE c == a \o b
<1>1. /\ c \in Seq(AnyLine) /\ Len(c) = Len(a) + Len(b) /\ Len(a) \in Nat /\ Len(b) \in Nat
      /\ \A k \in 1..Len(a) : c[k] = a[k]
      /\ \A k \in 1..Len(b) : c[Len(a) + k] = b[k]
  BY LinesConcat DEF OwnedTexts
<1> HIDE DEF c
<1>2. ASSUME NEW i \in 1..Len(c), c[i].key \in Attr PROVE Owned(c, i, state)
  <2>1. CASE i \in 1..Len(a)
    <3>1. Owned(a, i, state)
      BY <1>1, <1>2, <2>1 DEF OwnedTexts
    <3>2. PICK j \in 1..i - 1 : /\ a[j].key = "name" /\ \A k \in j + 1..i - 1 : a[k].key # "name"
                                /\ a[i].value = Attrs(state[a[j].value])[a[i].key]
      BY <3>1 DEF Owned
    <3>3. \A k \in 1..i : c[k] = a[k]
      BY <1>1, <2>1
    <3> QED BY <3>2, <3>3 DEF Owned
  <2>2. CASE i \notin 1..Len(a)
    <3> DEFINE h == i - Len(a)
    <3>1. h \in 1..Len(b) /\ Len(a) + h = i
      BY <1>1, <2>2
    <3>2. Owned(b, h, state)
      BY <1>1, <1>2, <3>1 DEF OwnedTexts
    <3> HIDE DEF h
    <3>3. PICK j \in 1..h - 1 : /\ b[j].key = "name" /\ \A k \in j + 1..h - 1 : b[k].key # "name"
                                /\ b[h].value = Attrs(state[b[j].value])[b[h].key]
      BY <3>2 DEF Owned
    <3>4. \A k \in 1..h : k \in 1..Len(b) /\ c[Len(a) + k] = b[k]
      BY <1>1, <3>1
    <3>5. Len(a) + j \in 1..i - 1 /\ c[Len(a) + j] = b[j] /\ c[i] = b[h]
      BY <1>1, <3>1, <3>3, <3>4
    <3>6. ASSUME NEW k \in Len(a) + j + 1..i - 1 PROVE c[k].key # "name"
      <4> DEFINE m == Len(a)
      <4>1. m \in Nat /\ h \in Nat /\ j \in Nat /\ j > 0 /\ i = m + h /\ k \in m + j + 1..m + h - 1
        BY <1>1, <3>1
      <4> HIDE DEF m
      <4>2. k - m \in j + 1..h - 1 /\ k - m \in 1..h /\ m + (k - m) = k
        BY <4>1
      <4> QED BY <3>3, <3>4, <4>2 DEF m
    <3> QED BY <3>3, <3>5, <3>6 DEF Owned
  <2> QED BY <2>1, <2>2
<1> QED BY <1>1, <1>2 DEF OwnedTexts, c

LEMMA WrittenOwned ==
  ASSUME NEW n \in Name, sys[n] \in PackageState
  PROVE  Written(n) \in OwnedTexts(sys)
<1> DEFINE w == Written(n)
<1>1. /\ w \in Seq(EntryLine) /\ Len(w) \in Nat \ {0} /\ w[1] = Line("name", n)
      /\ \A i \in 2..Len(w) :
           \/ sys[n] = "unknown" /\ w[i] = Line("ral_unknown", "true")
           \/ sys[n] # "unknown" /\ w[i].key \in Attr /\ w[i].value = Attrs(sys[n])[w[i].key]
  BY WrittenType
<1> HIDE DEF w
<1>2. w \in Seq(AnyLine) /\ w[1].key = "name" /\ w[1].value = n
  BY <1>1 DEF AnyLine, Line
<1>3. ASSUME NEW i \in 1..Len(w), w[i].key \in Attr PROVE Owned(w, i, sys)
  <2>1. i \in 2..Len(w)
    BY <1>1, <1>2, <1>3, AttrIs
  <2>2. w[i].value = Attrs(sys[n])[w[i].key]
    BY <1>1, <1>3, <2>1, AttrIs DEF Line
  <2>3. ASSUME NEW k \in 2..i - 1 PROVE w[k].key # "name"
    <3>1. k \in 2..Len(w)
      BY <1>1
    <3> QED BY <1>1, <3>1, AttrIs DEF Line
  <2>4. 1 \in 1..i - 1
    BY <2>1
  <2> QED BY <1>2, <2>2, <2>3, <2>4 DEF Owned
<1> QED BY <1>2, <1>3 DEF OwnedTexts, w

LEMMA ListingOwned ==
  ASSUME sys \in [Name -> PackageState]
  PROVE  Listing \in OwnedTexts(sys)
<1> DEFINE T == OwnedTexts(sys)
           c == Cardinality(Name)
           order == SetToSeq(Name)
           part(i) == IF sys[order[i]] \in Version THEN Written(order[i]) ELSE <<>>
           parts == [i \in 1..c |-> part(i)]
<1>1. c \in Nat /\ order \in [1..c -> Name]
  BY SetToSeqFacts, CallsAssumption
<1>2. Listing = FlattenSeq(parts)
  BY DEF Listing
<1> HIDE DEF c, order
<1>3. T \subseteq Seq(AnyLine) /\ <<>> \in T
  <2>1. <<>> \in Seq(AnyLine) /\ Len(<<>>) = 0
    OBVIOUS
  <2> QED BY <2>1 DEF OwnedTexts
<1>4. \A a, b \in T : a \o b \in T
  BY OwnedConcat
<1>5. ASSUME NEW i \in 1..c PROVE part(i) \in T
  BY <1>1, <1>3, WrittenOwned
<1> HIDE DEF part, T
<1>6. parts \in Seq(T)
  BY <1>1, <1>5
<1>7. FlattenSeq(parts) \in T
  BY <1>3, <1>4, <1>6, FlattenClosed
<1> QED BY <1>2, <1>7 DEF T

LEMMA CallLookedUp ==
  ASSUME Shape, NEW batch \in Calls, Call(batch)
  PROVE  LookedUp'
<1> SUFFICES ASSUME faults' = {} PROVE LinesOwned' /\ res' = <<>>
  BY DEF LookedUp
<1>1. res' = <<>> /\ before' = sys
  BY DEF Call, Shape
<1>2. PICK n : \E text \in Seq(EntryLine) :
         /\ ScriptRuns(text, n, sys[n], sys[n])
         /\ (n \in Name /\ text = Written(n)) \/ text = Listing
  BY CallRuns
<1>3. PICK text \in Seq(EntryLine) :
         /\ ScriptRuns(text, n, sys[n], sys[n])
         /\ (n \in Name /\ text = Written(n)) \/ text = Listing
  BY <1>2
<1>4. text \in OwnedTexts(sys)
  BY <1>3, ShapeFacts, WrittenOwned, ListingOwned
<1> DEFINE h == <<Header>>
<1>5. h \in OwnedTexts(sys)
  <2>1. h \in Seq(AnyLine) /\ Len(h) = 1 /\ h[1] = Header
    BY DEF AnyLine
  <2> HIDE DEF h
  <2>2. Header.key \notin Attr
    BY LinesDiffer, AttrIs
  <2>3. \A i \in 1..Len(h) : h[i] = Header
    BY <2>1
  <2> QED BY <2>1, <2>2, <2>3 DEF OwnedTexts
<1>6. out' = h \o text
  BY <1>3, RunsWell
<1> HIDE DEF h
<1>7. out' \in OwnedTexts(sys)
  BY <1>4, <1>5, <1>6, OwnedConcat
<1>8. DOMAIN out' = 1..Len(out')
  BY <1>7 DEF OwnedTexts
<1>9. \A i \in DOMAIN out' : out'[i].key \in Attr => Owned(out', i, before')
  BY <1>1, <1>7, <1>8 DEF OwnedTexts
<1> QED BY <1>1, <1>9 DEF LinesOwned, Owned

LEMMA ReadOwned ==
  ASSUME Shape, Reading, LinesOwned, out' = Tail(out), before' = before,
         \/ /\ line.key # "name" /\ (res' = <<>> <=> res = <<>>)
            /\ res # <<>> => res'[Len(res')].name = res[Len(res)].name
         \/ line.key = "name" /\ res' # <<>> /\ res'[Len(res')].name = line.value
  PROVE  LinesOwned'
<1>1. /\ line = out[1] /\ Len(out) \in Nat \ {0} /\ DOMAIN out = 1..Len(out)
      /\ DOMAIN out' = 1..Len(out) - 1 /\ \A i \in 1..Len(out) - 1 : out'[i] = out[i + 1]
  BY ReadFacts
<1> SUFFICES ASSUME NEW i \in DOMAIN out', out'[i].key \in Attr
             PROVE  \/ Owned(out', i, before')
                    \/ /\ \A k \in 1..i - 1 : out'[k].key # "name"
                       /\ res' # <<>> => out'[i].value = Attrs(before'[res'[Len(res')].name])[out'[i].key]
  BY DEF LinesOwned, Owned
<1>2. i + 1 \in DOMAIN out /\ out'[i] = out[i + 1] /\ i \in Nat /\ i > 0 /\ i < Len(out)
  BY <1>1
<1>3. \A k \in 1..i : out'[k] = out[k + 1]
  BY <1>1, <1>2
<1>4. CASE Owned(out, i + 1, before)
  <2>1. PICK j \in 1..i : /\ out[j].key = "name" /\ \A k \in j + 1..i : out[k].key # "name"
                          /\ out[i + 1].value = Attrs(before[out[j].value])[out[i + 1].key]
    BY <1>2, <1>4 DEF Owned
  <2>2. \A k \in 1..i - 1 : k \in 1..i /\ k + 1 \in 2..i
    BY <1>2
  <2>3. CASE j = 1
    <3>1. \A k \in 1..i - 1 : out'[k].key # "name"
      BY <1>3, <2>1, <2>2, <2>3
    <3>2. out'[i].value = Attrs(before'[line.value])[out'[i].key] /\ line.key = "name"
      BY <1>1, <1>2, <2>1, <2>3
    <3> QED BY <3>1, <3>2
  <2>4. CASE j # 1
    <3> DEFINE h == j - 1
    <3>1. h \in 1..i - 1 /\ h + 1 = j
      BY <1>2, <2>1, <2>4
    <3>2. out'[h] = out[j]
      BY <1>3, <3>1
    <3>3. ASSUME NEW k \in h + 1..i - 1 PROVE out'[k].key # "name"
      <4>1. k \in 1..i - 1 /\ k + 1 \in j + 1..i
        BY <1>2, <3>1
      <4> QED BY <1>3, <2>1, <2>2, <4>1
    <3> HIDE DEF h
    <3> QED BY <1>2, <2>1, <3>1, <3>2, <3>3 DEF Owned
  <2> QED BY <2>3, <2>4
<1>5. CASE ~Owned(out, i + 1, before)
  <2>1. /\ \A k \in 1..i : out[k].key # "name"
        /\ res # <<>> => out[i + 1].value = Attrs(before[res[Len(res)].name])[out[i + 1].key]
    BY <1>2, <1>5 DEF LinesOwned
  <2>2. line.key # "name"
    BY <1>1, <1>2, <2>1
  <2>3. \A k \in 1..i - 1 : k \in 1..i /\ k + 1 \in 1..i
    BY <1>2
  <2>4. \A k \in 1..i - 1 : out'[k].key # "name"
    BY <1>3, <2>1, <2>3
  <2> QED BY <1>2, <2>1, <2>2, <2>4
<1> QED BY <1>4, <1>5

LEMMA ReadResourceLookedUp ==
  ASSUME Shape, LookedUp, ReadResource
  PROVE  LookedUp'
<1> USE DEF EntryDue, EntryRead
<1>1. /\ Reading /\ out' = Tail(out) /\ line # ErrorLine /\ mode = "entries" /\ pc \in {"find", "list"}
      /\ UNCHANGED <<pc, faults, before>>
  BY DEF ReadResource, call
<1> SUFFICES ASSUME faults = {}, mode' # "failed"
             PROVE  LinesOwned' /\ \A i \in DOMAIN res' : \A a \in Attr :
                      res'[i].attrs[a] \in {None, Attrs(before[res'[i].name])[a]}
  BY <1>1 DEF LookedUp, AsBefore
<1>2. LinesOwned /\ \A i \in DOMAIN res : AsBefore(res[i])
  BY <1>1 DEF LookedUp
<1>3. res \in Seq(Found) /\ DOMAIN res = 1..Len(res) /\ Len(res) \in Nat
  BY ShapeFacts
<1>4. CASE line.key = "name" /\ res' = Append(res, Blank(line.value, Attr))
  <2> DEFINE b == Blank(line.value, Attr)
  <2>1. /\ Len(res') = Len(res) + 1 /\ res'[Len(res) + 1] = b /\ DOMAIN res' = 1..Len(res) + 1
        /\ \A i \in 1..Len(res) : res'[i] = res[i]
    BY <1>3, <1>4
  <2>2. b.name = line.value /\ \A a \in Attr : b.attrs[a] = None
    BY DEF Blank, Resource
  <2> HIDE DEF b
  <2>3. res' # <<>> /\ res'[Len(res')].name = line.value
    BY <1>3, <2>1, <2>2
  <2>4. LinesOwned'
    BY <1>1, <1>2, <1>4, <2>3, ReadOwned
  <2>5. \A i \in DOMAIN res' : i = Len(res) + 1 \/ i \in DOMAIN res
    BY <1>3, <2>1
  <2> QED BY <1>2, <1>3, <2>1, <2>2, <2>4, <2>5 DEF AsBefore
<1>5. CASE line.key = "ral_unknown" /\ res' = res
  <2>1. LinesOwned'
    BY <1>1, <1>2, <1>5, ReadOwned
  <2> QED BY <1>2, <1>5, <2>1 DEF AsBefore
<1>6. CASE line.key # "name" /\ res # <<>> /\ res' = LastWith(line.key, line.value)
  <2> DEFINE k == Len(res)
             last == res[k]
             at == [a \in Attr |-> IF a = line.key THEN line.value ELSE last.attrs[a]]
  <2>1. k \in 1..k /\ k \in DOMAIN res /\ last \in Found
    BY <1>3, <1>6
  <2>2. res' = [res EXCEPT ![k] = [last EXCEPT !.attrs = at]]
    BY <1>6 DEF LastWith
  <2>3. [last EXCEPT !.attrs = at].name = last.name /\ [last EXCEPT !.attrs = at].attrs = at
    BY <2>1 DEF Found
  <2> DEFINE new == [last EXCEPT !.attrs = at]
  <2> HIDE DEF new
  <2>4. /\ DOMAIN res' = DOMAIN res /\ Len(res') = k /\ res'[k] = new /\ res' # <<>>
        /\ \A i \in DOMAIN res : i # k => res'[i] = res[i]
    <3>1. res' = [res EXCEPT ![k] = new]
      BY <2>2 DEF new
    <3> HIDE DEF k
    <3> QED BY <1>3, <2>1, <3>1 DEF k
  <2>5. LinesOwned'
    BY <1>1, <1>2, <1>6, <2>3, <2>4, ReadOwned DEF new
  <2>6. ASSUME NEW a \in Attr PROVE at[a] \in {None, Attrs(before[last.name])[a]}
    <3>1. CASE a = line.key
      <4>1. line = out[1] /\ 1 \in DOMAIN out
        BY <1>1, ReadFacts
      <4>2. ~Owned(out, 1, before)
        BY DEF Owned
      <4>3. line.value = Attrs(before[last.name])[line.key]
        BY <1>2, <1>6, <3>1, <4>1, <4>2 DEF LinesOwned
      <4> QED BY <3>1, <4>3
    <3>2. CASE a # line.key
      BY <1>2, <2>1, <3>2 DEF AsBefore
    <3> QED BY <3>1, <3>2
  <2>7. \A a \in Attr : new.attrs[a] \in {None, Attrs(before[new.name])[a]}
    BY <2>3, <2>6 DEF new
  <2> HIDE DEF k, last, at
  <2> QED BY <1>2, <2>4, <2>5, <2>7 DEF AsBefore
<1>7. CASE res = <<>> /\ mode' = "failed"
  BY <1>7
<1> QED BY <1>4, <1>5, <1>6, <1>7 DEF ReadResource

LEMMA LookedUpStep ==
  ASSUME Shape, Clean, LookedUp, [SimpleNext]_simpleVars
  PROVE  LookedUp'
<1>1. CASE ReadHeader
  <2>1. /\ Reading /\ out' = Tail(out) /\ UNCHANGED <<pc, faults, before, res>> /\ mode # "failed"
        /\ mode' # "failed" => line = Header
    BY <1>1 DEF ReadHeader, call
  <2> SUFFICES ASSUME pc \in {"find", "list"}, faults = {}, mode' # "failed"
               PROVE  LinesOwned' /\ \A i \in DOMAIN res : AsBefore(res[i])
    BY <2>1 DEF LookedUp, AsBefore
  <2>2. LinesOwned /\ \A i \in DOMAIN res : AsBefore(res[i])
    BY <2>1 DEF LookedUp
  <2>3. line.key # "name"
    BY <2>1, LinesDiffer
  <2> QED BY <2>1, <2>2, <2>3, ReadOwned
<1>2. CASE ReadError
  <2>1. Reading /\ faults' = faults
    BY <1>2 DEF ReadError, call
  <2>2. faults # {}
    <3> SUFFICES ASSUME faults = {} PROVE FALSE
      OBVIOUS
    <3>1. mode # "message" /\ \A i \in DOMAIN out : out[i] # ErrorLine
      BY <2>1 DEF Clean, Reading
    <3>2. line = out[1] /\ 1 \in DOMAIN out
      BY <2>1, ReadFacts
    <3> QED BY <1>2, <3>1, <3>2 DEF ReadError
  <2> QED BY <2>1, <2>2 DEF LookedUp
<1>3. CASE ReadResource
  BY <1>3, ReadResourceLookedUp
<1>4. CASE \E batch \in Calls : Call(batch)
  BY <1>4, CallLookedUp
<1>5. CASE \/ ReadChange \/ ReadBeforeFirst \/ RunFails \/ LookupDone \/ NothingToDo \/ RunUpdate
           \/ UpdateDone \/ Finish \/ Release
  <2>1. pc' \in {"update", "returned", "set", "idle"}
    BY <1>5 DEF ReadChange, ReadBeforeFirst, RunFails, LookupDone, NothingToDo, Processing, RunUpdate,
                UpdateDone, Finish, Release, Give
  <2> QED BY <2>1 DEF LookedUp
<1>6. CASE UNCHANGED simpleVars
  BY <1>6 DEF simpleVars, script, call, LookedUp, LinesOwned, Owned, AsBefore
<1> QED BY <1>1, <1>2, <1>3, <1>4, <1>5, <1>6 DEF SimpleNext, Step

-----------------------------------------------------------------------------
(* SimpleProvider: the updates bring the packages to what was asked. *)

LEMMA SameShould ==
  ASSUME Paired, Distinct, NEW n, NEW i \in Of(n), NEW k \in Of(n)
  PROVE  upds[i].should = upds[k].should
<1>1. \E j \in DOMAIN shoulds : upds[i].should = shoulds[j] /\ shoulds[j].name = n
  BY DEF Paired, Of
<1>2. \E j \in DOMAIN shoulds : upds[k].should = shoulds[j] /\ shoulds[j].name = n
  BY DEF Paired, Of
<1> QED BY <1>1, <1>2 DEF Distinct, OncePerName

LEMMA KnownBefore ==
  ASSUME Paired, NEW n, NEW i \in Of(n), NEW a \in Attr
  PROVE  upds[i].is.attrs[a] \in {None, Attrs(before[n])[a]}
BY DEF Paired, Of, AsBefore, UpdateName

\* Before its update a package is what it was at the lookup or as asked.
LEMMA AskedOrBefore ==
  ASSUME Paired, Distinct, pc = "set", NEW n, Brought(n), NEW i \in Of(n), Meant(i, n)
  PROVE  AsAsked(upds[i].should, sys[n]) \/ (sys[n] = before[n] /\ chgs[n] = <<>>)
<1>1. CASE \A k \in Of(n) : ~Past(k)
  BY <1>1 DEF Brought
<1>2. ASSUME NEW k \in Of(n), Past(k) PROVE AsAsked(upds[i].should, sys[n])
  <2>1. upds[k].should = upds[i].should
    BY SameShould
  <2>2. Meant(k, n)
    BY <2>1 DEF Meant
  <2> QED BY <1>2, <2>1, <2>2 DEF Brought
<1> QED BY <1>1, <1>2

\* Once the script has run for it, it is as asked.
LEMMA AskedNow ==
  ASSUME Paired, Distinct, pc = "update", NEW n, Brought(n), next \in Of(n), NEW i \in Of(n), Meant(i, n)
  PROVE  /\ AsAsked(upds[i].should, sys[n]) /\ Current(n)
         /\ mode # "failed" => ReadOn(n)
<1>1. upds[next].should = upds[i].should
  BY SameShould
<1>2. Meant(next, n) /\ Past(next)
  BY <1>1 DEF Meant, Past
<1> QED BY <1>1, <1>2 DEF Brought

\* A step for a package's update, and one for that of another.
LEMMA Touched ==
  ASSUME NEW n, upds' = upds, before' = before, sys'[n] = "unknown" <=> before[n] = "unknown",
         \E i \in Of(n) : Past(i)',
         \A i \in Of(n) : Sensible(upds[i].should, before[n]) /\ sys'[n] # "unknown" =>
           /\ AsAsked(upds[i].should, sys'[n])
           /\ Current(n)'
           /\ IF pc' = "update" /\ next' \in Of(n) THEN mode' # "failed" => ReadOn(n)' ELSE NothingLost(n)'
  PROVE  Brought(n)'
<1>1. Of(n)' = Of(n)
  BY DEF Of
<1>2. \A i \in Of(n) : Meant(i, n)' <=> Sensible(upds[i].should, before[n]) /\ sys'[n] # "unknown"
  BY DEF Meant
<1> QED BY <1>1, <1>2 DEF Brought

LEMMA Untouched ==
  ASSUME NEW n, Brought(n), upds' = upds, before' = before, sys'[n] = sys[n], chgs'[n] = chgs[n],
         \A i \in Of(n) : Past(i)' => Past(i), \A i \in Of(n) : Past(i) => Past(i)',
         ~(pc = "update" /\ next \in Of(n)), ~(pc' = "update" /\ next' \in Of(n))
  PROVE  Brought(n)'
<1>1. Of(n)' = Of(n)
  BY DEF Of
<1>2. \A i \in Of(n) : Meant(i, n)' <=> Meant(i, n)
  BY DEF Meant
<1>3. Current(n)' <=> Current(n)
  BY DEF Current
<1>4. NothingLost(n)' <=> NothingLost(n)
  BY DEF NothingLost, Gained
<1>5. \A i \in Of(n) : Meant(i, n) => (Past(i) => AsAsked(upds[i].should, sys[n])) /\ Current(n) /\ NothingLost(n)
  BY DEF Brought
<1>6. \A i \in Of(n) : Meant(i, n)' =>
        /\ Past(i)' => AsAsked(upds'[i].should, sys'[n])
        /\ Current(n)'
        /\ NothingLost(n)'
  BY <1>2, <1>3, <1>4, <1>5
<1>7. (\A i \in Of(n) : ~Past(i)') => sys'[n] = before'[n] /\ chgs'[n] = <<>>
  BY DEF Brought
<1>8. sys'[n] = "unknown" <=> before'[n] = "unknown"
  BY DEF Brought
<1> QED BY <1>1, <1>6, <1>7, <1>8 DEF Brought

LEMMA PairedSame ==
  ASSUME Paired, UNCHANGED <<upds, shoulds, before>>
  PROVE  Paired'
BY DEF Paired, AsBefore

LEMMA LookupProgress ==
  ASSUME Shape, LookedUp, LookupDone
  PROVE  Progress'
<1>1. /\ pc \in {"find", "list"} /\ mode # "failed" /\ pc' = "set"
      /\ UNCHANGED <<sys, shoulds, before, faults, chgs, next>>
  BY DEF LookupDone, Ended, script
<1> SUFFICES ASSUME faults = {} PROVE Paired' /\ \A n \in Name : Brought(n)'
  BY <1>1 DEF Progress
<1>2. \A i \in DOMAIN res : AsBefore(res[i])
  BY <1>1 DEF LookedUp
<1>3. PICK iss \in Seq(Found) : iss \in {<<>>, res} /\ upds' = Pair(shoulds, iss, Attr)
  BY LookupPairs
<1> DEFINE R == {r \in Found : AsBefore(r)}
           U == {x \in Updates : /\ x.is \in R /\ UpdateName(x) = x.should.name
                                 /\ \E j \in DOMAIN shoulds : x.should = shoulds[j]}
<1>4. shoulds \in Seq(PackageShould) /\ DOMAIN shoulds = 1..Len(shoulds)
  BY ShapeFacts
<1>5. iss \in Seq(R)
  <2>1. DOMAIN iss = 1..Len(iss) /\ Len(iss) \in Nat /\ \A i \in DOMAIN iss : iss[i] \in Found
    BY <1>3
  <2>2. \A i \in DOMAIN iss : AsBefore(iss[i])
    <3>1. DOMAIN <<>> = {}
      OBVIOUS
    <3> QED BY <1>2, <1>3, <3>1
  <2> HIDE DEF R
  <2>3. \A i \in 1..Len(iss) : iss[i] \in R
    BY <2>1, <2>2 DEF R
  <2> QED BY <1>3, <2>1, <2>3
<1>6. \A n \in Name : Blank(n, Attr) \in R
  BY DEF Blank, Resource, Found, Value, AsBefore
<1>7. R \in SUBSET Found
  OBVIOUS
<1> HIDE DEF R
<1>8. upds' \in Seq(U)
  BY <1>3, <1>4, <1>5, <1>6, <1>7, PairBatch
<1> HIDE DEF U
<1>9. \A j \in DOMAIN shoulds : \E k \in 1..Len(upds') : upds'[k].should = shoulds[j]
  BY <1>3, <1>4, <1>5, PairHolds
<1>10. DOMAIN upds' = 1..Len(upds') /\ \A i \in DOMAIN upds' : upds'[i] \in U
  BY <1>8
<1>11. Paired'
  <2>1. ASSUME NEW i \in DOMAIN upds'
        PROVE  /\ \A a \in Attr : upds'[i].is.attrs[a] \in {None, Attrs(before[upds'[i].is.name])[a]}
               /\ \E j \in DOMAIN shoulds : upds'[i].should = shoulds[j]
               /\ upds'[i].is.name = upds'[i].should.name
    BY <1>10 DEF U, R, AsBefore, UpdateName
  <2> QED BY <1>1, <1>9, <1>10, <2>1 DEF Paired, AsBefore, UpdateName
<1>12. ASSUME NEW n \in Name PROVE Brought(n)'
  <2>1. before = sys /\ next = 1 /\ chgs[n] = <<>>
    BY <1>1 DEF Shape
  <2>2. \A i \in Of(n)' : ~Past(i)'
    BY <1>1, <1>10, <2>1 DEF Of, Past
  <2>3. Current(n)' /\ NothingLost(n)'
    <3>1. DOMAIN <<>> = {}
      OBVIOUS
    <3> QED BY <1>1, <2>1, <3>1 DEF Current, NothingLost, Gained
  <2> QED BY <1>1, <2>1, <2>2, <2>3 DEF Brought
<1> QED BY <1>11, <1>12

LEMMA NothingProgress ==
  ASSUME Shape, Progress, NothingToDo
  PROVE  Progress'
<1>1. /\ pc = "set" /\ next \in DOMAIN upds /\ next' = next + 1 /\ \A a \in Attr : Args[a] = None
      /\ UNCHANGED <<sys, pc, mode, shoulds, upds, before, faults, chgs, outcome>>
  BY DEF NothingToDo, Processing, script
<1> SUFFICES ASSUME faults = {}, Distinct PROVE \A n \in Name : Brought(n)'
  BY <1>1, PairedSame DEF Progress, Distinct
<1>2. Paired /\ \A n \in Name : Brought(n)
  BY <1>1 DEF Progress
<1>3. next \in Nat /\ DOMAIN upds \subseteq Nat
  BY <1>1, ShapeFacts
<1> SUFFICES ASSUME NEW n \in Name PROVE Brought(n)'
  OBVIOUS
<1>4. CASE next \notin Of(n)
  <2>1. \A i \in Of(n) : (Past(i)' => Past(i)) /\ (Past(i) => Past(i)')
    BY <1>1, <1>3, <1>4 DEF Past, Of
  <2> QED BY <1>1, <1>2, <1>4, <2>1, Untouched
<1>5. CASE next \in Of(n)
  <2>1. \E i \in Of(n) : Past(i)'
    BY <1>1, <1>3, <1>5 DEF Past
  <2>2. ASSUME NEW i \in Of(n), Meant(i, n) PROVE AsAsked(upds[i].should, sys[n])
    <3>1. CASE sys[n] = before[n]
      <4>1. upds[i].should = u.should
        BY <1>2, <1>5, SameShould DEF u
      <4>2. \A a \in Attr : u.should.attrs[a] \in {None, u.is.attrs[a]}
        BY <1>1, ArgsFacts
      <4>3. \A a \in Attr : u.is.attrs[a] \in {None, Attrs(before[n])[a]}
        BY <1>2, <1>5, KnownBefore DEF u
      <4> QED BY <3>1, <4>1, <4>2, <4>3 DEF AsAsked
    <3> QED BY <1>1, <1>2, <2>2, <3>1, AskedOrBefore
  <2>3. \A i \in Of(n) : Meant(i, n) => Current(n) /\ NothingLost(n)
    BY <1>1, <1>2 DEF Brought
  <2>4. Current(n)' <=> Current(n)
    BY <1>1 DEF Current
  <2>5. NothingLost(n)' <=> NothingLost(n)
    BY <1>1 DEF NothingLost, Gained
  <2>6. sys'[n] = "unknown" <=> before[n] = "unknown"
    BY <1>1, <1>2 DEF Brought
  <2>7. \A i \in Of(n) : Sensible(upds[i].should, before[n]) /\ sys'[n] # "unknown" => Meant(i, n)
    BY <1>1 DEF Meant
  <2>8. upds' = upds /\ before' = before /\ sys' = sys /\ pc' = "set"
    BY <1>1
  <2> QED BY <2>1, <2>2, <2>3, <2>4, <2>5, <2>6, <2>7, <2>8, Touched
<1> QED BY <1>4, <1>5

\* What a run prints that brought a package to state s.
LEMMA RunTells ==
  ASSUME Shape, NEW n \in Name, NEW s \in PackageState, s # "unknown",
         NEW text \in Reports(n, Args, s), NEW t, ScriptRuns(text, n, s, t), faults' = {}
  PROVE  /\ sys'[n] = s
         /\ \A i \in DOMAIN out' : out'[i].key \in Attr => out'[i].value = Attrs(s)[out'[i].key]
         /\ \A i \in DOMAIN out' : out'[i].key # "ral_unknown"
         /\ \A a \in Attr : Attrs(s)[a] \notin {None, Attrs(sys[n])[a]} =>
              \/ \E i \in DOMAIN out' : out'[i].key = a
              \/ (\E i \in DOMAIN out' : out'[i].key = "ral_derive") /\ Args[a] = Attrs(s)[a]
<1>1. sys \in [Name -> PackageState] /\ sys[n] \in PackageState
  BY ShapeFacts
<1>2. /\ text \in Seq(Telling(s))
      /\ \A a \in Attr : Attrs(s)[a] \notin {None, Attrs(sys[n])[a]} =>
           Has(text, a) \/ (Has(text, "ral_derive") /\ Args[a] = Attrs(s)[a])
  BY <1>1, ReportsFacts
<1>3. text \in Seq(EntryLine)
  <2>1. Telling(s) \subseteq EntryLine
    BY DEF Telling
  <2> QED BY <1>2, <2>1
<1> DEFINE full == <<Header>> \o text
<1>4. /\ out' = full /\ full \in Seq(AnyLine) /\ Len(full) = Len(text) + 1 /\ Len(text) \in Nat
      /\ full[1] = Header /\ sys' = [sys EXCEPT ![n] = s]
      /\ \A i \in 1..Len(text) : full[i + 1] = text[i] /\ text[i] \in EntryLine
      /\ \A i \in 2..Len(text) + 1 : i - 1 \in 1..Len(text) /\ full[i] = text[i - 1]
  BY <1>3, RunsWell
<1> HIDE DEF full
<1>5. DOMAIN full = 1..Len(text) + 1
  BY <1>4
<1>6. \A key : Has(text, key) => \E i \in DOMAIN full : full[i].key = key
  <2> SUFFICES ASSUME NEW key, NEW i \in 1..Len(text), text[i].key = key
               PROVE  \E k \in DOMAIN full : full[k].key = key
    BY DEF Has
  <2>1. i + 1 \in DOMAIN full /\ full[i + 1].key = key
    BY <1>4, <1>5
  <2> QED BY <2>1
<1>7. ASSUME NEW i \in DOMAIN full
      PROVE  full[i].key # "ral_unknown" /\ (full[i].key \in Attr => full[i].value = Attrs(s)[full[i].key])
  <2>1. CASE i = 1
    BY <1>4, <2>1, LinesDiffer, AttrIs
  <2>2. CASE i # 1
    <3>1. i \in 2..Len(text) + 1
      BY <1>4, <1>5, <2>2
    <3>2. full[i] \in Telling(s)
      BY <1>2, <1>4, <3>1
    <3> QED BY <3>2, AttrIs DEF Telling
  <2> QED BY <2>1, <2>2
<1>8. sys'[n] = s
  BY <1>1, <1>4
<1> QED BY <1>2, <1>4, <1>6, <1>7, <1>8

LEMMA RunProgress ==
  ASSUME Shape, Progress, RunUpdate
  PROVE  Progress'
<1>1. /\ pc = "set" /\ next \in DOMAIN upds /\ pc' = "update"
      /\ UNCHANGED <<shoulds, upds, next, before, chgs, outcome>>
  BY DEF RunUpdate, Processing
<1> SUFFICES ASSUME faults' = {} PROVE Paired' /\ (Distinct => \A n \in Name : Brought(n)')
  BY <1>1 DEF Progress, Distinct
<1> DEFINE m == UpdateName(u)
<1>2. /\ m \in Name
      /\ \E s \in Results(sys[m], Args) : \E text \in Reports(m, Args, s) :
           /\ s \in PackageState /\ (s = "unknown" <=> sys[m] = "unknown")
           /\ text \in Seq(EntryLine) /\ ScriptRuns(text, m, s, sys[m])
  BY UpdateRuns
<1>3. PICK s \in Results(sys[m], Args) : \E text \in Reports(m, Args, s) :
        /\ s \in PackageState /\ (s = "unknown" <=> sys[m] = "unknown")
        /\ text \in Seq(EntryLine) /\ ScriptRuns(text, m, s, sys[m])
  BY <1>2
<1>4. PICK text \in Reports(m, Args, s) :
        /\ s \in PackageState /\ (s = "unknown" <=> sys[m] = "unknown")
        /\ text \in Seq(EntryLine) /\ ScriptRuns(text, m, s, sys[m])
  BY <1>3
<1>5. next \in Of(m) /\ \A n : next \in Of(n) => n = m
  BY <1>1 DEF Of, u
<1> HIDE DEF m
<1>6. faults = {} /\ sys' = [sys EXCEPT ![m] = s]
  BY <1>4, RunsWell
<1>7. Paired /\ (Distinct => \A n \in Name : Brought(n))
  BY <1>1, <1>6 DEF Progress
<1>8. Paired'
  BY <1>1, <1>7, PairedSame
<1> SUFFICES ASSUME Distinct, NEW n \in Name PROVE Brought(n)'
  BY <1>8
<1>9. sys \in [Name -> PackageState] /\ DOMAIN upds \subseteq Nat /\ next \in Nat
  BY <1>1, ShapeFacts
<1>10. CASE n # m
  <2>1. sys'[n] = sys[n]
    BY <1>6, <1>9, <1>10
  <2>2. next \notin Of(n)
    BY <1>5, <1>10
  <2>3. \A i \in Of(n) : (Past(i)' => Past(i)) /\ (Past(i) => Past(i)')
    BY <1>1, <1>9, <2>2 DEF Past, Of
  <2> QED BY <1>1, <1>7, <2>1, <2>2, <2>3, Untouched
<1>11. CASE n = m
  <2> USE <1>11
  <2>1. sys'[n] = s /\ (s = "unknown" <=> before[n] = "unknown")
    BY <1>4, <1>6, <1>7, <1>9 DEF Brought
  <2>2. \E i \in Of(n) : Past(i)'
    BY <1>1, <1>5 DEF Past
  <2>3. ASSUME NEW i \in Of(n), Sensible(upds[i].should, before[n]), s # "unknown"
        PROVE  AsAsked(upds[i].should, s) /\ Current(n)' /\ ReadOn(n)'
    <3>1. sys[n] \in PackageState /\ sys[n] # "unknown" /\ before[n] \in PackageState /\ before[n] # "unknown"
      BY <1>4, <2>1, <2>3, ShapeFacts
    <3>2. Meant(i, n) /\ upds[i].should = u.should
      BY <1>5, <1>7, <2>3, <3>1, SameShould DEF Meant, u
    <3> DEFINE w == u.should
    <3>3. /\ PartOf(Args, w) /\ Args = [a \in Attr |-> Args[a]] /\ w \in PackageShould
          /\ \A a \in Attr : Args[a] = None => w.attrs[a] \in {None, u.is.attrs[a]}
      BY <1>1, ArgsFacts
    <3>4. /\ \A k \in DOMAIN out' : out'[k].key \in Attr => out'[k].value = Attrs(sys'[n])[out'[k].key]
          /\ \A k \in DOMAIN out' : out'[k].key # "ral_unknown"
          /\ \A a \in Attr : Attrs(sys'[n])[a] \notin {None, Attrs(sys[n])[a]} =>
               \/ \E k \in DOMAIN out' : out'[k].key = a
               \/ (\E k \in DOMAIN out' : out'[k].key = "ral_derive") /\ Args'[a] = Attrs(sys'[n])[a]
      <4>1. Args' = Args
        BY <1>1 DEF Args, u
      <4> QED BY <1>4, <2>1, <2>3, <4>1, RunTells
    <3> HIDE DEF w
    <3>5. CASE AsAsked(w, sys[n])
      <4>1. s = sys[n]
        BY <1>3, <3>1, <3>3, <3>5, ResultsStay
      <4>2. Current(n) /\ NothingLost(n)
        BY <1>1, <1>7, <3>2 DEF Brought
      <4>3. Current(n)'
        BY <1>1, <2>1, <4>1, <4>2 DEF Current
      <4>4. ReadOn(n)'
        BY <1>1, <2>1, <3>4, <4>1, <4>2 DEF ReadOn, NothingLost, Gained
      <4> QED BY <3>2, <3>5, <4>1, <4>3, <4>4 DEF w
    <3>6. CASE sys[n] = before[n] /\ chgs[n] = <<>>
      <4>1. \A a \in Attr : Args[a] = None => w.attrs[a] \in {None, Attrs(sys[n])[a]}
        BY <1>5, <1>7, <3>3, <3>6, KnownBefore DEF u, w
      <4>2. Sensible(w, sys[n])
        BY <2>3, <3>2, <3>6 DEF w
      <4>3. AsAsked(w, s)
        BY <1>3, <3>1, <3>3, <4>1, <4>2, ResultsAsAsked
      <4>4. Current(n)'
        <5>1. DOMAIN <<>> = {}
          OBVIOUS
        <5> QED BY <1>1, <3>6, <5>1 DEF Current
      <4>5. ReadOn(n)'
        BY <1>1, <3>4, <3>6 DEF ReadOn, Gained
      <4> QED BY <3>2, <4>3, <4>4, <4>5 DEF w
    <3> QED BY <1>1, <1>7, <3>2, <3>5, <3>6, AskedOrBefore DEF w
  <2> QED BY <1>1, <1>5, <2>1, <2>2, <2>3, Touched
<1> QED BY <1>10, <1>11

\* A line that is read is on record or told nothing.
LEMMA ReadOnTail ==
  ASSUME Shape, Reading, NEW n, ReadOn(n), out' = Tail(out), UNCHANGED <<sys, before, upds, next>>,
         \A a \in Attr : Exists(chgs[n], a) \/ line.key = a => Exists(chgs'[n], a),
         derive \/ line.key = "ral_derive" => derive'
  PROVE  ReadOn(n)'
<1>1. /\ line = out[1] /\ Len(out) \in Nat \ {0} /\ DOMAIN out = 1..Len(out)
      /\ DOMAIN out' = 1..Len(out) - 1 /\ \A i \in 1..Len(out) - 1 : out'[i] = out[i + 1]
  BY ReadFacts
<1>2. \A i \in DOMAIN out' : i + 1 \in DOMAIN out /\ out'[i] = out[i + 1]
  BY <1>1
<1>3. \A key : (\E i \in DOMAIN out : out[i].key = key) => line.key = key \/ \E i \in DOMAIN out' : out'[i].key = key
  <2> SUFFICES ASSUME NEW key, NEW i \in DOMAIN out, out[i].key = key, i # 1
               PROVE  \E k \in DOMAIN out' : out'[k].key = key
    BY <1>1
  <2>1. i - 1 \in DOMAIN out' /\ (i - 1) + 1 = i
    BY <1>1
  <2> QED BY <1>2, <2>1
<1>4. Args' = Args
  BY DEF Args, u
<1>5. \A a \in Attr : Gained(n, a)' => Gained(n, a)
  BY DEF Gained
<1>6. /\ \A i \in DOMAIN out' : out'[i].key \in Attr => out'[i].value = Attrs(sys'[n])[out'[i].key]
      /\ \A i \in DOMAIN out' : out'[i].key # "ral_unknown"
  BY <1>2 DEF ReadOn
<1>7. ASSUME NEW a \in Attr, Gained(n, a)'
      PROVE  \/ Exists(chgs'[n], a)
             \/ \E i \in DOMAIN out' : out'[i].key = a
             \/ (derive' \/ \E i \in DOMAIN out' : out'[i].key = "ral_derive") /\ Args'[a] = Attrs(sys'[n])[a]
  <2>1. \/ Exists(chgs[n], a)
        \/ \E i \in DOMAIN out : out[i].key = a
        \/ (derive \/ \E i \in DOMAIN out : out[i].key = "ral_derive") /\ Args[a] = Attrs(sys[n])[a]
    BY <1>5, <1>7 DEF ReadOn
  <2> QED BY <1>3, <1>4, <2>1
<1> QED BY <1>6, <1>7 DEF ReadOn

LEMMA ReadProgress ==
  ASSUME Shape, Progress, pc = "update", Reading, out' = Tail(out), faults' = faults, pc' = pc,
         UNCHANGED <<sys, shoulds, before, upds, next, outcome>>,
         \A n \in Name : n # UpdateName(u) => chgs'[n] = chgs[n],
         LET n == UpdateName(u) IN
         faults = {} /\ Current(n) /\ ReadOn(n) =>
           /\ \A k \in DOMAIN chgs'[n] :
                chgs'[n][k].attr \in Attr /\ chgs'[n][k].is = Attrs(sys[n])[chgs'[n][k].attr]
           /\ \A a \in Attr : Exists(chgs[n], a) \/ line.key = a => Exists(chgs'[n], a),
         derive \/ line.key = "ral_derive" => derive'
  PROVE  Progress'
<1> SUFFICES ASSUME faults = {}, Distinct PROVE \A n \in Name : Brought(n)'
  BY PairedSame DEF Progress, Distinct
<1>1. Paired /\ \A n \in Name : Brought(n)
  BY DEF Progress
<1>2. next \in DOMAIN upds /\ mode # "failed"
  BY DEF Shape, Reading
<1>3. \A i : Past(i)' <=> Past(i)
  BY DEF Past
<1> SUFFICES ASSUME NEW n \in Name PROVE Brought(n)'
  OBVIOUS
<1>4. next \in Of(n) <=> n = UpdateName(u)
  BY <1>2 DEF Of, u
<1>5. CASE next \notin Of(n)
  BY <1>1, <1>3, <1>4, <1>5, Untouched
<1>6. CASE next \in Of(n)
  <2>1. ASSUME NEW i \in Of(n), Sensible(upds[i].should, before[n]), sys[n] # "unknown"
        PROVE  AsAsked(upds[i].should, sys[n]) /\ Current(n)' /\ ReadOn(n)'
    <3>1. AsAsked(upds[i].should, sys[n]) /\ Current(n) /\ ReadOn(n)
      BY <1>1, <1>2, <1>6, <2>1, AskedNow DEF Meant
    <3>2. Current(n)'
      BY <1>4, <1>6, <3>1 DEF Current
    <3>3. ReadOn(n)'
      BY <1>4, <1>6, <3>1, ReadOnTail
    <3> QED BY <3>1, <3>2, <3>3
  <2>2. \E i \in Of(n) : Past(i)'
    BY <1>3, <1>6 DEF Past
  <2>3. sys'[n] = "unknown" <=> before[n] = "unknown"
    BY <1>1 DEF Brought
  <2> QED BY <1>6, <2>1, <2>2, <2>3, Touched
<1> QED BY <1>5, <1>6

LEMMA ReadChangeProgress ==
  ASSUME Shape, Clean, Progress, ReadChange
  PROVE  Progress'
<1> USE DEF EntryDue, EntryRead
<1> DEFINE n == UpdateName(u)
           c == chgs[n]
           last == Len(c)
<1>1. /\ pc = "update" /\ Reading /\ out' = Tail(out) /\ faults' = faults /\ pc' = pc /\ mode = "entries"
      /\ UNCHANGED <<sys, shoulds, before, upds, next, outcome>> /\ line # ErrorLine
  BY DEF ReadChange, call
<1>2. n \in Name /\ chgs \in [Name -> Seq(Noted)] /\ c \in Seq(Noted) /\ last \in Nat /\ DOMAIN c = 1..last
  <2>1. next \in DOMAIN upds
    BY <1>1 DEF Shape
  <2> QED BY <2>1, ShapeFacts DEF u
<1>3. line = out[1] /\ 1 \in DOMAIN out
  BY <1>1, ReadFacts
<1>4. line.key \in {"ral_unknown", "ral_derive"} => line.value = "true"
  BY <1>1, LineValue
<1>5. line.key \in {"name", "ral_unknown", "ral_derive", "ral_was", "junk"} \cup Attr
  BY <1>1, LineValue
<1>6. line.key = "junk" <=> line = Junk
  BY <1>1, LineValue
<1> HIDE DEF n
<1>7. /\ \A m \in Name : m # n => chgs'[m] = chgs[m]
      /\ derive \/ line.key = "ral_derive" => derive'
  <2>1. derive \/ line.key = "ral_derive" => derive'
    BY <1>4 DEF ReadChange
  <2>2. chgs' = chgs \/ \E x : chgs' = [chgs EXCEPT ![n] = x]
    BY DEF ReadChange, n
  <2> QED BY <1>2, <2>1, <2>2
<1>8. ASSUME faults = {}, Current(n), ReadOn(n)
      PROVE  /\ \A k \in DOMAIN chgs'[n] :
                  chgs'[n][k].attr \in Attr /\ chgs'[n][k].is = Attrs(sys[n])[chgs'[n][k].attr]
             /\ \A a \in Attr : Exists(c, a) \/ line.key = a => Exists(chgs'[n], a)
  <2>1. \A k \in DOMAIN c : c[k].attr \in Attr /\ c[k].is = Attrs(sys[n])[c[k].attr]
    BY <1>8 DEF Current
  <2>2. line.key # "junk" /\ line.key # "ral_unknown"
    BY <1>1, <1>3, <1>6, <1>8 DEF Clean, Reading, ReadOn
  <2>3. line.key \in Attr => line.value = Attrs(sys[n])[line.key]
    BY <1>3, <1>8 DEF ReadOn
  <2>4. CASE line.key \in {"ral_derive", "name"} /\ chgs' = chgs
    BY <2>1, <2>4, AttrIs
  <2>5. CASE line.key = "ral_was" /\ last > 0 /\ chgs' = [chgs EXCEPT ![n][last].was = line.value]
    <3> DEFINE x == [c[last] EXCEPT !.was = line.value]
               d == chgs'[n]
    <3>1. last \in DOMAIN c /\ c[last] \in Noted
      BY <1>2, <2>5
    <3>2. x.attr = c[last].attr /\ x.is = c[last].is
      BY <3>1 DEF Noted
    <3>3. chgs' = [chgs EXCEPT ![n] = [c EXCEPT ![last] = x]]
      BY <2>5
    <3> HIDE DEF x, c
    <3>4. d = [c EXCEPT ![last] = x]
      BY <1>2, <3>3
    <3>5. DOMAIN d = DOMAIN c /\ d[last] = x /\ \A k \in DOMAIN c : k # last => d[k] = c[k]
      BY <1>2, <3>1, <3>4
    <3> HIDE DEF d, last
    <3>6. \A k \in DOMAIN c : d[k].attr = c[k].attr /\ d[k].is = c[k].is
      BY <3>2, <3>5
    <3>7. \A a : Exists(c, a) => Exists(d, a)
      BY <3>5, <3>6 DEF Exists
    <3>8. \A k \in DOMAIN d : d[k].attr \in Attr /\ d[k].is = Attrs(sys[n])[d[k].attr]
      BY <2>1, <3>5, <3>6
    <3> QED BY <2>5, <3>7, <3>8, AttrIs DEF d
  <2>6. CASE /\ line.key \in Attr
             /\ chgs' = [chgs EXCEPT ![n] = Append(@, Change(line.key, line.value, None))]
    <3> DEFINE x == Change(line.key, line.value, None)
               d == chgs'[n]
    <3>1. x.attr = line.key /\ x.is = line.value
      BY DEF Change
    <3> HIDE DEF x
    <3>2. d = Append(c, x)
      BY <1>2, <2>6 DEF x
    <3> HIDE DEF d, c
    <3>3. /\ DOMAIN d = 1..last + 1 /\ d[last + 1] = x /\ \A k \in DOMAIN c : d[k] = c[k]
      BY <1>2, <3>2
    <3>4. \A k \in DOMAIN d : k \in DOMAIN c \/ k = last + 1
      BY <1>2, <3>3
    <3>5. last + 1 \in DOMAIN d /\ \A k \in DOMAIN c : k \in DOMAIN d
      BY <1>2, <3>3
    <3> HIDE DEF last
    <3>6. \A k \in DOMAIN d : d[k].attr \in Attr /\ d[k].is = Attrs(sys[n])[d[k].attr]
      BY <2>1, <2>3, <2>6, <3>1, <3>3, <3>4
    <3>7. \A a : Exists(c, a) \/ line.key = a => Exists(d, a)
      BY <3>1, <3>3, <3>5 DEF Exists
    <3> QED BY <3>6, <3>7 DEF d
  <2> QED BY <1>5, <2>2, <2>4, <2>5, <2>6 DEF ReadChange, n
<1> QED BY <1>1, <1>7, <1>8, ReadProgress DEF n

\* The changes of an update that succeeded.
LEMMA DoneProgress ==
  ASSUME Shape, Progress, UpdateDone
  PROVE  Progress'
<1> DEFINE n == UpdateName(u)
           c == chgs[n]
<1>1. /\ pc = "update" /\ pc' = "set" /\ next \in DOMAIN upds /\ next' = next + 1 /\ out = <<>> /\ mode # "failed"
      /\ chgs' = [chgs EXCEPT ![n] = IF derive THEN MaybeAdd(@, AttrSeq, u) ELSE @]
      /\ UNCHANGED <<sys, shoulds, upds, before, faults, outcome>>
  BY DEF UpdateDone, Ended, Shape, script
<1> SUFFICES ASSUME faults = {}, Distinct PROVE \A m \in Name : Brought(m)'
  BY <1>1, PairedSame DEF Progress, Distinct
<1>2. Paired /\ \A m \in Name : Brought(m)
  BY <1>1 DEF Progress
<1>3. /\ n \in Name /\ chgs \in [Name -> Seq(Noted)] /\ c \in Seq(Noted)
      /\ next \in Nat /\ DOMAIN upds \subseteq Nat
  BY <1>1, ShapeFacts, ArgsFacts
<1>4. \A m : next \in Of(m) <=> m = n
  BY <1>1 DEF Of, u
<1> HIDE DEF n
<1> SUFFICES ASSUME NEW m \in Name PROVE Brought(m)'
  OBVIOUS
<1>5. \A i \in Of(m) : (Past(i)' => Past(i)) /\ (Past(i) => Past(i)')
  BY <1>1, <1>3 DEF Past, Of
<1>6. CASE m # n
  <2>1. chgs'[m] = chgs[m]
    BY <1>1, <1>3, <1>6
  <2>2. ~(pc' = "update") /\ next \notin Of(m)
    BY <1>1, <1>4, <1>6
  <2> QED BY <1>1, <1>2, <1>5, <2>1, <2>2, Untouched
<1>7. CASE m = n
  <2> USE <1>7
  <2>0. next \in Of(m)
    BY <1>4
  <2>1. ASSUME NEW i \in Of(m), Sensible(upds[i].should, before[m]), sys[m] # "unknown"
        PROVE  AsAsked(upds[i].should, sys[m]) /\ Current(m)' /\ NothingLost(m)'
    <3>1. AsAsked(upds[i].should, sys[m]) /\ Current(m) /\ ReadOn(m)
      BY <1>1, <1>2, <2>0, <2>1, AskedNow DEF Meant
    <3>2. upds[i].should = u.should
      BY <1>2, <2>0, SameShould DEF u
    <3>3. \A a \in Attr : Gained(m, a) =>
            Exists(c, a) \/ (derive /\ Args[a] = Attrs(sys[m])[a])
      <4>1. DOMAIN <<>> = {}
        OBVIOUS
      <4> QED BY <1>1, <3>1, <4>1 DEF ReadOn
    <3> DEFINE T == {x \in Noted : x.attr \in Attr /\ x.is = Attrs(sys[m])[x.attr]}
    <3>4. c \in Seq(T)
      <4>1. \A k \in DOMAIN c : c[k] \in Noted
        BY <1>3
      <4>2. \A k \in DOMAIN c : c[k] \in T
        BY <3>1, <4>1 DEF Current
      <4> HIDE DEF T, c
      <4> QED BY <1>3, <4>2
    <3>5. \A d \in Seq(T) : \A k \in DOMAIN d : d[k].attr \in Attr /\ d[k].is = Attrs(sys[m])[d[k].attr]
      <4>1. \A d \in Seq(T) : \A k \in DOMAIN d : d[k] \in T
        BY DEF T
      <4> QED BY <4>1
    <3>6. CASE ~derive
      <4>1. chgs'[m] = c
        BY <1>1, <1>3, <3>6
      <4>2. Current(m)'
        BY <1>1, <3>1, <4>1 DEF Current
      <4>3. NothingLost(m)'
        BY <1>1, <3>3, <3>6, <4>1 DEF NothingLost, Gained
      <4> QED BY <3>1, <4>2, <4>3
    <3>7. CASE derive
      <4> DEFINE d == MaybeAdd(c, AttrSeq, u)
                 due == DueAttrs(AttrSeq, u)
      <4>1. chgs'[m] = d
        BY <1>1, <1>3, <3>7
      <4>2. AttrSeq \in Seq(Attr) /\ AttrSeq = <<"ensure", "version">> /\ "ensure" \in Attr
        BY AttrIs DEF AttrSeq
      <4>3. \A a \in Attr : Changed(u, a) => Diff(u, a) \in T
        <5> SUFFICES ASSUME NEW a \in Attr, Changed(u, a) PROVE Diff(u, a) \in T
          OBVIOUS
        <5>1. u.should.attrs[a] = Attrs(sys[m])[a]
          BY <3>1, <3>2 DEF AsAsked, Changed
        <5>2. u.should.attrs[a] \in Value /\ u.is.attrs[a] \in Value
          <6>1. u.should \in PackageShould /\ u.is \in Found
            BY <1>1, ArgsFacts
          <6> QED BY <6>1, AttrIs, ShouldType DEF Value, Found
        <5> QED BY <5>1, <5>2 DEF Diff, Change, Noted
      <4> HIDE DEF T
      <4>4. /\ d \in Seq(T) /\ \A a : Exists(c, a) => Exists(d, a)
            /\ \A i1 \in 1..Len(due) : Changed(u, due[i1]) => Exists(d, due[i1])
        BY <3>4, <4>2, <4>3, MaybeAddFacts
      <4> HIDE DEF d
      <4>5. Current(m)'
        BY <1>1, <3>5, <4>1, <4>4 DEF Current
      <4>6. ASSUME NEW a \in Attr, Gained(m, a) PROVE Exists(d, a)
        <5>1. Exists(c, a) \/ u.should.attrs[a] # None
          BY <1>1, <3>3, <4>6, ArgsFacts DEF Gained
        <5>2. sys[m] \in PackageState /\ before[m] \in PackageState /\ before[m] # "unknown"
          BY <1>2, <2>1, ShapeFacts DEF Brought
        <5>3. u.should \in PackageShould /\ Sensible(u.should, before[m]) /\ AsAsked(u.should, sys[m])
          BY <1>1, <2>1, <3>1, <3>2, ArgsFacts
        <5>4. \A b \in Attr : u.is.attrs[b] \in {None, Attrs(before[m])[b]}
          BY <1>2, <2>0, KnownBefore DEF u
        <5>5. Attrs(sys[m])[a] \notin {None, Attrs(before[m])[a]}
          BY <4>6 DEF Gained
        <5> QED BY <3>4, <4>3, <5>1, <5>2, <5>3, <5>4, <5>5, DueTruthful DEF d
      <4>7. NothingLost(m)'
        BY <1>1, <4>1, <4>6 DEF NothingLost, Gained
      <4> QED BY <3>1, <4>5, <4>7
    <3> QED BY <3>6, <3>7
  <2>2. \E i \in Of(m) : Past(i)'
    BY <1>1, <1>3, <2>0 DEF Past
  <2>3. sys'[m] = "unknown" <=> before[m] = "unknown"
    BY <1>1, <1>2, <1>3 DEF Brought
  <2> QED BY <1>1, <2>1, <2>2, <2>3, Touched
<1> QED BY <1>6, <1>7

LEMMA FinishProgress ==
  ASSUME Shape, Progress, Finish
  PROVE  Progress'
<1>1. /\ pc = "set" /\ pc' = "returned"
      /\ UNCHANGED <<sys, shoulds, upds, next, before, faults, chgs>>
  BY DEF Finish, Give, script, call
<1> SUFFICES ASSUME faults = {}, Distinct PROVE \A n \in Name : Brought(n)'
  BY <1>1, PairedSame DEF Progress, Distinct
<1>2. \A i : Past(i)' <=> Past(i)
  BY <1>1 DEF Past
<1>3. Paired /\ \A n \in Name : Brought(n)
  BY <1>1 DEF Progress
<1> QED BY <1>1, <1>2, <1>3, Untouched

LEMMA ProgressStep ==
  ASSUME Shape, Clean, LookedUp, Progress, [SimpleNext]_simpleVars
  PROVE  Progress'
<1>1. CASE ReadHeader
  <2>1. CASE pc = "update"
    <3>1. /\ Reading /\ out' = Tail(out)
          /\ UNCHANGED <<faults, pc, sys, shoulds, before, upds, next, outcome, chgs, derive>>
      BY <1>1 DEF ReadHeader, call
    <3>2. CASE mode' # "failed"
      <4>1. line = Header
        BY <1>1, <3>2 DEF ReadHeader
      <4>2. line.key # "ral_derive" /\ \A a \in Attr : line.key # a
        BY <4>1, LinesDiffer, AttrIs
      <4> QED BY <2>1, <3>1, <4>2, ReadProgress DEF Current
    <3>3. CASE mode' = "failed"
      <4> SUFFICES ASSUME faults = {}, Distinct PROVE \A n \in Name : Brought(n)'
        BY <3>1, PairedSame DEF Progress, Distinct
      <4>1. Paired /\ \A n \in Name : Brought(n)
        BY <2>1, <3>1 DEF Progress
      <4> SUFFICES ASSUME NEW n \in Name PROVE Brought(n)'
        OBVIOUS
      <4>2. \A i : Past(i)' <=> Past(i)
        BY <3>1 DEF Past
      <4>3. CASE next \notin Of(n)
        BY <3>1, <4>1, <4>2, <4>3, Untouched
      <4>4. CASE next \in Of(n)
        <5>1. \E i \in Of(n) : Past(i)'
          BY <2>1, <4>2, <4>4 DEF Past
        <5>2. ASSUME NEW i \in Of(n), Sensible(upds[i].should, before[n]), sys[n] # "unknown"
              PROVE  AsAsked(upds[i].should, sys[n]) /\ Current(n)'
          <6>1. AsAsked(upds[i].should, sys[n]) /\ Current(n)
            BY <2>1, <4>1, <4>4, <5>2, AskedNow DEF Meant
          <6> QED BY <3>1, <6>1 DEF Current
        <5>3. sys'[n] = "unknown" <=> before[n] = "unknown"
          BY <3>1, <4>1 DEF Brought
        <5> QED BY <2>1, <3>1, <3>3, <4>4, <5>1, <5>2, <5>3, Touched
      <4> QED BY <4>3, <4>4
    <3> QED BY <3>2, <3>3
  <2>2. CASE pc # "update"
    <3>1. pc \in {"find", "list"} /\ pc' = pc /\ outcome' = "none"
      BY <1>1, <2>2 DEF ReadHeader, Reading, Running, Shape
    <3> QED BY <3>1 DEF Progress
  <2> QED BY <2>1, <2>2
<1>2. CASE ReadError
  <2>1. Reading /\ faults' = faults
    BY <1>2 DEF ReadError, call
  <2>2. faults # {}
    <3> SUFFICES ASSUME faults = {} PROVE FALSE
      OBVIOUS
    <3>1. mode # "message" /\ \A i \in DOMAIN out : out[i] # ErrorLine
      BY <2>1 DEF Clean, Reading
    <3>2. line = out[1] /\ 1 \in DOMAIN out
      BY <2>1, ReadFacts
    <3> QED BY <1>2, <3>1, <3>2 DEF ReadError
  <2> QED BY <2>1, <2>2 DEF Progress
<1>3. CASE ReadChange
  BY <1>3, ReadChangeProgress
<1>4. CASE LookupDone
  BY <1>4, LookupProgress
<1>5. CASE NothingToDo
  BY <1>5, NothingProgress
<1>6. CASE RunUpdate
  BY <1>6, RunProgress
<1>7. CASE UpdateDone
  BY <1>7, DoneProgress
<1>8. CASE Finish
  BY <1>8, FinishProgress
<1>9. CASE ReadResource \/ ReadBeforeFirst \/ RunFails \/ Release \/ \E batch \in Calls : Call(batch)
  <2>1. pc' \in {"find", "list", "returned", "idle"} /\ outcome' # "ok"
    BY <1>9 DEF ReadResource, ReadBeforeFirst, RunFails, Release, Call, Give, Shape
  <2> QED BY <2>1 DEF Progress
<1>10. CASE UNCHANGED simpleVars
  <2>1. UNCHANGED <<sys, out, exit, mode, shoulds, upds, next, before, faults, pc, derive, chgs, outcome>>
    BY <1>10 DEF simpleVars, script, call
  <2>2. Paired' <=> Paired
    BY <2>1 DEF Paired, AsBefore
  <2>3. \A n \in Name : Brought(n)' <=> Brought(n)
    BY <2>1 DEF Brought, Of, Past, Meant, Current, NothingLost, Gained, ReadOn, Args, u
  <2> QED BY <2>1, <2>2, <2>3 DEF Progress, Distinct
<1> QED BY <1>1, <1>2, <1>3, <1>4, <1>5, <1>6, <1>7, <1>8, <1>9, <1>10 DEF SimpleNext, Step

\* The inductive invariant: what the output of a run has yet to announce, what
\* the lookup knows, and how far the updates are (simple_provider.cc).
THEOREM SimpleInductive == SimpleSpec => []SimpleInd
<1>1. SimpleInit => SimpleInd
  <2>1. SimpleInit => Shape
    BY InitShape
  <2>2. SimpleInit => Announced /\ Clean /\ LookedUp /\ Progress
    BY DEF SimpleInit, Announced, Clean, LookedUp, Progress, Running
  <2> QED BY <2>1, <2>2 DEF SimpleInd
<1>2. SimpleInd /\ [SimpleNext]_simpleVars => SimpleInd'
  BY ShapeStep, AnnouncedStep, CleanStep, LookedUpStep, ProgressStep DEF SimpleInd
<1> QED BY <1>1, <1>2, PTL DEF SimpleSpec

\* A batch that succeeded has brought every package to what was asked: what the
\* script is not told, the package was already (set and get of
\* simple_provider.cc, provider::set).
THEOREM BatchConverges == SimpleSpec => []Converged
<1>1. SimpleInd => Converged
  <2> SUFFICES ASSUME SimpleInd, outcome = "ok", Distinct, faults = {}, NEW i \in DOMAIN shoulds,
                      Sensible(shoulds[i], before[shoulds[i].name]), sys[shoulds[i].name] # "unknown"
               PROVE  AsAsked(shoulds[i], sys[shoulds[i].name])
    BY DEF Converged
  <2>1. Shape /\ Paired /\ \A n \in Name : Brought(n)
    BY DEF SimpleInd, Progress
  <2> DEFINE n == shoulds[i].name
  <2>2. PICK k \in DOMAIN upds : upds[k].should = shoulds[i]
    BY <2>1 DEF Paired
  <2>3. UpdateName(upds[k]) = n /\ k \in Of(n)
    BY <2>1, <2>2 DEF Paired, Of
  <2>4. k < next /\ n \in Name
    BY <2>1, <2>2, <2>3, ShapeFacts DEF Shape
  <2>5. Past(k) /\ Meant(k, n)
    BY <2>2, <2>4 DEF Past, Meant
  <2> QED BY <2>1, <2>2, <2>3, <2>4, <2>5 DEF Brought
<1> QED BY <1>1, SimpleInductive, PTL

\* The changes reported for a package are those it went through, whether the
\* script reports them or leaves them to be derived (set in
\* simple_provider.cc, changes::maybe_add).
THEOREM ChangesAreTruthful == SimpleSpec => []ChangesTruthful
<1>1. SimpleInd => ChangesTruthful
  <2> SUFFICES ASSUME SimpleInd, outcome = "ok", Distinct, faults = {}, NEW i \in DOMAIN upds,
                      Sensible(upds[i].should, before[UpdateName(upds[i])]),
                      sys[UpdateName(upds[i])] # "unknown"
               PROVE  Truthful(chgs[UpdateName(upds[i])], before[UpdateName(upds[i])], sys[UpdateName(upds[i])])
    BY DEF ChangesTruthful
  <2> DEFINE n == UpdateName(upds[i])
  <2>1. Shape /\ \A m \in Name : Brought(m)
    BY DEF SimpleInd, Progress
  <2>2. n \in Name /\ i \in Of(n) /\ pc = "returned"
    BY <2>1, ShapeFacts DEF Of, Shape
  <2>3. Meant(i, n)
    BY DEF Meant
  <2>4. Current(n) /\ NothingLost(n)
    BY <2>1, <2>2, <2>3 DEF Brought
  <2> QED BY <2>4 DEF Truthful, Current, NothingLost, Gained
<1> QED BY <1>1, SimpleInductive, PTL

-----------------------------------------------------------------------------
(* JsonProvider: the inductive invariant. *)

Difference == [attr: Attr, is: Value, was: Value]

Flaws == {"none", "extra", "name", "type", "is", "was"}

ListedEntry == [name: Name, attrs: [Attr -> Value], flaw: Flaws]

ToldEntry == [name: Name, chgs: Seq(Difference), flaw: Flaws]

Bodies(E) ==
  [kind: {"empty", "garbage", "object"}, error: BOOLEAN, listed: BOOLEAN, entries: Seq(E), derive: BOOLEAN]

Replies(E) ==
  [success: BOOLEAN, stderr: {"empty", "words", "bare"}, body: Bodies(E)]

JsonShape ==
  /\ JsonTypeOK
  /\ upds \in Seq(Updates) /\ chgs \in [Name -> Seq(Difference)]
  /\ \A i \in DOMAIN upds : \E j \in DOMAIN shoulds : upds[i].should = shoulds[j]
  /\ pc = "got" => reply \in Replies(ListedEntry)
  /\ pc = "done" => reply \in Replies(ToldEntry)
  /\ pc \in {"idle", "got"} => quiet
  /\ pc \in {"idle", "got", "set"} /\ quiet => before = sys
  /\ pc = "idle" => faults = {} /\ upds = <<>>
  /\ outcome # "none" => pc = "returned"

\* What is wrong with a reply is found before it is used, but for a failure
\* with a complete reply and words on stderr.
Spotted ==
  /\ pc \in {"got", "done"} /\ ~(faults \subseteq {"loud"}) =>
       Thrown \/ Fatal \/ Malformed \/ (pc = "done" /\ NoValue)
  /\ pc = "set" \/ outcome = "ok" => faults \subseteq {"loud"}

\* What set() knows of a package is what the script listed, and still so if
\* nobody else changed it.
Fetched ==
  faults = {} =>
    /\ pc = "got" => \A i \in DOMAIN reply.body.entries : AsBefore(reply.body.entries[i])
    /\ pc \in {"set", "done"} /\ quiet => \A i \in DOMAIN upds : AsBefore(upds[i].is)

\* What the script did, and that it tells of every package or leaves only what
\* can be derived.
Accounted ==
  pc = "done" /\ faults = {} =>
    /\ \A n \in Name : sys[n] = "unknown" <=> before[n] = "unknown"
    /\ \A i \in DOMAIN upds :
         LET n == UpdateName(upds[i])
             w == upds[i].should
         IN  /\ OncePerName(shoulds) /\ Sensible(w, before[n]) /\ sys[n] # "unknown" => AsAsked(w, sys[n])
             /\ Mentioned(n) \/ sys[n] = before[n]
                \/ /\ reply.body.derive /\ AsAsked(w, sys[n])
                   /\ \A a \in Attr : Gained(n, a) => w.attrs[a] # None
    /\ \A i \in DOMAIN reply.body.entries :
         LET x == reply.body.entries[i] IN x.chgs = Told(x.name, before[x.name], sys[x.name]).chgs

JsonInd == JsonShape /\ Spotted /\ Fetched /\ Accounted /\ DoneAsReported
-----------------------------------------------------------------------------
(* JsonProvider: the replies of a script. *)

\* What an entry's flaw is changed to leaves it an entry.
Entries(E) ==
  \A x \in E : /\ x.flaw \in Flaws
               /\ \A f \in Flaws : [x EXCEPT !.flaw = f] \in E /\ [x EXCEPT !.flaw = f].flaw = f

LEMMA EntryTypes == Entries(ListedEntry) /\ Entries(ToldEntry)
<1>1. Entries(ListedEntry)
  BY DEF Entries, ListedEntry
<1>2. Entries(ToldEntry)
  <2> DEFINE C == Seq(Difference)
  <2>1. ToldEntry = [name: Name, chgs: C, flaw: Flaws]
    BY DEF ToldEntry
  <2> HIDE DEF C
  <2> QED BY <2>1 DEF Entries
<1> QED BY <1>1, <1>2

LEMMA FlawedType ==
  ASSUME NEW E, Entries(E), NEW body \in Bodies(E), NEW i \in DOMAIN body.entries, NEW f \in Flaws
  PROVE  /\ [body EXCEPT !.entries[i].flaw = f] \in Bodies(E)
         /\ i \in DOMAIN [body EXCEPT !.entries[i].flaw = f].entries
         /\ [body EXCEPT !.entries[i].flaw = f].entries[i].flaw = f
<1> DEFINE es == body.entries
           x == [es[i] EXCEPT !.flaw = f]
           new == [es EXCEPT ![i] = x]
<1>1. es \in Seq(E) /\ es[i] \in E
  BY DEF Bodies
<1>2. x \in E /\ x.flaw = f
  BY <1>1 DEF Entries
<1>3. [body EXCEPT !.entries[i].flaw = f] = [body EXCEPT !.entries = new]
  OBVIOUS
<1> HIDE DEF x
<1>4. new \in Seq(E) /\ new[i] = x /\ i \in DOMAIN new
  BY <1>1, <1>2
<1> HIDE DEF new
<1>5. [body EXCEPT !.entries = new] \in Bodies(E) /\ [body EXCEPT !.entries = new].entries = new
  BY <1>4 DEF Bodies
<1> QED BY <1>2, <1>3, <1>4, <1>5

LEMMA NoBodyType ==
  ASSUME NEW E
  PROVE  NoBody \in Bodies(E) /\ Garbage \in Bodies(E) /\ NoBody.kind = "empty" /\ Garbage.kind = "garbage"
<1>1. <<>> \in Seq(E)
  OBVIOUS
<1> QED BY <1>1 DEF NoBody, Garbage, Body, Bodies

\* What the library looks for in a reply.
Wrong(r) ==
  \/ r.stderr = "bare" \/ r.body.kind # "object" \/ (~r.success /\ r.stderr = "empty")
  \/ r.body.error \/ (pc = "idle" /\ ~r.body.listed)
  \/ \E i \in DOMAIN r.body.entries : r.body.entries[i].flaw \notin {"none", "extra"}
  \/ pc # "idle" /\ \E i \in DOMAIN r.body.entries : r.body.entries[i].flaw # "none"

\* The ways in which a reply is spoilt.
LEMMA SpoiltFacts ==
  ASSUME NEW E, Entries(E), NEW body \in Bodies(E), NEW f \in Faults, NEW r \in Spoilt(body)[f]
  PROVE  r \in Replies(E) /\ (f # "loud" => Wrong(r))
<1> DEFINE died == {Reply(FALSE, e, NoBody) : e \in {"empty", "words"}} \cup
                   {Reply(FALSE, "empty", b) : b \in {Garbage, body}} \cup {Reply(FALSE, "words", Garbage)}
           loud == {Reply(FALSE, "words", body)}
           garbage == {Reply(TRUE, "empty", b) : b \in {NoBody, Garbage}} \cup
                      {Reply(TRUE, "words", b) : b \in {NoBody, Garbage}}
           error == {Reply(TRUE, "empty", [body EXCEPT !.error = TRUE])}
           bare == {Reply(TRUE, "bare", body)}
           marked(i, g) == Reply(TRUE, "empty", [body EXCEPT !.entries[i].flaw = g])
           flawed == UNION {{marked(i, g) : i \in DOMAIN body.entries} :
                              g \in {"name", "type"} \cup IF pc = "idle" THEN {} ELSE {"is", "was"}}
           unlisted == IF pc = "idle" THEN {Reply(TRUE, "empty", [body EXCEPT !.listed = FALSE])} ELSE {}
           extra == IF pc = "idle" THEN {} ELSE
                      {marked(i, "extra") : i \in {j \in DOMAIN body.entries : body.entries[j].flaw = "none"}}
<1>11. Spoilt(body) = [died |-> died, loud |-> loud, garbage |-> garbage, error |-> error, bare |-> bare,
                       flawed |-> flawed, unlisted |-> unlisted, extra |-> extra]
  BY DEF Spoilt
<1> HIDE DEF died, loud, garbage, error, bare, flawed, unlisted, extra
<1>12. /\ Spoilt(body)["died"] = died /\ Spoilt(body)["loud"] = loud /\ Spoilt(body)["garbage"] = garbage
       /\ Spoilt(body)["error"] = error /\ Spoilt(body)["bare"] = bare /\ Spoilt(body)["flawed"] = flawed
       /\ Spoilt(body)["unlisted"] = unlisted /\ Spoilt(body)["extra"] = extra
  BY <1>11
<1>1. NoBody \in Bodies(E) /\ Garbage \in Bodies(E) /\ NoBody.kind = "empty" /\ Garbage.kind = "garbage"
  BY NoBodyType
<1>3. CASE f = "died"
  <2>1. r \in {Reply(FALSE, e, NoBody) : e \in {"empty", "words"}} \cup
              {Reply(FALSE, "empty", b) : b \in {Garbage, body}} \cup {Reply(FALSE, "words", Garbage)}
    BY <1>3, <1>12 DEF died
  <2>2. PICK e \in {"empty", "words"}, b \in {NoBody, Garbage, body} :
          r = Reply(FALSE, e, b) /\ (e = "empty" \/ b \in {NoBody, Garbage})
    BY <2>1
  <2>3. r \in Replies(E) /\ ~r.success /\ r.stderr = e /\ r.body = b
    BY <1>1, <2>2 DEF Reply, Replies
  <2> QED BY <1>1, <2>2, <2>3 DEF Wrong
<1>4. CASE f = "loud"
  <2>1. r = Reply(FALSE, "words", body)
    BY <1>4, <1>12 DEF loud
  <2> QED BY <1>4, <2>1 DEF Reply, Replies
<1>5. CASE f = "garbage"
  <2>1. r \in {Reply(TRUE, "empty", b) : b \in {NoBody, Garbage}} \cup
              {Reply(TRUE, "words", b) : b \in {NoBody, Garbage}}
    BY <1>5, <1>12 DEF garbage
  <2>2. PICK e \in {"empty", "words"}, b \in {NoBody, Garbage} : r = Reply(TRUE, e, b)
    BY <2>1
  <2>3. r \in Replies(E) /\ r.body = b
    BY <1>1, <2>2 DEF Reply, Replies
  <2> QED BY <1>1, <2>2, <2>3 DEF Wrong
<1>6. CASE f = "error"
  <2> DEFINE new == [body EXCEPT !.error = TRUE]
  <2>1. r = Reply(TRUE, "empty", new)
    BY <1>6, <1>12 DEF error
  <2>2. new \in Bodies(E) /\ new.error
    BY DEF Bodies
  <2> HIDE DEF new
  <2>3. r \in Replies(E) /\ r.body = new
    BY <2>1, <2>2 DEF Reply, Replies
  <2> QED BY <2>2, <2>3 DEF Wrong
<1>7. CASE f = "bare"
  <2>1. r = Reply(TRUE, "bare", body)
    BY <1>7, <1>12 DEF bare
  <2>2. r \in Replies(E) /\ r.stderr = "bare"
    BY <2>1 DEF Reply, Replies
  <2> QED BY <2>2 DEF Wrong
<1>8. CASE f = "flawed"
  <2> HIDE DEF marked
  <2>1. r \in UNION {{marked(i, g) : i \in DOMAIN body.entries} :
                       g \in {"name", "type"} \cup IF pc = "idle" THEN {} ELSE {"is", "was"}}
    BY <1>8, <1>12 DEF flawed
  <2>2. PICK i \in DOMAIN body.entries, g \in {"name", "type", "is", "was"} : r = marked(i, g)
    BY <2>1
  <2> DEFINE new == [body EXCEPT !.entries[i].flaw = g]
  <2>3. new \in Bodies(E) /\ i \in DOMAIN new.entries /\ new.entries[i].flaw = g
    <3>1. g \in Flaws
      BY DEF Flaws
    <3> QED BY <3>1, FlawedType
  <2>4. r = Reply(TRUE, "empty", new)
    BY <2>2 DEF marked
  <2> HIDE DEF new
  <2>5. r \in Replies(E) /\ r.body = new
    BY <2>3, <2>4 DEF Reply, Replies
  <2> QED BY <2>3, <2>5 DEF Wrong
<1>9. CASE f = "unlisted"
  <2> DEFINE new == [body EXCEPT !.listed = FALSE]
  <2>1. pc = "idle" /\ r = Reply(TRUE, "empty", new)
    BY <1>9, <1>12 DEF unlisted
  <2>2. new \in Bodies(E) /\ ~new.listed
    BY DEF Bodies
  <2> HIDE DEF new
  <2>3. r \in Replies(E) /\ r.body = new
    BY <2>1, <2>2 DEF Reply, Replies
  <2> QED BY <2>1, <2>2, <2>3 DEF Wrong
<1>10. CASE f = "extra"
  <2> HIDE DEF marked
  <2>1. pc # "idle" /\ r \in {marked(i, "extra") : i \in {j \in DOMAIN body.entries : body.entries[j].flaw = "none"}}
    BY <1>10, <1>12 DEF extra
  <2>2. PICK i \in DOMAIN body.entries : r = marked(i, "extra")
    BY <2>1
  <2> DEFINE new == [body EXCEPT !.entries[i].flaw = "extra"]
  <2>3. new \in Bodies(E) /\ i \in DOMAIN new.entries /\ new.entries[i].flaw = "extra"
    <3>1. "extra" \in Flaws
      BY DEF Flaws
    <3> QED BY <3>1, FlawedType
  <2>4. r = Reply(TRUE, "empty", new)
    BY <2>2 DEF marked
  <2> HIDE DEF new
  <2>5. r \in Replies(E) /\ r.body = new
    BY <2>3, <2>4 DEF Reply, Replies
  <2> QED BY <2>1, <2>3, <2>5 DEF Wrong
<1> QED BY <1>3, <1>4, <1>5, <1>6, <1>7, <1>8, <1>9, <1>10 DEF Faults

\* The first flaw of a list that has one.
LEMMA FirstFlaw ==
  ASSUME NEW E, Entries(E), NEW es \in Seq(E), NEW fine, NEW bad,
         bad = {i \in DOMAIN es : es[i].flaw \notin fine}, bad # {}
  PROVE  es[Min(bad)].flaw \in Flaws \ fine
<1>1. bad \subseteq Nat
  <2>1. DOMAIN es \subseteq Nat
    OBVIOUS
  <2> QED BY <2>1
<1>2. Min(bad) \in bad
  BY <1>1, LeastNumber
<1>3. es[Min(bad)] \in E /\ es[Min(bad)].flaw \notin fine
  BY <1>2
<1> QED BY <1>3 DEF Entries

\* A run of the script and what is made of its reply.
LEMMA ScriptRepliesFacts ==
  ASSUME NEW E, Entries(E), NEW body \in Bodies(E), NEW t, ScriptReplies(body, t),
         (pc = "idle" /\ pc' = "got") \/ (pc = "set" /\ pc' = "done"), faults \subseteq {"loud"}
  PROVE  /\ reply' \in Replies(E) /\ sys' \in {sys, t} /\ faults' \subseteq Faults /\ faults \subseteq faults'
         /\ ~(faults' \subseteq {"loud"}) => (Thrown \/ Fatal \/ Malformed \/ (pc = "done" /\ NoValue))'
         /\ faults' = {} => /\ sys' = t /\ reply'.body = body
                            /\ reply'.success /\ reply'.stderr \in {"empty", "words"}
<1>1. CASE /\ reply' \in {Reply(TRUE, e, body) : e \in {"empty", "words"}}
           /\ sys' = t /\ UNCHANGED faults
  <2>1. PICK e \in {"empty", "words"} : reply' = Reply(TRUE, e, body)
    BY <1>1
  <2>2. reply' \in Replies(E) /\ reply'.body = body /\ reply'.success /\ reply'.stderr = e
    BY <2>1 DEF Reply, Replies
  <2>3. faults' \subseteq {"loud"} /\ faults' \subseteq Faults
    BY <1>1 DEF Faults
  <2> QED BY <1>1, <2>2, <2>3
<1>2. ASSUME NEW f \in Faults, reply' \in Spoilt(body)[f], sys' \in {sys, t}, faults' = faults \cup {f}
      PROVE  /\ reply' \in Replies(E) /\ faults' \subseteq Faults /\ faults' # {}
             /\ ~(faults' \subseteq {"loud"}) => (Thrown \/ Fatal \/ Malformed \/ (pc = "done" /\ NoValue))'
  <2>1. reply' \in Replies(E)
    BY <1>2, SpoiltFacts
  <2>2. faults' \subseteq Faults /\ faults' # {}
    BY <1>2 DEF Faults
  <2> SUFFICES ASSUME ~(faults' \subseteq {"loud"})
               PROVE  (Thrown \/ Fatal \/ Malformed \/ (pc = "done" /\ NoValue))'
    BY <2>1, <2>2
  <2> DEFINE r == reply'
             es == reply'.body.entries
  <2>3. f # "loud"
    BY <1>2
  <2>4. Wrong(r)
    BY <1>2, <2>3, SpoiltFacts
  <2>5. es \in Seq(E)
    BY <2>1 DEF Replies, Bodies
  <2>6. CASE pc' = "got" /\ \E i \in DOMAIN es : es[i].flaw \notin {"none", "extra"}
    <3> DEFINE bad == {i \in DOMAIN es : es[i].flaw \notin {"none", "extra"}}
    <3>1. bad # {}
      BY <2>6
    <3> HIDE DEF es
    <3>2. es[Min(bad)].flaw \in Flaws \ {"none", "extra"}
      BY <2>5, <3>1, FirstFlaw
    <3>3. Flaw' = es[Min(bad)].flaw
      BY <2>6, <3>1 DEF Flaw, es
    <3> QED BY <3>2, <3>3 DEF Malformed, Flaws
  <2>7. CASE pc' = "done" /\ \E i \in DOMAIN es : es[i].flaw # "none"
    <3> DEFINE bad == {i \in DOMAIN es : es[i].flaw \notin {"none"}}
    <3>1. bad # {}
      BY <2>7
    <3> HIDE DEF es
    <3>2. es[Min(bad)].flaw \in Flaws \ {"none"}
      BY <2>5, <3>1, FirstFlaw
    <3>3. Flaw' = es[Min(bad)].flaw
      BY <2>7, <3>1 DEF Flaw, es
    <3> QED BY <2>7, <3>2, <3>3 DEF Malformed, NoValue, Flaws
  <2>8. CASE r.stderr = "bare" \/ r.body.kind # "object" \/ (~r.success /\ r.stderr = "empty")
             \/ r.body.error \/ (pc = "idle" /\ ~r.body.listed)
    BY <2>8 DEF Thrown, Fatal, Malformed
  <2> QED BY <2>4, <2>6, <2>7, <2>8 DEF Wrong
<1> QED BY <1>1, <1>2 DEF ScriptReplies

\* What the script lists of a package.
LEMMA ListingFacts ==
  ASSUME sys \in [Name -> PackageState], NEW names \in SUBSET Name, NEW body \in GetReplies(names)
  PROVE  /\ body \in Bodies(ListedEntry)
         /\ \A i \in DOMAIN body.entries : \A a \in Attr :
              body.entries[i].attrs[a] \in {None, Attrs(sys[body.entries[i].name])[a]}
<1>1. PICK ns \in {names, Name} :
        body = Body("object", [i \in 1..Cardinality(ns) |-> Listed(SetToSeq(ns)[i])], FALSE)
  BY DEF GetReplies
<1> DEFINE k == Cardinality(ns)
           es == [i \in 1..k |-> Listed(SetToSeq(ns)[i])]
<1>2. IsFiniteSet(ns)
  BY FS_Subset, CallsAssumption
<1>3. k \in Nat /\ \A i \in 1..k : SetToSeq(ns)[i] \in Name
  BY <1>2, SetToSeqFacts
<1>4. ASSUME NEW n \in Name
      PROVE  /\ Listed(n) \in ListedEntry /\ Listed(n).name = n
             /\ \A a \in Attr : Listed(n).attrs[a] \in {None, Attrs(sys[n])[a]}
  <2>1. sys[n] \in PackageState
    OBVIOUS
  <2> DEFINE s == sys[n]
             at == IF s = "unknown" THEN Blank(n, Attr).attrs ELSE Attrs(s)
             fl == IF s = "unknown" THEN "extra" ELSE "none"
  <2>2. at \in [Attr -> Value] /\ \A a \in Attr : at[a] \in {None, Attrs(s)[a]}
    <3> HIDE DEF s
    <3>1. CASE s = "unknown"
      BY <3>1 DEF Blank, Resource, Value
    <3>2. CASE s # "unknown"
      <4>1. s \in PackageState
        BY <2>1 DEF s
      <4>2. \A a \in Attr : Attrs(s)[a] \in Value
        BY <4>1, AttrsType, AttrIs DEF Value
      <4>3. Attrs(s) = [a \in Attr |-> Attrs(s)[a]]
        BY <4>1, AttrsType
      <4> QED BY <3>2, <4>2, <4>3
    <3> QED BY <3>1, <3>2
  <2>3. fl \in Flaws
    BY DEF Flaws
  <2>4. Listed(n) = [name |-> n, attrs |-> at, flaw |-> fl]
    BY DEF Listed
  <2> HIDE DEF at, fl, s
  <2>5. Listed(n) \in ListedEntry /\ Listed(n).name = n /\ Listed(n).attrs = at
    BY <2>2, <2>3, <2>4 DEF ListedEntry
  <2> QED BY <2>2, <2>5 DEF s
<1> HIDE DEF k
<1>5. es \in Seq(ListedEntry) /\ \A i \in DOMAIN es : i \in 1..k /\ es[i] = Listed(SetToSeq(ns)[i])
  BY <1>3, <1>4
<1>6. body = Body("object", es, FALSE)
  BY <1>1 DEF k
<1> HIDE DEF es
<1>7. body \in Bodies(ListedEntry) /\ body.entries = es
  BY <1>5, <1>6 DEF Body, Bodies
<1>8. \A i \in DOMAIN es : \A a \in Attr : es[i].attrs[a] \in {None, Attrs(sys[es[i].name])[a]}
  <2> SUFFICES ASSUME NEW i \in DOMAIN es
               PROVE  \A a \in Attr : es[i].attrs[a] \in {None, Attrs(sys[es[i].name])[a]}
    OBVIOUS
  <2> DEFINE n == SetToSeq(ns)[i]
  <2>1. n \in Name /\ es[i] = Listed(n)
    BY <1>3, <1>5
  <2> HIDE DEF n
  <2> QED BY <1>4, <2>1
<1> QED BY <1>7, <1>8

\* What the script tells of a package: its differences, all of them.
LEMMA ToldFacts ==
  ASSUME NEW n \in Name, NEW s \in PackageState, NEW t \in PackageState
  PROVE  /\ Told(n, s, t) \in ToldEntry /\ Told(n, s, t).name = n
         /\ \A i \in DOMAIN Told(n, s, t).chgs :
              /\ Told(n, s, t).chgs[i].attr \in Attr
              /\ Told(n, s, t).chgs[i].is = Attrs(t)[Told(n, s, t).chgs[i].attr]
         /\ \A a \in Attr : Attrs(t)[a] # Attrs(s)[a] =>
              \E i \in DOMAIN Told(n, s, t).chgs : Told(n, s, t).chgs[i].attr = a
<1> DEFINE A == {a \in Attr : Attrs(s)[a] # Attrs(t)[a]}
           d == InOrder(A)
           change(a) == Change(a, Attrs(t)[a], Attrs(s)[a])
           c == [i \in DOMAIN d |-> change(d[i])]
           fl == IF t = "unknown" THEN "is" ELSE "none"
<1>1. Told(n, s, t) = [name |-> n, chgs |-> c, flaw |-> fl]
  BY DEF Told
<1>2. A \subseteq Attr
  OBVIOUS
<1>3. fl \in Flaws
  BY DEF Flaws
<1> HIDE DEF A, fl
<1>4. /\ d \in Seq(Attr) /\ (\A i \in 1..Len(d) : d[i] \in A)
      /\ \A a \in A : \E i \in 1..Len(d) : d[i] = a
  BY <1>2, InOrderFacts
<1> HIDE DEF d
<1>5. \A a \in Attr : Attrs(t)[a] \in Value /\ Attrs(s)[a] \in Value
  BY AttrsType, AttrIs DEF Value
<1>6. \A a \in Attr : change(a) \in Difference /\ change(a).attr = a /\ change(a).is = Attrs(t)[a]
  BY <1>5 DEF Change, Difference
<1> HIDE DEF change
<1>7. DOMAIN d = 1..Len(d) /\ Len(d) \in Nat
  BY <1>4
<1>8. /\ c \in Seq(Difference) /\ DOMAIN c = 1..Len(d)
      /\ \A i \in DOMAIN c : c[i] = change(d[i]) /\ d[i] \in Attr
  BY <1>2, <1>4, <1>6, <1>7
<1> HIDE DEF c
<1>9. Told(n, s, t) \in ToldEntry /\ Told(n, s, t).name = n /\ Told(n, s, t).chgs = c
  BY <1>1, <1>3, <1>8 DEF ToldEntry
<1>10. \A i \in DOMAIN c : c[i].attr \in Attr /\ c[i].is = Attrs(t)[c[i].attr]
  BY <1>6, <1>8
<1>11. \A a \in Attr : Attrs(t)[a] # Attrs(s)[a] => \E i \in DOMAIN c : c[i].attr = a
  BY <1>4, <1>6, <1>8 DEF A
<1> QED BY <1>9, <1>10, <1>11

-----------------------------------------------------------------------------
(* JsonProvider: what the script does. *)

LEMMA JsonFacts ==
  ASSUME JsonShape
  PROVE  /\ sys \in [Name -> PackageState] /\ before \in [Name -> PackageState]
         /\ upds \in Seq(Updates) /\ Len(upds) \in Nat /\ DOMAIN upds = 1..Len(upds)
         /\ \A i \in DOMAIN upds : /\ UpdateName(upds[i]) \in Name /\ upds[i].is \in Found
                                   /\ upds[i].should \in PackageShould
                                   /\ UpdateName(upds[i]) = upds[i].should.name
         /\ shoulds \in Seq(PackageShould) /\ DOMAIN shoulds = 1..Len(shoulds) /\ Len(shoulds) \in Nat
         /\ chgs \in [Name -> Seq(Difference)]
<1>1. upds \in Seq(Updates) /\ shoulds \in Seq(PackageShould)
  BY DEF JsonShape, JsonTypeOK
<1>2. \A i \in DOMAIN upds : upds[i] \in Updates
  BY <1>1
<1>3. \A i \in DOMAIN upds : /\ UpdateName(upds[i]) \in Name /\ upds[i].is \in Found
                             /\ upds[i].should \in PackageShould
  BY <1>2 DEF Updates, Found, UpdateName
<1> QED BY <1>1, <1>3 DEF JsonShape, JsonTypeOK

\* The updates of a package that is named once have the same should.
LEMMA SameWish ==
  ASSUME JsonShape, OncePerName(shoulds), NEW i \in DOMAIN upds, NEW k \in DOMAIN upds,
         UpdateName(upds[i]) = UpdateName(upds[k])
  PROVE  upds[i].should = upds[k].should
<1>1. upds[i].should.name = upds[k].should.name
  BY JsonFacts
<1>2. PICK j \in DOMAIN shoulds : upds[i].should = shoulds[j]
  BY DEF JsonShape
<1>3. PICK h \in DOMAIN shoulds : upds[k].should = shoulds[h]
  BY DEF JsonShape
<1> QED BY <1>1, <1>2, <1>3 DEF OncePerName

\* Where update i may bring packages that are in one of the states of X.
Bring(X, i) ==
  LET n == UpdateName(upds[i]) IN
  UNION {{[s EXCEPT ![n] = t] : t \in Results(s[n], upds[i].should.attrs)} : s \in X}

IsReach(f) == f = [i \in 0..Len(upds) |-> IF i = 0 THEN {sys} ELSE Bring(f[i - 1], i)]

LEMMA OutcomesDef == Outcomes = (CHOOSE f : IsReach(f))[Len(upds)]
BY DEF Outcomes, IsReach, Bring

\* It brings the packages from s to t.
Brings(s, t, i) ==
  /\ t \in [Name -> PackageState]
  /\ t[UpdateName(upds[i])] \in Results(s[UpdateName(upds[i])], upds[i].should.attrs)
  /\ \A m \in Name : m # UpdateName(upds[i]) => t[m] = s[m]
  /\ \A m \in Name : t[m] = "unknown" <=> s[m] = "unknown"

LEMMA BringFacts ==
  ASSUME JsonShape, NEW X \in SUBSET [Name -> PackageState], NEW i \in DOMAIN upds, NEW t \in Bring(X, i)
  PROVE  \E s \in X : Brings(s, t, i)
<1> DEFINE n == UpdateName(upds[i])
           w == upds[i].should
<1>1. n \in Name /\ w \in PackageShould
  BY JsonFacts
<1>2. PICK s \in X : \E r \in Results(s[n], w.attrs) : t = [s EXCEPT ![n] = r]
  BY DEF Bring
<1>3. PICK r \in Results(s[n], w.attrs) : t = [s EXCEPT ![n] = r]
  BY <1>2
<1> HIDE DEF n, w
<1>4. s \in [Name -> PackageState] /\ s[n] \in PackageState
  BY <1>1
<1>5. PartOf(w.attrs, w)
  BY DEF PartOf
<1>6. r \in PackageState /\ (r = "unknown" <=> s[n] = "unknown")
  BY <1>1, <1>3, <1>4, <1>5, ResultsType
<1>7. t \in [Name -> PackageState] /\ t[n] = r /\ \A m \in Name : m # n => t[m] = s[m]
  BY <1>1, <1>3, <1>4, <1>6
<1> QED BY <1>3, <1>6, <1>7 DEF Brings, n, w

\* What the updates up to number m have made of the packages.
Reached(t, m) ==
  /\ t \in [Name -> PackageState]
  /\ \A n \in Name : t[n] = "unknown" <=> sys[n] = "unknown"
  /\ \A n \in Name : (\A i \in 1..m : UpdateName(upds[i]) # n) => t[n] = sys[n]
  /\ OncePerName(shoulds) =>
       \A i \in 1..m :
         Sensible(upds[i].should, sys[UpdateName(upds[i])]) /\ t[UpdateName(upds[i])] # "unknown" =>
           AsAsked(upds[i].should, t[UpdateName(upds[i])])

LEMMA ReachStep ==
  ASSUME JsonShape, NEW m \in Nat, m + 1 \in DOMAIN upds,
         NEW X \in SUBSET [Name -> PackageState], \A s \in X : Reached(s, m),
         NEW t \in Bring(X, m + 1)
  PROVE  Reached(t, m + 1)
<1> DEFINE k == m + 1
           n == UpdateName(upds[k])
           w == upds[k].should
<1>0. k \in DOMAIN upds /\ k \in Nat /\ t \in Bring(X, k) /\ \A i \in 1..k : i \in 1..m \/ i = k
  OBVIOUS
<1>00. 1..m \subseteq DOMAIN upds /\ 1..m \subseteq 1..k
  BY JsonFacts
<1> HIDE DEF k
<1>1. PICK s \in X : Brings(s, t, k)
  BY <1>0, BringFacts
<1>2. Reached(s, m) /\ s \in [Name -> PackageState]
  OBVIOUS
<1>3. n \in Name /\ w \in PackageShould /\ sys \in [Name -> PackageState]
  BY <1>0, JsonFacts
<1>4. \A o \in Name : t[o] = "unknown" <=> sys[o] = "unknown"
  BY <1>1, <1>2 DEF Reached, Brings
<1>5. ASSUME NEW o \in Name, \A i \in 1..k : UpdateName(upds[i]) # o PROVE t[o] = sys[o]
  <2>1. k \in 1..k
    BY <1>0 DEF k
  <2>2. o # n /\ \A i \in 1..m : UpdateName(upds[i]) # o
    BY <1>00, <1>5, <2>1
  <2>3. s[o] = sys[o]
    BY <1>2, <2>2 DEF Reached
  <2> QED BY <1>1, <2>2, <2>3 DEF Brings
<1>6. ASSUME OncePerName(shoulds), Sensible(w, sys[n]), t[n] # "unknown" PROVE AsAsked(w, t[n])
  <2>1. s[n] \in PackageState /\ s[n] # "unknown"
    BY <1>1, <1>2, <1>3, <1>6 DEF Brings
  <2>2. PartOf(w.attrs, w) /\ w.attrs = [a \in Attr |-> w.attrs[a]]
    BY <1>3 DEF PartOf, PackageShould
  <2>3. CASE \A i \in 1..m : UpdateName(upds[i]) # n
    <3>1. s[n] = sys[n]
      BY <1>2, <1>3, <2>3 DEF Reached
    <3>2. \A a \in Attr : w.attrs[a] = None => w.attrs[a] \in {None, Attrs(s[n])[a]}
      OBVIOUS
    <3>4. t[n] \in Results(s[n], w.attrs)
      BY <1>1 DEF Brings
    <3> HIDE DEF w, n
    <3>3. Sensible(w, s[n])
      BY <1>6, <3>1
    <3> QED BY <1>3, <2>1, <2>2, <3>2, <3>3, <3>4, ResultsAsAsked
  <2>4. ASSUME NEW i \in 1..m, UpdateName(upds[i]) = n PROVE AsAsked(w, t[n])
    <3>1. upds[i].should = w
      BY <1>0, <1>00, <1>6, <2>4, SameWish
    <3>2. AsAsked(w, s[n])
      BY <1>2, <1>6, <2>1, <2>4, <3>1 DEF Reached
    <3>4. t[n] \in Results(s[n], w.attrs)
      BY <1>1 DEF Brings
    <3> HIDE DEF w, n
    <3>3. t[n] = s[n]
      BY <3>4, <1>3, <2>1, <2>2, <3>2, ResultsStay
    <3> QED BY <3>2, <3>3
  <2> QED BY <2>3, <2>4
<1>7. ASSUME OncePerName(shoulds), NEW i \in 1..k,
             Sensible(upds[i].should, sys[UpdateName(upds[i])]), t[UpdateName(upds[i])] # "unknown"
      PROVE  AsAsked(upds[i].should, t[UpdateName(upds[i])])
  <2>1. i \in DOMAIN upds /\ UpdateName(upds[i]) \in Name
    BY <1>0, <1>00, JsonFacts
  <2>2. CASE UpdateName(upds[i]) = n
    <3>1. upds[i].should = w
      BY <1>0, <1>7, <2>1, <2>2, SameWish
    <3> QED BY <1>6, <1>7, <2>2, <3>1
  <2>3. CASE UpdateName(upds[i]) # n
    <3>1. i \in 1..m
      BY <1>0, <2>3
    <3>2. t[UpdateName(upds[i])] = s[UpdateName(upds[i])]
      BY <1>1, <2>1, <2>3 DEF Brings
    <3> QED BY <1>2, <1>7, <3>1, <3>2 DEF Reached
  <2> QED BY <2>2, <2>3
<1> QED BY <1>1, <1>4, <1>5, <1>7 DEF Reached, Brings, k

LEMMA OutcomesFacts ==
  ASSUME JsonShape, NEW t \in Outcomes
  PROVE  Reached(t, Len(upds))
<1> DEFINE k == Len(upds)
           P == [Name -> PackageState]
           S == SUBSET P
           step == [i \in 1..k |-> [X \in S |-> Bring(X, i)]]
<1>1. k \in Nat /\ DOMAIN upds = 1..k /\ sys \in P
  BY JsonFacts
<1>2. ASSUME NEW i \in 1..k, NEW X \in S PROVE Bring(X, i) \in S
  BY <1>1, BringFacts DEF Brings
<1> HIDE DEF k, P
<1>3. step \in [1..k -> [S -> S]] /\ \A i \in 1..k, X \in S : step[i][X] = Bring(X, i)
  BY <1>2
<1> HIDE DEF step
<1>4. {sys} \in S
  BY <1>1
<1> HIDE DEF S
<1>5. PICK g \in [0..k -> S] : g[0] = {sys} /\ \A i \in 1..k : g[i] = step[i][g[i - 1]]
  <2>1. step \in StepsOf(S, k)
    BY <1>3 DEF StepsOf
  <2>2. \E g : IsFold(g, S, {sys}, k, step)
    BY <1>1, <1>4, <2>1, FoldExists
  <2> QED BY <2>2 DEF IsFold
<1>6. \A i \in 0..k : g[i] = IF i = 0 THEN {sys} ELSE Bring(g[i - 1], i)
  <2> SUFFICES ASSUME NEW i \in 0..k PROVE g[i] = IF i = 0 THEN {sys} ELSE Bring(g[i - 1], i)
    OBVIOUS
  <2>1. CASE i = 0
    BY <1>5, <2>1
  <2>2. CASE i # 0
    <3>1. i \in 1..k /\ i - 1 \in 0..k
      BY <1>1, <2>2
    <3>2. g[i - 1] \in S
      BY <3>1
    <3> QED BY <1>3, <1>5, <2>2, <3>1, <3>2
  <2> QED BY <2>1, <2>2
<1>7. IsReach(g)
  <2>1. g = [i \in 0..k |-> IF i = 0 THEN {sys} ELSE Bring(g[i - 1], i)]
    BY <1>6
  <2> QED BY <2>1 DEF IsReach, k
<1> DEFINE f == CHOOSE h : IsReach(h)
<1>8. IsReach(f) /\ Outcomes = f[k]
  BY <1>7, OutcomesDef DEF k
<1> HIDE DEF f
<1>9. \A i \in 0..k : f[i] = IF i = 0 THEN {sys} ELSE Bring(f[i - 1], i)
  <2> DEFINE body(i) == IF i = 0 THEN {sys} ELSE Bring(f[i - 1], i)
  <2>1. f = [i \in 0..k |-> body(i)]
    BY <1>8 DEF IsReach, k
  <2> HIDE DEF body
  <2>2. \A i \in 0..k : f[i] = body(i)
    BY <2>1
  <2> QED BY <2>2 DEF body
<1> DEFINE G == {m \in Nat : m <= k => f[m] \in S /\ \A s \in f[m] : Reached(s, m)}
<1>10. 0 \in G
  <2>1. f[0] = {sys}
    BY <1>1, <1>9
  <2>2. Reached(sys, 0)
    BY <1>1 DEF Reached, P
  <2> QED BY <1>4, <2>1, <2>2
<1>11. ASSUME NEW m \in Nat, m \in G PROVE m + 1 \in G
  <2> SUFFICES ASSUME m + 1 <= k PROVE f[m + 1] \in S /\ \A s \in f[m + 1] : Reached(s, m + 1)
    OBVIOUS
  <2>1. m + 1 \in 1..k /\ m + 1 \in 0..k /\ m + 1 # 0 /\ (m + 1) - 1 = m
    BY <1>1
  <2>2. f[m + 1] = Bring(f[m], m + 1)
    BY <1>9, <2>1
  <2>3. f[m] \in S /\ \A s \in f[m] : Reached(s, m)
    BY <1>1, <1>11
  <2>4. f[m + 1] \in S
    BY <1>2, <2>1, <2>2, <2>3
  <2>5. f[m] \in SUBSET [Name -> PackageState] /\ m + 1 \in DOMAIN upds
    BY <1>1, <2>1, <2>3 DEF S, P
  <2> QED BY <2>2, <2>3, <2>4, <2>5, ReachStep
<1> HIDE DEF G
<1>12. Nat \subseteq G
  BY <1>10, <1>11, NatInduct
<1>13. \A s \in f[k] : Reached(s, k)
  <2>1. k \in G /\ k <= k
    BY <1>1, <1>12
  <2> QED BY <2>1 DEF G
<1> QED BY <1>8, <1>13 DEF k

\* What the script says of what it did.
LEMMA SetRepliesFacts ==
  ASSUME JsonShape, NEW t \in [Name -> PackageState], NEW body \in SetReplies(t)
  PROVE  /\ body \in Bodies(ToldEntry)
         /\ \A i \in DOMAIN body.entries :
              body.entries[i].chgs =
                Told(body.entries[i].name, sys[body.entries[i].name], t[body.entries[i].name]).chgs
         /\ \A i \in DOMAIN upds :
              \/ \E j \in DOMAIN body.entries : body.entries[j].name = UpdateName(upds[i])
              \/ UpdateName(upds[i]) \in Silent(t, body.derive)
<1> DEFINE asked == {UpdateName(upds[i]) : i \in DOMAIN upds}
<1>1. PICK derives \in BOOLEAN, ns \in SUBSET asked :
        /\ body = Mentioning(ns, t, derives)
        /\ \A n \in asked : n \in ns \/ n \in Silent(t, derives)
  <2>1. CASE body \in {Mentioning(asked, t, derives) : derives \in BOOLEAN}
    BY <2>1
  <2>2. CASE body \in {Mentioning(asked \ Silent(t, derives), t, derives) : derives \in BOOLEAN}
    <3>1. PICK derives \in BOOLEAN : body = Mentioning(asked \ Silent(t, derives), t, derives)
      BY <2>2
    <3> QED BY <3>1
  <2> QED BY <2>1, <2>2 DEF SetReplies
<1>2. asked \subseteq Name
  BY JsonFacts
<1> HIDE DEF asked
<1> DEFINE k == Cardinality(ns)
           pick(i) == SetToSeq(ns)[i]
           es == [i \in 1..k |-> Told(pick(i), sys[pick(i)], t[pick(i)])]
<1>3. IsFiniteSet(ns) /\ ns \subseteq Name
  BY <1>2, FS_Subset, CallsAssumption
<1>4. /\ k \in Nat /\ (\A i \in 1..k : pick(i) \in Name)
      /\ \A n \in ns : \E i \in 1..k : pick(i) = n
  BY <1>3, SetToSeqFacts
<1>5. body = Body("object", es, derives)
  BY <1>1 DEF Mentioning
<1> HIDE DEF k, pick
<1>6. \A i \in 1..k : /\ Told(pick(i), sys[pick(i)], t[pick(i)]) \in ToldEntry
                      /\ Told(pick(i), sys[pick(i)], t[pick(i)]).name = pick(i)
  <2>1. \A n \in Name : sys[n] \in PackageState /\ t[n] \in PackageState
    BY JsonFacts
  <2> QED BY <1>4, <2>1, ToldFacts
<1>7. es \in Seq(ToldEntry) /\ DOMAIN es = 1..k
  BY <1>4, <1>6
<1>8. \A i \in 1..k : es[i].name = pick(i) /\ es[i].chgs = Told(pick(i), sys[pick(i)], t[pick(i)]).chgs
  BY <1>6
<1> HIDE DEF es
<1>9. body \in Bodies(ToldEntry) /\ body.entries = es /\ body.derive = derives
  BY <1>5, <1>7 DEF Body, Bodies
<1>10. \A i \in DOMAIN es : es[i].chgs = Told(es[i].name, sys[es[i].name], t[es[i].name]).chgs
  BY <1>7, <1>8
<1>11. \A n \in asked : (\E j \in DOMAIN es : es[j].name = n) \/ n \in Silent(t, derives)
  BY <1>1, <1>4, <1>7, <1>8
<1> QED BY <1>9, <1>10, <1>11 DEF asked

-----------------------------------------------------------------------------
(* JsonProvider: the steps of set(). *)

LEMMA CallJson ==
  ASSUME JsonShape, NEW batch \in Calls, GetCall(batch)
  PROVE  /\ reply' \in Replies(ListedEntry) /\ sys' = sys /\ faults' \subseteq Faults
         /\ ~(faults' \subseteq {"loud"}) => (Thrown \/ Fatal \/ Malformed)'
         /\ faults' = {} => (\A i \in DOMAIN reply.body.entries : AsBefore(reply.body.entries[i]))'
<1>1. /\ pc = "idle" /\ pc' = "got" /\ before' = sys /\ faults = {}
      /\ \E body \in GetReplies({batch[i].name : i \in DOMAIN batch}) : ScriptReplies(body, sys)
  BY DEF GetCall, JsonShape
<1> DEFINE names == {batch[i].name : i \in DOMAIN batch}
<1>2. names \in SUBSET Name
  <2>1. batch \in Seq(PackageShould)
    BY CallsAssumption
  <2>2. \A i \in DOMAIN batch : batch[i] \in PackageShould
    BY <2>1
  <2> QED BY <2>2, ShouldType
<1>3. PICK body \in GetReplies(names) : ScriptReplies(body, sys)
  BY <1>1
<1> HIDE DEF names
<1>4. /\ body \in Bodies(ListedEntry)
      /\ \A i \in DOMAIN body.entries : \A a \in Attr :
           body.entries[i].attrs[a] \in {None, Attrs(sys[body.entries[i].name])[a]}
  BY <1>2, JsonFacts, ListingFacts
<1>5. /\ reply' \in Replies(ListedEntry) /\ sys' \in {sys, sys} /\ faults' \subseteq Faults
      /\ ~(faults' \subseteq {"loud"}) => (Thrown \/ Fatal \/ Malformed \/ (pc = "done" /\ NoValue))'
      /\ faults' = {} => /\ sys' = sys /\ reply'.body = body
                         /\ reply'.success /\ reply'.stderr \in {"empty", "words"}
  BY <1>1, <1>3, <1>4, EntryTypes, ScriptRepliesFacts
<1> QED BY <1>1, <1>4, <1>5 DEF AsBefore

LEMMA SetJson ==
  ASSUME JsonShape, Spotted, RunSet
  PROVE  /\ pc = "set" /\ pc' = "done"
         /\ UNCHANGED <<shoulds, upds, chgs, outcome, quiet>> /\ before' = sys
         /\ reply' \in Replies(ToldEntry) /\ sys' \in [Name -> PackageState] /\ faults' \subseteq Faults
         /\ faults \subseteq faults'
         /\ ~(faults' \subseteq {"loud"}) => (Thrown \/ Fatal \/ Malformed \/ (pc = "done" /\ NoValue))'
         /\ faults' = {} =>
              /\ Reached(sys', Len(upds))
              /\ \A i \in DOMAIN reply'.body.entries :
                   reply'.body.entries[i].chgs =
                     Told(reply'.body.entries[i].name, sys[reply'.body.entries[i].name],
                          sys'[reply'.body.entries[i].name]).chgs
              /\ \A i \in DOMAIN upds :
                   \/ Mentioned(UpdateName(upds[i]))'
                   \/ UpdateName(upds[i]) \in Silent(sys', reply'.body.derive)
<1>1. /\ pc = "set" /\ pc' = "done"
      /\ UNCHANGED <<shoulds, upds, chgs, outcome, quiet>> /\ before' = sys
      /\ faults \subseteq {"loud"}
  BY DEF RunSet, Spotted
<1>6. PICK t \in Outcomes : \E body \in SetReplies(t) : ScriptReplies(body, t)
  BY DEF RunSet
<1>2. PICK body \in SetReplies(t) : ScriptReplies(body, t)
  BY <1>6
<1>3. Reached(t, Len(upds)) /\ t \in [Name -> PackageState]
  BY OutcomesFacts DEF Reached
<1>4. /\ body \in Bodies(ToldEntry)
      /\ \A i \in DOMAIN body.entries :
           body.entries[i].chgs =
             Told(body.entries[i].name, sys[body.entries[i].name], t[body.entries[i].name]).chgs
      /\ \A i \in DOMAIN upds :
           \/ \E j \in DOMAIN body.entries : body.entries[j].name = UpdateName(upds[i])
           \/ UpdateName(upds[i]) \in Silent(t, body.derive)
  BY <1>3, SetRepliesFacts
<1>5. /\ reply' \in Replies(ToldEntry) /\ sys' \in {sys, t} /\ faults' \subseteq Faults /\ faults \subseteq faults'
      /\ ~(faults' \subseteq {"loud"}) => (Thrown \/ Fatal \/ Malformed \/ (pc = "done" /\ NoValue))'
      /\ faults' = {} => /\ sys' = t /\ reply'.body = body
                         /\ reply'.success /\ reply'.stderr \in {"empty", "words"}
  BY <1>1, <1>2, <1>4, EntryTypes, ScriptRepliesFacts
<1>7. sys' \in [Name -> PackageState]
  BY <1>3, <1>5, JsonFacts
<1> QED BY <1>1, <1>3, <1>4, <1>5, <1>7 DEF Mentioned

LEMMA GotPairs ==
  ASSUME JsonShape, Fetched, Got
  PROVE  upds' \in Seq({x \in Updates :
           /\ UpdateName(x) = x.should.name /\ \E j \in DOMAIN shoulds : x.should = shoulds[j]
           /\ faults = {} => AsBefore(x.is)})
<1>1. pc = "got" /\ upds' = Pair(shoulds, Iss, Attr) /\ shoulds \in Seq(PackageShould)
  BY JsonFacts DEF Got
<1> DEFINE es == reply.body.entries
           R == {r \in Found : faults = {} => AsBefore(r)}
           U == {x \in Updates : /\ x.is \in R /\ UpdateName(x) = x.should.name
                                 /\ \E j \in DOMAIN shoulds : x.should = shoulds[j]}
           V == {x \in Updates : /\ UpdateName(x) = x.should.name /\ \E j \in DOMAIN shoulds : x.should = shoulds[j]
                                 /\ faults = {} => AsBefore(x.is)}
<1>2. es \in Seq(ListedEntry)
  BY <1>1 DEF JsonShape, Replies, Bodies
<1>3. faults = {} => \A i \in DOMAIN es : AsBefore(es[i])
  BY <1>1 DEF Fetched
<1>4. Iss = [i \in DOMAIN es |-> Resource(es[i].name, es[i].attrs)]
  BY DEF Iss
<1> HIDE DEF es
<1>5. DOMAIN es = 1..Len(es) /\ Len(es) \in Nat /\ \A i \in DOMAIN es : es[i] \in ListedEntry
  BY <1>2
<1>6. \A i \in DOMAIN es : Resource(es[i].name, es[i].attrs) \in R
  BY <1>3, <1>5 DEF Resource, ListedEntry, Found, AsBefore
<1>7. \A n \in Name : Blank(n, Attr) \in R
  BY DEF Blank, Resource, Found, Value, AsBefore
<1>8. R \in SUBSET Found
  OBVIOUS
<1> HIDE DEF R
<1>9. Iss \in Seq(R)
  BY <1>4, <1>5, <1>6
<1>10. upds' \in Seq(U)
  BY <1>1, <1>7, <1>8, <1>9, PairBatch
<1>11. U \subseteq V
  BY DEF R
<1> HIDE DEF U, V
<1>12. upds' \in Seq(V)
  BY <1>10, <1>11
<1> QED BY <1>12 DEF V

LEMMA ToldChanges ==
  ASSUME NEW es \in Seq(ToldEntry)
  PROVE  /\ DOMAIN es = 1..Len(es) /\ Len(es) \in Nat
         /\ \A i \in DOMAIN es : es[i].name \in Name /\ es[i].chgs \in Seq(Difference)
<1>1. \A i \in DOMAIN es : es[i] \in ToldEntry
  OBVIOUS
<1>2. \A x \in ToldEntry : x.name \in Name /\ x.chgs \in Seq(Difference)
  BY DEF ToldEntry
<1> QED BY <1>1, <1>2

\* The changes that the reply has for a package.
LEMMA ReportedFacts ==
  ASSUME JsonShape, pc = "done", NEW n \in Name,
         NEW T \in SUBSET Difference,
         \A i \in DOMAIN reply.body.entries :
           reply.body.entries[i].name = n =>
             \A j \in DOMAIN reply.body.entries[i].chgs : reply.body.entries[i].chgs[j] \in T
  PROVE  /\ Reported(n) \in Seq(T)
         /\ \A i \in DOMAIN reply.body.entries :
              reply.body.entries[i].name = n =>
                \A j \in DOMAIN reply.body.entries[i].chgs :
                  Exists(Reported(n), reply.body.entries[i].chgs[j].attr)
<1> DEFINE es == reply.body.entries
           part(i) == IF es[i].name = n THEN es[i].chgs ELSE <<>>
           parts == [i \in DOMAIN es |-> part(i)]
<1>1. es \in Seq(ToldEntry)
  BY DEF JsonShape, Replies, Bodies
<1>2. Reported(n) = FlattenSeq(parts)
  BY DEF Reported
<1> HIDE DEF es
<1>3. DOMAIN es = 1..Len(es) /\ Len(es) \in Nat /\ \A i \in DOMAIN es : es[i].chgs \in Seq(Difference)
  BY <1>1, ToldChanges
<1>4. ASSUME NEW i \in DOMAIN es PROVE part(i) \in Seq(T)
  <2>1. CASE es[i].name = n
    <3>1. es[i].chgs \in Seq(Difference) /\ \A j \in DOMAIN es[i].chgs : es[i].chgs[j] \in T
      BY <1>3, <2>1 DEF es
    <3> DEFINE c == es[i].chgs
    <3>2. c \in Seq(Difference) /\ \A j \in DOMAIN c : c[j] \in T
      BY <3>1
    <3> HIDE DEF c
    <3>3. c \in Seq(T)
      BY <3>2
    <3> QED BY <2>1, <3>3 DEF c
  <2>2. CASE es[i].name # n
    BY <2>2
  <2> QED BY <2>1, <2>2
<1>5. \A i \in DOMAIN es : es[i].name = n => part(i) = es[i].chgs
  OBVIOUS
<1> HIDE DEF part
<1>6. parts \in Seq(Seq(T)) /\ DOMAIN parts = 1..Len(es) /\ Len(parts) = Len(es) /\ \A i \in DOMAIN es : parts[i] = part(i)
  BY <1>3, <1>4
<1> HIDE DEF parts
<1>7. FlattenSeq(parts) \in Seq(T)
  BY <1>6, FlattenType
<1>8. ASSUME NEW i \in DOMAIN es, es[i].name = n, NEW j \in DOMAIN es[i].chgs
      PROVE  Exists(Reported(n), es[i].chgs[j].attr)
  <2>1. parts[i] = es[i].chgs /\ i \in 1..Len(parts)
    BY <1>3, <1>5, <1>6, <1>8
  <2>2. j \in 1..Len(parts[i])
    <3> DEFINE c == es[i].chgs
    <3>1. c \in Seq(Difference) /\ j \in DOMAIN c
      BY <1>3, <1>8
    <3> HIDE DEF c
    <3>2. j \in 1..Len(c)
      BY <3>1
    <3> QED BY <2>1, <3>2 DEF c
  <2>3. PICK k \in 1..Len(FlattenSeq(parts)) : FlattenSeq(parts)[k] = parts[i][j]
    BY <1>6, <2>1, <2>2, FlattenHolds
  <2>4. k \in DOMAIN FlattenSeq(parts)
    BY <1>7, <2>3
  <2> QED BY <1>2, <2>1, <2>3, <2>4 DEF Exists
<1> QED BY <1>2, <1>7, <1>8 DEF es

\* The update that set() derives the changes of a package from.
LEMMA DerivedFrom ==
  ASSUME JsonShape, NEW n \in Name
  PROVE  \/ Derived(n) = <<>> /\ (~reply.body.derive \/ Mentioned(n) \/ \A i \in DOMAIN upds : UpdateName(upds[i]) # n)
         \/ \E i \in DOMAIN upds :
              /\ UpdateName(upds[i]) = n /\ Derived(n) = MaybeAdd(<<>>, AttrSeq, upds[i])
              /\ ~Mentioned(n)
<1> DEFINE own == {i \in DOMAIN upds : UpdateName(upds[i]) = n}
<1>1. own \subseteq Nat
  BY JsonFacts
<1>2. CASE ~reply.body.derive \/ Mentioned(n) \/ own = {}
  BY <1>2 DEF Derived
<1>3. CASE ~(~reply.body.derive \/ Mentioned(n) \/ own = {})
  <2>1. Min(own) \in own
    BY <1>1, <1>3, LeastNumber
  <2>2. Derived(n) = MaybeAdd(<<>>, AttrSeq, upds[Min(own)])
    BY <1>3 DEF Derived
  <2> HIDE DEF own
  <2>3. \E i \in own : Derived(n) = MaybeAdd(<<>>, AttrSeq, upds[i])
    BY <2>1, <2>2
  <2> QED BY <1>3, <2>3 DEF own
<1> QED BY <1>2, <1>3

LEMMA DiffType ==
  ASSUME JsonShape, NEW i \in DOMAIN upds, NEW a \in Attr
  PROVE  Diff(upds[i], a) \in Difference
<1>1. upds[i].should \in PackageShould /\ upds[i].is \in Found
  BY JsonFacts
<1>2. upds[i].should.attrs[a] \in Value /\ upds[i].is.attrs[a] \in Value
  BY <1>1, AttrIs, ShouldType DEF Value, Found
<1> QED BY <1>2 DEF Diff, Change, Difference

LEMMA SetShape ==
  ASSUME JsonShape, Set
  PROVE  chgs' \in [Name -> Seq(Difference)]
<1>1. pc = "done" /\ chgs' = [n \in Name |-> Reported(n) \o Derived(n)]
  BY DEF Set
<1>2. ASSUME NEW n \in Name PROVE Reported(n) \o Derived(n) \in Seq(Difference)
  <2>1. reply.body.entries \in Seq(ToldEntry)
    BY <1>1 DEF JsonShape, Replies, Bodies
  <2>2. \A i \in DOMAIN reply.body.entries : reply.body.entries[i].chgs \in Seq(Difference)
    BY <2>1, ToldChanges
  <2>3. \A c \in Seq(Difference) : \A j \in DOMAIN c : c[j] \in Difference
    OBVIOUS
  <2>4. Reported(n) \in Seq(Difference)
    BY <1>1, <2>2, <2>3, ReportedFacts
  <2>5. Derived(n) \in Seq(Difference)
    <3>1. <<>> \in Seq(Difference)
      OBVIOUS
    <3>2. AttrSeq \in Seq(Attr) /\ "ensure" \in Attr
      BY AttrIs DEF AttrSeq
    <3>3. \A i \in DOMAIN upds : MaybeAdd(<<>>, AttrSeq, upds[i]) \in Seq(Difference)
      <4> SUFFICES ASSUME NEW i \in DOMAIN upds PROVE MaybeAdd(<<>>, AttrSeq, upds[i]) \in Seq(Difference)
        OBVIOUS
      <4>1. \A a \in Attr : Changed(upds[i], a) => Diff(upds[i], a) \in Difference
        BY DiffType
      <4> QED BY <3>1, <3>2, <4>1, MaybeAddFacts
    <3> QED BY <3>1, <3>3, DerivedFrom
  <2> HIDE DEF Reported, Derived
  <2> QED BY <2>4, <2>5
<1> QED BY <1>1, <1>2

LEMMA JsonShapeStep ==
  ASSUME JsonShape, Spotted, Fetched, [JsonNext]_jsonVars
  PROVE  JsonShape'
<1>1. ASSUME NEW batch \in Calls, GetCall(batch) PROVE JsonShape'
  <2>1. /\ pc = "idle" /\ pc' = "got" /\ shoulds' = batch /\ before' = sys
        /\ UNCHANGED <<upds, chgs, outcome, quiet>> /\ upds = <<>> /\ quiet
    BY <1>1 DEF GetCall, JsonShape
  <2>2. reply' \in Replies(ListedEntry) /\ sys' = sys /\ faults' \subseteq Faults
    BY <1>1, CallJson
  <2>3. shoulds' \in Seq(PackageShould)
    BY <2>1, CallsAssumption
  <2>4. /\ reply'.success \in BOOLEAN /\ reply'.stderr \in {"empty", "words", "bare"}
        /\ reply'.body.kind \in {"empty", "garbage", "object"}
    BY <2>2 DEF Replies, Bodies
  <2>5. DOMAIN <<>> = {}
    OBVIOUS
  <2>6. JsonTypeOK'
    BY <2>1, <2>2, <2>3, <2>4, <2>5 DEF JsonShape, JsonTypeOK
  <2> QED BY <2>1, <2>2, <2>5, <2>6 DEF JsonShape
<1>2. CASE Admin
  <2>1. /\ pc = "set" /\ ~quiet' /\ quiet' \in BOOLEAN
        /\ UNCHANGED <<pc, reply, shoulds, upds, chgs, outcome, before, faults>>
    BY <1>2 DEF Admin
  <2>2. sys' \in [Name -> PackageState]
    BY <1>2, JsonFacts DEF Admin
  <2>3. JsonTypeOK'
    BY <2>1, <2>2 DEF JsonShape, JsonTypeOK
  <2> QED BY <2>1, <2>3 DEF JsonShape
<1>3. CASE Crashes \/ ReplyFails
  <2>1. /\ pc' = "returned" /\ outcome' \in {"crash", "error"}
        /\ UNCHANGED <<sys, reply, shoulds, before, quiet, faults, upds, chgs>>
    BY <1>3 DEF Crashes, ReplyFails, Give, Keep
  <2>2. JsonTypeOK'
    BY <2>1 DEF JsonShape, JsonTypeOK
  <2> QED BY <2>1, <2>2 DEF JsonShape
<1>4. CASE Got
  <2>1. /\ pc = "got" /\ pc' = "set"
        /\ UNCHANGED <<sys, reply, shoulds, before, quiet, faults, chgs, outcome>>
    BY <1>4 DEF Got, Keep
  <2> DEFINE U == {x \in Updates :
                     /\ UpdateName(x) = x.should.name /\ \E j \in DOMAIN shoulds : x.should = shoulds[j]
                     /\ faults = {} => AsBefore(x.is)}
  <2>2. upds' \in Seq(U)
    BY <1>4, GotPairs
  <2>3. \A i \in DOMAIN upds' : upds'[i] \in U
    BY <2>2
  <2>4. upds' \in Seq(Updates)
    BY <2>2
  <2>5. \A i \in DOMAIN upds' : /\ upds'[i].should \in PackageShould /\ UpdateName(upds'[i]) = upds'[i].should.name
                                /\ \E j \in DOMAIN shoulds : upds'[i].should = shoulds[j]
    BY <2>3 DEF Updates
  <2> HIDE DEF U
  <2>6. JsonTypeOK'
    BY <2>1, <2>5 DEF JsonShape, JsonTypeOK, UpdateName
  <2> QED BY <2>1, <2>4, <2>5, <2>6 DEF JsonShape
<1>5. CASE RunSet
  <2>1. /\ pc = "set" /\ pc' = "done"
        /\ UNCHANGED <<shoulds, upds, chgs, outcome, quiet>> /\ before' = sys
        /\ reply' \in Replies(ToldEntry) /\ sys' \in [Name -> PackageState] /\ faults' \subseteq Faults
    BY <1>5, SetJson
  <2>2. /\ reply'.success \in BOOLEAN /\ reply'.stderr \in {"empty", "words", "bare"}
        /\ reply'.body.kind \in {"empty", "garbage", "object"}
    BY <2>1 DEF Replies, Bodies
  <2>3. JsonTypeOK'
    BY <2>1, <2>2 DEF JsonShape, JsonTypeOK
  <2> QED BY <2>1, <2>3 DEF JsonShape
<1>6. CASE Set
  <2>1. /\ pc = "done" /\ pc' = "returned" /\ outcome' = "ok"
        /\ UNCHANGED <<sys, reply, shoulds, before, quiet, faults, upds>>
    BY <1>6 DEF Set, Give, Keep
  <2>2. chgs' \in [Name -> Seq(Difference)]
    BY <1>6, SetShape
  <2>3. ASSUME NEW n \in Name, NEW i \in DOMAIN chgs'[n] PROVE chgs'[n][i].attr \in Attr
    <3> DEFINE c == chgs'[n]
    <3>1. c \in Seq(Difference) /\ i \in DOMAIN c
      BY <2>2, <2>3
    <3> HIDE DEF c
    <3>2. c[i] \in Difference
      BY <3>1
    <3>3. c[i].attr \in Attr
      BY <3>2 DEF Difference
    <3> QED BY <3>3 DEF c
  <2>4. JsonTypeOK'
    BY <2>1, <2>3 DEF JsonShape, JsonTypeOK
  <2> QED BY <2>1, <2>2, <2>4 DEF JsonShape
<1>7. CASE Drop
  <2>1. /\ pc' = "idle" /\ outcome' = "none" /\ reply' = NoReply
        /\ shoulds' = <<>> /\ upds' = <<>> /\ chgs' = [n \in Name |-> <<>>]
        /\ before' = sys /\ quiet' = TRUE /\ faults' = {} /\ sys' = sys
    BY <1>7 DEF Drop
  <2>2. DOMAIN <<>> = {} /\ <<>> \in Seq(PackageShould) /\ <<>> \in Seq(Updates) /\ <<>> \in Seq(Difference)
    OBVIOUS
  <2>3. /\ NoReply.success \in BOOLEAN /\ NoReply.stderr \in {"empty", "words", "bare"}
        /\ NoReply.body.kind \in {"empty", "garbage", "object"}
    BY DEF NoReply, Reply, NoBody, Body
  <2>4. JsonTypeOK'
    BY <2>1, <2>2, <2>3 DEF JsonShape, JsonTypeOK
  <2>5. chgs' \in [Name -> Seq(Difference)]
    BY <2>1, <2>2
  <2> QED BY <2>1, <2>2, <2>4, <2>5 DEF JsonShape
<1>8. CASE UNCHANGED jsonVars
  BY <1>8 DEF jsonVars, JsonShape, JsonTypeOK
<1> QED BY <1>1, <1>2, <1>3, <1>4, <1>5, <1>6, <1>7, <1>8 DEF JsonNext

LEMMA SpottedStep ==
  ASSUME JsonShape, Spotted, [JsonNext]_jsonVars
  PROVE  Spotted'
<1>1. ASSUME NEW batch \in Calls, GetCall(batch) PROVE Spotted'
  <2>1. pc' = "got" /\ outcome' # "ok"
    BY <1>1 DEF GetCall, JsonShape
  <2> QED BY <1>1, <2>1, CallJson DEF Spotted
<1>2. CASE Admin
  BY <1>2 DEF Admin, Spotted
<1>3. CASE Crashes \/ ReplyFails
  BY <1>3 DEF Crashes, ReplyFails, Give, Spotted
<1>4. CASE Got
  BY <1>4 DEF Got, Keep, Spotted
<1>5. CASE RunSet
  <2>1. pc' = "done" /\ outcome' # "ok"
    BY <1>5 DEF RunSet, JsonShape
  <2> QED BY <1>5, <2>1, SetJson DEF Spotted
<1>6. CASE Set
  BY <1>6 DEF Set, Give, Keep, Spotted
<1>7. CASE Drop
  BY <1>7 DEF Drop, Spotted
<1>8. CASE UNCHANGED jsonVars
  <2>1. UNCHANGED <<reply, pc, faults, outcome>>
    BY <1>8 DEF jsonVars
  <2>2. Flaw' = Flaw
    BY <2>1 DEF Flaw
  <2> QED BY <2>1, <2>2 DEF Spotted, Thrown, Fatal, Malformed, NoValue
<1> QED BY <1>1, <1>2, <1>3, <1>4, <1>5, <1>6, <1>7, <1>8 DEF JsonNext

LEMMA FetchedStep ==
  ASSUME JsonShape, Fetched, Spotted, [JsonNext]_jsonVars
  PROVE  Fetched'
<1>1. ASSUME NEW batch \in Calls, GetCall(batch) PROVE Fetched'
  <2>1. pc' = "got"
    BY <1>1 DEF GetCall
  <2> QED BY <1>1, <2>1, CallJson DEF Fetched
<1>2. CASE Admin
  BY <1>2 DEF Admin, Fetched
<1>3. CASE Crashes \/ ReplyFails \/ Set \/ Drop
  BY <1>3 DEF Crashes, ReplyFails, Set, Drop, Give, Fetched
<1>4. CASE Got
  <2>1. pc' = "set" /\ UNCHANGED <<before, faults>>
    BY <1>4 DEF Got, Keep
  <2> DEFINE U == {x \in Updates :
                     /\ UpdateName(x) = x.should.name /\ \E j \in DOMAIN shoulds : x.should = shoulds[j]
                     /\ faults = {} => AsBefore(x.is)}
  <2>2. upds' \in Seq(U)
    BY <1>4, GotPairs
  <2>3. \A i \in DOMAIN upds' : upds'[i] \in U
    BY <2>2
  <2>4. faults = {} => \A i \in DOMAIN upds' : AsBefore(upds'[i].is)
    BY <2>3
  <2> HIDE DEF U
  <2> QED BY <2>1, <2>4 DEF Fetched, AsBefore
<1>5. CASE RunSet
  <2>1. /\ pc = "set" /\ pc' = "done" /\ UNCHANGED <<upds, quiet>> /\ before' = sys /\ faults \subseteq faults'
    BY <1>5, SetJson
  <2>2. quiet => before = sys
    BY <2>1 DEF JsonShape
  <2> QED BY <2>1, <2>2 DEF Fetched, AsBefore
<1>6. CASE UNCHANGED jsonVars
  BY <1>6 DEF jsonVars, Fetched, AsBefore
<1> QED BY <1>1, <1>2, <1>3, <1>4, <1>5, <1>6 DEF JsonNext

LEMMA AccountedStep ==
  ASSUME JsonShape, Spotted, Accounted, [JsonNext]_jsonVars
  PROVE  Accounted'
<1>1. CASE RunSet
  <2> SUFFICES ASSUME faults' = {} PROVE Accounted'
    BY DEF Accounted
  <2>1. /\ pc' = "done" /\ UNCHANGED <<shoulds, upds>> /\ before' = sys /\ Reached(sys', Len(upds))
        /\ \A i \in DOMAIN reply'.body.entries :
             reply'.body.entries[i].chgs =
               Told(reply'.body.entries[i].name, sys[reply'.body.entries[i].name],
                    sys'[reply'.body.entries[i].name]).chgs
        /\ \A i \in DOMAIN upds :
             \/ Mentioned(UpdateName(upds[i]))'
             \/ UpdateName(upds[i]) \in Silent(sys', reply'.body.derive)
    BY <1>1, SetJson
  <2>2. \A n \in Name : sys'[n] = "unknown" <=> sys[n] = "unknown"
    BY <2>1 DEF Reached
  <2>3. ASSUME NEW i \in DOMAIN upds, OncePerName(shoulds),
               Sensible(upds[i].should, sys[UpdateName(upds[i])]), sys'[UpdateName(upds[i])] # "unknown"
        PROVE  AsAsked(upds[i].should, sys'[UpdateName(upds[i])])
    <3>1. i \in 1..Len(upds)
      BY JsonFacts
    <3> QED BY <2>1, <2>3, <3>1 DEF Reached
  <2>4. ASSUME NEW i \in DOMAIN upds, ~Mentioned(UpdateName(upds[i]))', sys'[UpdateName(upds[i])] # sys[UpdateName(upds[i])]
        PROVE  /\ reply'.body.derive /\ AsAsked(upds[i].should, sys'[UpdateName(upds[i])])
               /\ \A a \in Attr : Attrs(sys'[UpdateName(upds[i])])[a] \notin {None, Attrs(sys[UpdateName(upds[i])])[a]} =>
                    upds[i].should.attrs[a] # None
    <3> DEFINE n == UpdateName(upds[i])
    <3>1. n \in Silent(sys', reply'.body.derive)
      BY <2>1, <2>4
    <3>2. reply'.body.derive /\ Derivable(n, sys'[n])
      BY <2>4, <3>1 DEF Silent
    <3> QED BY <3>2 DEF Derivable, AsAsked
  <2> QED BY <2>1, <2>2, <2>3, <2>4 DEF Accounted, Gained
<1>2. CASE Admin \/ Crashes \/ ReplyFails \/ Got \/ Set \/ Drop \/ \E batch \in Calls : GetCall(batch)
  <2>1. pc' # "done"
    BY <1>2 DEF Admin, Crashes, ReplyFails, Got, Set, Drop, GetCall, Give
  <2> QED BY <2>1 DEF Accounted
<1>3. CASE UNCHANGED jsonVars
  <2>1. UNCHANGED <<sys, pc, reply, shoulds, upds, before, faults>>
    BY <1>3 DEF jsonVars
  <2> QED BY <2>1 DEF Accounted, Mentioned, Gained
<1> QED BY <1>1, <1>2, <1>3 DEF JsonNext

LEMMA DoneTruthful ==
  ASSUME JsonShape, Fetched, Accounted, pc = "done", faults = {}, quiet, OncePerName(shoulds),
         NEW i \in DOMAIN upds, NEW n \in Name, UpdateName(upds[i]) = n,
         Sensible(upds[i].should, before[n]), sys[n] # "unknown"
  PROVE  Truthful(Reported(n) \o Derived(n), before[n], sys[n])
<1> DEFINE s == before[n]
           t == sys[n]
           es == reply.body.entries
           T == {x \in Difference : x.is = Attrs(t)[x.attr]}
           r == Reported(n)
           d == Derived(n)
<1>1. s \in PackageState /\ t \in PackageState /\ s # "unknown" /\ es \in Seq(ToldEntry)
  BY JsonFacts DEF Accounted, JsonShape, Replies, Bodies
<1>2. ASSUME NEW j \in DOMAIN es, es[j].name = n
      PROVE  /\ \A k \in DOMAIN es[j].chgs : es[j].chgs[k] \in T
             /\ \A a \in Attr : Attrs(t)[a] # Attrs(s)[a] => \E k \in DOMAIN es[j].chgs : es[j].chgs[k].attr = a
  <2>1. es[j].chgs = Told(n, s, t).chgs
    BY <1>2 DEF Accounted
  <2>2. es[j].chgs \in Seq(Difference)
    BY <1>1, ToldChanges
  <2> DEFINE c == es[j].chgs
  <2>3. c \in Seq(Difference) /\ c = Told(n, s, t).chgs
    BY <2>1, <2>2
  <2> HIDE DEF c, s, t
  <2>4. \A k \in DOMAIN c : c[k] \in Difference
    BY <2>3
  <2>5. /\ \A k \in DOMAIN c : c[k].is = Attrs(t)[c[k].attr]
        /\ \A a \in Attr : Attrs(t)[a] # Attrs(s)[a] => \E k \in DOMAIN c : c[k].attr = a
    BY <1>1, <2>3, ToldFacts
  <2> QED BY <2>4, <2>5 DEF c
<1>3. /\ r \in Seq(T)
      /\ \A j \in DOMAIN es : es[j].name = n => \A k \in DOMAIN es[j].chgs : Exists(r, es[j].chgs[k].attr)
  <2>1. T \in SUBSET Difference
    OBVIOUS
  <2> HIDE DEF T
  <2> QED BY <1>2, <2>1, ReportedFacts
<1>4. ASSUME NEW k \in DOMAIN upds, UpdateName(upds[k]) = n
      PROVE  upds[k].should = upds[i].should /\ upds[k].should \in PackageShould
             /\ \A a \in Attr : upds[k].is.attrs[a] \in {None, Attrs(s)[a]}
  <2>1. upds[k].should = upds[i].should /\ upds[k].should \in PackageShould
    BY <1>4, SameWish, JsonFacts
  <2>2. AsBefore(upds[k].is)
    BY DEF Fetched
  <2>3. upds[k].is.name = n
    BY <1>4 DEF UpdateName
  <2> QED BY <2>1, <2>2, <2>3 DEF AsBefore
<1>5. ~Mentioned(n) => \/ t = s
                       \/ /\ reply.body.derive /\ AsAsked(upds[i].should, t)
                          /\ \A a \in Attr : Attrs(t)[a] \notin {None, Attrs(s)[a]} => upds[i].should.attrs[a] # None
  BY DEF Accounted, Gained
<1>6. AsAsked(upds[i].should, t)
  BY DEF Accounted
<1>7. ASSUME NEW k \in DOMAIN upds, UpdateName(upds[k]) = n
      PROVE  \A a \in Attr : Changed(upds[k], a) => Diff(upds[k], a) \in T
  <2> SUFFICES ASSUME NEW a \in Attr, Changed(upds[k], a) PROVE Diff(upds[k], a) \in T
    OBVIOUS
  <2>1. upds[k].should.attrs[a] = Attrs(t)[a]
    BY <1>4, <1>6, <1>7 DEF AsAsked, Changed
  <2>2. Diff(upds[k], a) \in Difference
    BY DiffType
  <2> QED BY <2>1, <2>2 DEF Diff, Change
<1> HIDE DEF s, t, es, T
<1>8. d \in Seq(T)
  <2>1. <<>> \in Seq(T) /\ AttrSeq \in Seq(Attr) /\ "ensure" \in Attr
    BY AttrIs DEF AttrSeq
  <2>2. CASE d = <<>>
    BY <2>1, <2>2
  <2>3. ASSUME NEW k \in DOMAIN upds, UpdateName(upds[k]) = n, d = MaybeAdd(<<>>, AttrSeq, upds[k])
        PROVE  d \in Seq(T)
    <3>1. \A a \in Attr : Changed(upds[k], a) => Diff(upds[k], a) \in T
      BY <1>7, <2>3
    <3> QED BY <2>1, <2>3, <3>1, MaybeAddFacts
  <2> QED BY <2>2, <2>3, DerivedFrom
<1>9. ASSUME NEW a \in Attr, Attrs(t)[a] \notin {None, Attrs(s)[a]} PROVE Exists(r, a) \/ Exists(d, a)
  <2>1. CASE Mentioned(n)
    <3>1. PICK j \in DOMAIN es : es[j].name = n
      BY <2>1 DEF Mentioned, es
    <3>2. PICK k \in DOMAIN es[j].chgs : es[j].chgs[k].attr = a
      BY <1>2, <1>9, <3>1
    <3>3. Exists(r, es[j].chgs[k].attr)
      BY <1>3, <3>1
    <3> QED BY <3>2, <3>3
  <2>2. CASE ~Mentioned(n)
    <3>1. reply.body.derive /\ upds[i].should.attrs[a] # None
      BY <1>5, <1>9, <2>2
    <3>2. PICK k \in DOMAIN upds : UpdateName(upds[k]) = n /\ d = MaybeAdd(<<>>, AttrSeq, upds[k])
      BY <2>2, <3>1, DerivedFrom
    <3>3. /\ upds[k].should = upds[i].should /\ upds[k].should \in PackageShould
          /\ \A b \in Attr : upds[k].is.attrs[b] \in {None, Attrs(s)[b]}
      BY <1>4, <3>2
    <3>4. \A b \in Attr : Changed(upds[k], b) => Diff(upds[k], b) \in T
      BY <1>7, <3>2
    <3>5. <<>> \in Seq(T)
      OBVIOUS
    <3>6. Sensible(upds[k].should, s) /\ AsAsked(upds[k].should, t) /\ upds[k].should.attrs[a] # None
      BY <1>6, <3>1, <3>3 DEF s
    <3> DEFINE x == upds[k]
               o == <<>>
    <3>7. /\ x.should \in PackageShould /\ Sensible(x.should, s) /\ AsAsked(x.should, t)
          /\ (\A b \in Attr : x.is.attrs[b] \in {None, Attrs(s)[b]}) /\ x.should.attrs[a] # None
          /\ (\A b \in Attr : Changed(x, b) => Diff(x, b) \in T) /\ o \in Seq(T) /\ d = MaybeAdd(o, AttrSeq, x)
      BY <3>2, <3>3, <3>4, <3>5, <3>6
    <3> HIDE DEF x, o
    <3> QED BY <1>1, <1>9, <3>7, DueTruthful
  <2> QED BY <2>1, <2>2
<1> DEFINE c == r \o d
<1> HIDE DEF r, d
<1>10. /\ c \in Seq(T) /\ Len(c) = Len(r) + Len(d) /\ Len(r) \in Nat /\ Len(d) \in Nat
       /\ \A k \in 1..Len(r) : c[k] = r[k]
       /\ \A k \in 1..Len(d) : c[Len(r) + k] = d[k]
  BY <1>3, <1>8, ConcatFacts
<1>11. DOMAIN c = 1..Len(c) /\ DOMAIN r = 1..Len(r) /\ DOMAIN d = 1..Len(d)
  BY <1>3, <1>8, <1>10
<1> HIDE DEF c
<1>12. \A k \in DOMAIN c : c[k].is = Attrs(t)[c[k].attr]
  <2>1. \A k \in DOMAIN c : c[k] \in T
    BY <1>10
  <2> QED BY <2>1 DEF T
<1>13. ASSUME NEW a \in Attr, Exists(r, a) \/ Exists(d, a) PROVE Exists(c, a)
  <2>1. CASE Exists(r, a)
    <3>1. PICK k \in 1..Len(r) : r[k].attr = a
      BY <1>11, <2>1 DEF Exists
    <3>2. k \in DOMAIN c
      BY <1>10, <1>11
    <3> QED BY <1>10, <3>1, <3>2 DEF Exists
  <2>2. CASE Exists(d, a)
    <3>1. PICK k \in 1..Len(d) : d[k].attr = a
      BY <1>11, <2>2 DEF Exists
    <3>2. Len(r) + k \in DOMAIN c
      BY <1>10, <1>11
    <3> QED BY <1>10, <3>1, <3>2 DEF Exists
  <2> QED BY <1>13, <2>1, <2>2
<1>14. \A a \in Attr : Attrs(t)[a] \notin {None, Attrs(s)[a]} => Exists(c, a)
  BY <1>9, <1>13
<1>15. Truthful(c, s, t)
  BY <1>12, <1>14 DEF Truthful
<1> QED BY <1>15 DEF c, r, d, s, t

LEMMA DoneStep ==
  ASSUME JsonShape, Fetched, Accounted, DoneAsReported, [JsonNext]_jsonVars
  PROVE  DoneAsReported'
<1>1. CASE Set
  <2>1. /\ pc = "done" /\ chgs' = [n \in Name |-> Reported(n) \o Derived(n)]
        /\ UNCHANGED <<sys, shoulds, before, quiet, faults, upds>>
    BY <1>1 DEF Set, Keep
  <2> SUFFICES ASSUME OncePerName(shoulds), faults = {}, NEW i \in DOMAIN upds, NEW n, n = UpdateName(upds[i]),
                      Sensible(upds[i].should, before[n]), sys[n] # "unknown"
               PROVE  AsAsked(upds[i].should, sys[n]) /\ (quiet => Truthful(chgs'[n], before[n], sys[n]))
    BY <2>1 DEF DoneAsReported
  <2>2. n \in Name
    BY JsonFacts
  <2>3. AsAsked(upds[i].should, sys[n])
    BY <2>1 DEF Accounted
  <2>4. quiet => Truthful(Reported(n) \o Derived(n), before[n], sys[n])
    BY <2>1, <2>2, DoneTruthful
  <2>5. chgs'[n] = Reported(n) \o Derived(n)
    BY <2>1, <2>2
  <2> QED BY <2>3, <2>4, <2>5
<1>2. CASE Admin \/ Crashes \/ ReplyFails \/ Got \/ RunSet \/ Drop \/ \E batch \in Calls : GetCall(batch)
  <2>1. outcome' # "ok"
    BY <1>2 DEF Admin, Crashes, ReplyFails, Got, RunSet, Drop, GetCall, Give, JsonShape
  <2> QED BY <2>1 DEF DoneAsReported
<1>3. CASE UNCHANGED jsonVars
  <2>1. UNCHANGED <<sys, shoulds, upds, chgs, outcome, before, quiet, faults>>
    BY <1>3 DEF jsonVars
  <2> QED BY <2>1 DEF DoneAsReported
<1> QED BY <1>1, <1>2, <1>3 DEF JsonNext

\* The inductive invariant: what is wrong with a reply is found before it is
\* used, and what the replies say is what the script found and did
\* (json_provider.cc).
THEOREM JsonInductive == JsonSpec => []JsonInd
<1>1. JsonInit => JsonInd
  <2> SUFFICES ASSUME JsonInit PROVE JsonInd
    OBVIOUS
  <2>1. DOMAIN <<>> = {} /\ <<>> \in Seq(PackageShould) /\ <<>> \in Seq(Updates) /\ <<>> \in Seq(Difference)
    OBVIOUS
  <2>2. /\ NoReply.success \in BOOLEAN /\ NoReply.stderr \in {"empty", "words", "bare"}
        /\ NoReply.body.kind \in {"empty", "garbage", "object"}
    BY DEF NoReply, Reply, NoBody, Body
  <2>3. JsonTypeOK
    BY <2>1, <2>2 DEF JsonInit, JsonTypeOK
  <2>4. JsonShape
    BY <2>1, <2>3 DEF JsonInit, JsonShape
  <2>5. Spotted /\ Fetched /\ Accounted /\ DoneAsReported
    BY DEF JsonInit, Spotted, Fetched, Accounted, DoneAsReported
  <2> QED BY <2>4, <2>5 DEF JsonInd
<1>2. JsonInd /\ [JsonNext]_jsonVars => JsonInd'
  BY JsonShapeStep, SpottedStep, FetchedStep, AccountedStep, DoneStep DEF JsonInd
<1> QED BY <1>1, <1>2, PTL DEF JsonSpec

\* The model's state has the types that its definitions say (json_provider.cc).
THEOREM JsonTypeCorrect == JsonSpec => []JsonTypeOK
<1>1. JsonInd => JsonTypeOK
  BY DEF JsonInd, JsonShape
<1> QED BY <1>1, JsonInductive, PTL

\* A set() of a json provider that succeeds was told of no fault by either run
\* of its script, but for a failure with a complete reply and words on stderr
\* (run_action, resource_from_json and set in json_provider.cc).
THEOREM NoSpoiltReplyIsTaken == JsonSpec => []NoSpoiltReplyTaken
<1>1. JsonInd => NoSpoiltReplyTaken
  BY DEF JsonInd, Spotted, NoSpoiltReplyTaken
<1> QED BY <1>1, JsonInductive, PTL

\* A batch that succeeds has brought every package to what was asked, and the
\* changes reported are those it went through, whether the script mentions the
\* package or leaves it to be derived (set in json_provider.cc).
THEOREM JsonDoneAsReported == JsonSpec => []DoneAsReported
<1>1. JsonInd => DoneAsReported
  BY DEF JsonInd
<1> QED BY <1>1, JsonInductive, PTL
=============================================================================
