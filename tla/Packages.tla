-------------------------------- MODULE Packages --------------------------------
(***************************************************************************)
(* What the models of the two providers that run a script have in common:  *)
(* what the script manages, packages, and the state of a set().  A package *)
(* is absent, of some version, or cannot exist.  The script is external to *)
(* the library; its metadata gives a package the attributes ensure and     *)
(* version, both strings.                                                  *)
(***************************************************************************)
EXTENDS Naturals, FiniteSets, Resources

CONSTANTS
  Name,      \* packages
  Version,   \* versions
  Calls      \* the batches of shoulds set() is called with

VARIABLES
  sys,      \* each package: its version, "absent", or "unknown": it cannot exist
  pc,       \* "idle", a run of the script, "set" or "returned"
  shoulds,  \* the batch
  upds, chgs, outcome,  \* as in the other providers
  before,   \* history: an earlier sys
  faults    \* history: what went wrong with the scripts of the call

ASSUME WordsAssumption ==
  /\ {None, "absent", "unknown", "present", "true"} \cap Version = {}
  /\ None \notin {"absent", "unknown", "present", "true"}

PackageState == Version \cup {"absent", "unknown"}

Attr == {"ensure", "version"}

\* The order of a std::map: that of the names.
AttrSeq == <<"ensure", "version">>

PackageShould ==
  [name: Name,
   attrs: {f \in [Attr -> {None, "present", "absent"} \cup Version] :
             /\ f["ensure"] \in {None, "present", "absent"}
             /\ f["version"] \in Version \cup {None}}]

ASSUME CallsAssumption == IsFiniteSet(Name) /\ Calls \subseteq Seq(PackageShould)

\* Those of some attributes, in that order.
InOrder(attrs) ==
  (IF "ensure" \in attrs THEN <<"ensure">> ELSE <<>>) \o
  (IF "version" \in attrs THEN <<"version">> ELSE <<>>)

\* The attributes of a package in state s.
Attrs(s) ==
  [a \in Attr |->
    IF a = "ensure" THEN IF s \in Version THEN "present" ELSE "absent"
    ELSE IF s \in Version THEN s ELSE None]

\* The states an update with arguments args may bring a package in state s to.
Results(s, args) ==
  CASE s = "unknown" -> {s}
    [] s # "unknown" /\ args["ensure"] = "absent" -> {"absent"}
    [] s = "absent" /\ args["ensure"] = None -> {s}
    [] s = "absent" /\ args = [ensure |-> "present", version |-> None] -> Version
    [] OTHER -> {IF args["version"] = None THEN s ELSE args["version"]}

\* Each package is named once.
OncePerName(batch) ==
  \A i, j \in DOMAIN batch : batch[i].name = batch[j].name => i = j

\* A package, in state s so far, is asked to go, or to be there, or its version
\* is named only where the package is there already.
Sensible(should, s) ==
  CASE should.attrs["ensure"] = "absent" -> should.attrs["version"] = None
    [] should.attrs["ensure"] = "present" -> TRUE
    [] OTHER -> s # "absent"

\* A package in state s is as asked.
AsAsked(should, s) == \A a \in Attr : should.attrs[a] \in {None, Attrs(s)[a]}

\* The changes c reported of a package that went from state s to state t: the
\* last one of an attribute says what it is now, and no attribute that changed
\* is missing.
Truthful(c, s, t) ==
  /\ \A j \in DOMAIN c :
       \/ c[j].is = Attrs(t)[c[j].attr]
       \/ \E k \in j + 1..Len(c) : c[k].attr = c[j].attr
  /\ \A a \in Attr : Attrs(t)[a] \notin {None, Attrs(s)[a]} => Exists(c, a)

Give(result) == pc' = "returned" /\ outcome' = result
=============================================================================
