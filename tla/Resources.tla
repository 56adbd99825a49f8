------------------------------ MODULE Resources ------------------------------
(***************************************************************************)
(* The values every libral provider works on: resources, updates (the is   *)
(* and the should of one resource), lists of changes, and what             *)
(* provider::set and the emitters do with them.                            *)
(*                                                                         *)
(* A resource is its name and a function from attribute names to values.   *)
(* None stands for value::none and for an attribute the map does not hold: *)
(* resource::operator[] const returns the same for both.                   *)
(***************************************************************************)
EXTENDS Naturals, Sequences, SequencesExt

CONSTANT None

Resource(name, attrs) == [name |-> name, attrs |-> attrs]

\* provider::create(name): a resource with no attribute set.
Blank(name, Attr) == Resource(name, [a \in Attr |-> None])

\* resource::lookup<std::string>(key, deflt).
Lookup(rsrc, attr, deflt) ==
  IF rsrc.attrs[attr] = None THEN deflt ELSE rsrc.attrs[attr]

Update(is, should) == [is |-> is, should |-> should]

UpdateName(upd) == upd.is.name

\* Changed without the comparison.
AskedFor(upd, attr) == upd.should.attrs[attr] # None

Changed(upd, attr) ==
  /\ upd.should.attrs[attr] # None
  /\ upd.is.attrs[attr] # upd.should.attrs[attr]

\* update::operator[]: the should value when there is one, else the is value.
Desired(upd, attr) == Lookup(upd.should, attr, upd.is.attrs[attr])

\* Present read off the wrong resource.
PresentInShould(upd) == Lookup(upd.should, "ensure", "absent") # "absent"

Present(upd) == Lookup(upd.is, "ensure", "absent") # "absent"

-----------------------------------------------------------------------------
(* The changes a provider records for one resource: a sequence. *)

Change(attr, is, was) == [attr |-> attr, is |-> is, was |-> was]

\* changes::add(attr, upd): one entry when the update changes the attribute.
AddDiff(chgs, attr, upd) ==
  IF Changed(upd, attr)
  THEN Append(chgs, Change(attr, upd.should.attrs[attr], upd.is.attrs[attr]))
  ELSE chgs

\* changes::add(attrs, upd).
AddDiffs(chgs, attrs, upd) ==
  FoldLeft(LAMBDA acc, a : AddDiff(acc, a, upd), chgs, attrs)

Exists(chgs, attr) == \E i \in DOMAIN chgs : chgs[i].attr = attr

\* changes::maybe_add: the differences not on record yet, of an absent resource
\* only the one in ensure.
MaybeAdd(chgs, attrs, upd) ==
  LET due == IF Desired(upd, "ensure") = "absent" THEN <<"ensure">> ELSE attrs
      added[i \in 0..Len(due)] ==
        IF i = 0 THEN chgs
        ELSE IF Exists(added[i - 1], due[i]) THEN added[i - 1]
        ELSE AddDiff(added[i - 1], due[i], upd)
  IN  added[Len(due)]

-----------------------------------------------------------------------------
(* Lists of things that have a name. *)

\* The members of seq, in order, that have the name n, or those that have not.
Sift(seq, n, keep) ==
  LET part[i \in 0..Len(seq)] ==
        IF i = 0 THEN <<>>
        ELSE IF (seq[i].name = n) = keep THEN Append(part[i - 1], seq[i]) ELSE part[i - 1]
  IN  part[Len(seq)]

Under(seq, n) == Sift(seq, n, TRUE)

Without(seq, n) == Sift(seq, n, FALSE)

-----------------------------------------------------------------------------
(* provider::set before and after the provider's own set. *)

\* Each should is paired with EVERY resource get() returned under its name,
\* and with a blank one when there is none.
Pair(shoulds, iss, Attr) ==
  FlattenSeq([i \in DOMAIN shoulds |->
    LET same == Under(iss, shoulds[i].name)
    IN  IF same = <<>>
        THEN <<Update(Blank(shoulds[i].name, Attr), shoulds[i])>>
        ELSE [j \in DOMAIN same |-> Update(same[j], shoulds[i])]])

\* context::add_absent: a resource with ensure = absent for each name that no
\* resource before it has.
AddAbsent(rsrcs, names, Attr) ==
  LET all[i \in 0..Len(names)] ==
        IF i = 0 THEN rsrcs
        ELSE IF \E j \in DOMAIN all[i - 1] : all[i - 1][j].name = names[i] THEN all[i - 1]
        ELSE Append(all[i - 1], Resource(names[i], [Blank(names[i], Attr).attrs
                                                      EXCEPT !["ensure"] = "absent"]))
  IN  all[Len(names)]
=============================================================================
