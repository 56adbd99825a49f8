---------------------------- MODULE SimpleProvider ----------------------------
(***************************************************************************)
(* The providers that are scripts with the `simple` calling convention     *)
(* (simple_provider.cc): set() runs the script once to look its resources  *)
(* up and once for each update that changes something, and reads what it   *)
(* prints line by line.                                                    *)
(*                                                                         *)
(* The script is external: it follows doc/invoke-simple.md, except that it *)
(* may die, fail or print garbage at any point of its output.  Here it     *)
(* manages packages.                                                       *)
(*                                                                         *)
(* Abstracted: the white space around values, the text of errors, stderr.  *)
(***************************************************************************)
EXTENDS Packages

VARIABLES
  out,      \* lines the script has yet to print
  exit,     \* whether it will exit with status 0
  mode,     \* what run_action expects: "header", "entries", "message" or, the
            \* lines being wrong or an error, "failed": it reads no more
  res,      \* the resources find() or instances() has read
  unknown,  \* find's local variable of this name
  derive,   \* set's local variable of this name
  next      \* as in the other providers

script == <<sys, out, exit>>
call == <<shoulds, upds, next, before, faults>>
simpleVars == <<script, pc, mode, call, res, unknown, derive, chgs, outcome>>

-----------------------------------------------------------------------------
(* The script. *)

Line(key, value) == [key |-> key, value |-> value]
Header == Line("# simple", None)
ErrorLine == Line("ral_error", None)
Eom == Line("ral_eom", None)
Junk == Line("junk", "junk")    \* a line without a colon is its key and value

Lines ==
  {Header, ErrorLine, Eom, Junk} \cup
  [key: {"name", "ral_unknown", "ral_derive", "ral_was", "ensure", "version"},
   value: Name \cup Version \cup {None, "true", "present", "absent"}]

Written(n) ==
  <<Line("name", n)>> \o
  IF sys[n] = "unknown" THEN <<Line("ral_unknown", "true")>>
  ELSE LET has == InOrder({a \in Attr : Attrs(sys[n])[a] # None})
       IN  [i \in DOMAIN has |-> Line(has[i], Attrs(sys[n])[has[i]])]

Listing == FlattenSeq([i \in 1..Cardinality(Name) |->
             LET n == SetToSeq(Name)[i] IN IF sys[n] \in Version THEN Written(n) ELSE <<>>])

\* What the script prints once n has gone from sys[n] to s: every change, or
\* only what differs from the arguments and ral_derive.
Reports(n, args, s) ==
  LET new == Attrs(s)
      old == Attrs(sys[n])
      changed == {a \in Attr : new[a] \notin {None, old[a]}}
      own == {a \in changed : args[a] # new[a]}
      change(attrs) == FlattenSeq([i \in DOMAIN InOrder(attrs) |->
        LET a == InOrder(attrs)[i] IN <<Line(a, new[a]), Line("ral_was", old[a])>>])
  IN  IF s = "unknown" THEN {Written(n)}
      ELSE {<<Line("name", n)>> \o change(changed)} \cup
           IF \E a \in Attr : args[a] \notin {None, new[a]} THEN {}
           ELSE {<<Line("ral_derive", "true")>> \o change(own),
                 <<Line("name", n)>> \o change(own) \o <<Line("ral_derive", "true")>>}

\* The script goes through its reply, and n ends in state s, or a fault cuts it
\* short, in which case n may still be in state t.  It dies and its exit status
\* tells, prints an error, begins one that it does not end, or prints garbage.
ScriptRuns(reply, n, s, t) ==
  LET full == <<Header>> \o reply
      tail(f) == CASE f = "died" -> <<>> [] f = "error" -> <<ErrorLine, Eom>>
                   [] f = "unfinished" -> <<ErrorLine>> [] f = "garbage" -> <<Junk>>
  IN  \/ out' = full /\ exit' = TRUE /\ sys' = [sys EXCEPT ![n] = s] /\ UNCHANGED faults
      \/ \E k \in 0..Len(full), f \in {"died", "error", "unfinished", "garbage"}, e \in {s, t} :
           /\ out' = SubSeq(full, 1, k) \o tail(f)
           /\ exit' = (f # "died")
           /\ sys' = [sys EXCEPT ![n] = e]
           /\ faults' = faults \cup {f}

-----------------------------------------------------------------------------
SimpleInit ==
  /\ sys \in [Name -> PackageState]
  /\ pc = "idle"
  /\ out = <<>> /\ exit = TRUE /\ mode = "header"
  /\ shoulds = <<>> /\ res = <<>> /\ unknown = FALSE /\ derive = FALSE
  /\ upds = <<>> /\ next = 1
  /\ chgs = [n \in Name |-> <<>>]
  /\ outcome = "none"
  /\ before = sys
  /\ faults = {}

\* provider::set up to the run of the script in get(), which finds a batch of
\* one and lists the packages for any other.  find() does not initialize
\* `unknown`.
Call(batch) ==
  /\ pc = "idle"
  /\ shoulds' = batch
  /\ before' = sys
  /\ LET n == IF batch = <<>> THEN CHOOSE m \in Name : TRUE ELSE batch[1].name IN
     IF Len(batch) = 1
     THEN /\ pc' = "find"
          /\ unknown' \in BOOLEAN
          /\ ScriptRuns(Written(n), n, sys[n], sys[n])
     ELSE /\ pc' = "list"
          /\ UNCHANGED unknown
          /\ ScriptRuns(Listing, n, sys[n], sys[n])
  /\ mode' = "header"
  /\ UNCHANGED <<res, derive, upds, next, chgs, outcome>>

Running == pc \in {"find", "list", "update"}

\* run_action's out_cb is called with the next line.
Reading == Running /\ out # <<>> /\ mode # "failed"

line == Head(out)

\* An entry is due: the line goes to the entry_cb of find, instances or set.
EntryDue == Reading /\ mode = "entries" /\ line # ErrorLine

\* A line without a colon is an error and still goes to entry_cb, whose result
\* decides nothing then.
EntryRead(accepted) ==
  /\ out' = Tail(out)
  /\ mode' = IF accepted /\ line # Junk THEN "entries" ELSE "failed"

ReadHeader ==
  /\ Reading /\ mode = "header"
  /\ out' = Tail(out)
  /\ mode' = IF line = Header THEN "entries" ELSE "failed"
  /\ UNCHANGED <<sys, exit, pc, call, res, unknown, derive, chgs, outcome>>

\* An error begins, and everything up to ral_eom is its text.
ReadError ==
  /\ Reading
  /\ \/ mode = "message"
     \/ mode = "entries" /\ line = ErrorLine
  /\ out' = Tail(out)
  /\ mode' = IF mode = "message" /\ line = Eom THEN "failed" ELSE "message"
  /\ UNCHANGED <<sys, exit, pc, call, res, unknown, derive, chgs, outcome>>

LastWith(attr, value) ==
  [res EXCEPT ![Len(res)].attrs =
    [a \in Attr |-> IF a = attr THEN value ELSE @[a]]]

\* The entry_cb of find (80-91) and of instances (108-119), which looks before
\* it takes res.back().
ReadResource ==
  /\ EntryDue
  /\ pc \in {"find", "list"}
  /\ \/ /\ line.key = "name"
        /\ res' = Append(res, Blank(line.value, Attr))
        /\ EntryRead(TRUE) /\ UNCHANGED unknown
     \/ /\ line.key = "ral_unknown" /\ pc = "find"
        /\ unknown' = TRUE
        /\ EntryRead(TRUE) /\ UNCHANGED res
     \/ /\ line.key # "name" /\ (line.key = "ral_unknown" => pc = "list")
        /\ res # <<>> \/ pc = "list"
        /\ res' = IF res = <<>> THEN res ELSE LastWith(line.key, line.value)
        /\ EntryRead(res # <<>>) /\ UNCHANGED unknown
  /\ UNCHANGED <<sys, exit, pc, call, derive, chgs, outcome>>

u == upds[next]

\* The entry_cb of set (29-44).
ReadChange ==
  /\ EntryDue
  /\ pc = "update"
  /\ LET n == UpdateName(u)
         last == Len(chgs[n])
     IN  \/ /\ line.key = "ral_derive"
            /\ derive' = (line.value = "true")
            /\ EntryRead(TRUE) /\ UNCHANGED chgs
         \/ /\ line.key = "name"
            /\ EntryRead(line.value = n) /\ UNCHANGED <<derive, chgs>>
         \/ /\ line.key = "ral_was" /\ last > 0
            /\ chgs' = [chgs EXCEPT ![n][last].was = line.value]
            /\ EntryRead(TRUE) /\ UNCHANGED derive
         \/ /\ line.key \notin {"ral_derive", "name", "ral_was"}
            /\ chgs' = [chgs EXCEPT ![n] = Append(@, Change(line.key, line.value, None))]
            /\ EntryRead(TRUE) /\ UNCHANGED derive
  /\ UNCHANGED <<sys, exit, pc, call, res, unknown, outcome>>

\* back() of an empty vector: an attribute before the name in find's reply, or
\* a ral_was before any change.  Anything may follow; here the program ends.
ReadBeforeFirst ==
  /\ EntryDue
  /\ \/ pc = "find" /\ line.key \notin {"name", "ral_unknown"} /\ res = <<>>
     \/ pc = "update" /\ line.key = "ral_was" /\ chgs[UpdateName(u)] = <<>>
  /\ Give("crash")
  /\ UNCHANGED <<script, mode, call, res, unknown, derive, chgs>>

\* run_action ends.
Ended(ok) ==
  /\ Running
  /\ out = <<>> \/ mode = "failed"
  /\ ok <=> mode # "failed" /\ exit

\* RunFails that looks at the exit status only.
RunFailsOnExit ==
  /\ Ended(FALSE)
  /\ Give(IF exit THEN "ok" ELSE "error")
  /\ UNCHANGED <<script, mode, call, res, unknown, derive, chgs>>

RunFails ==
  /\ Ended(FALSE)
  /\ Give("error")
  /\ UNCHANGED <<script, mode, call, res, unknown, derive, chgs>>

\* find() and instances() return, and provider::set pairs what they found.
LookupDone ==
  /\ pc \in {"find", "list"}
  /\ Ended(TRUE)
  /\ upds' = Pair(shoulds, IF pc = "find" /\ unknown THEN <<>> ELSE res, Attr)
  /\ pc' = "set"
  /\ UNCHANGED <<script, mode, shoulds, next, before, faults, res, unknown, derive, chgs, outcome>>

Processing == pc = "set" /\ next \in DOMAIN upds

\* Args that compares only what the lookup has found.
FoundArgs ==
  [a \in Attr |-> IF u.is.attrs[a] # None /\ Changed(u, a) THEN u.should.attrs[a] ELSE None]

Args == [a \in Attr |-> IF Changed(u, a) THEN u.should.attrs[a] ELSE None]

NothingToDo ==
  /\ Processing
  /\ \A a \in Attr : Args[a] = None
  /\ next' = next + 1
  /\ UNCHANGED <<script, pc, mode, shoulds, upds, before, faults, res, unknown, derive, chgs, outcome>>

\* The script is run with the attributes that change.
RunUpdate ==
  /\ Processing
  /\ \E a \in Attr : Args[a] # None
  /\ LET n == UpdateName(u) IN
     \E s \in Results(sys[n], Args) : \E reply \in Reports(n, Args, s) :
       ScriptRuns(reply, n, s, sys[n])
  /\ pc' = "update"
  /\ mode' = "header"
  /\ derive' = FALSE
  /\ UNCHANGED <<shoulds, upds, next, before, res, unknown, chgs, outcome>>

\* UpdateDone with two mistakes: a counter that skips an update, and
\* ral_derive ignored.
SkippingUpdateDone ==
  /\ pc = "update"
  /\ Ended(TRUE)
  /\ chgs' = [chgs EXCEPT ![UpdateName(u)] = IF derive THEN MaybeAdd(@, AttrSeq, u) ELSE @]
  /\ next' = next + 2
  /\ pc' = "set"
  /\ UNCHANGED <<script, mode, shoulds, upds, before, faults, res, unknown, derive, outcome>>

UnderivedUpdateDone ==
  /\ pc = "update"
  /\ Ended(TRUE)
  /\ next' = next + 1
  /\ pc' = "set"
  /\ UNCHANGED <<script, mode, shoulds, upds, before, faults, res, unknown, derive, chgs, outcome>>

UpdateDone ==
  /\ pc = "update"
  /\ Ended(TRUE)
  /\ chgs' = [chgs EXCEPT ![UpdateName(u)] = IF derive THEN MaybeAdd(@, AttrSeq, u) ELSE @]
  /\ next' = next + 1
  /\ pc' = "set"
  /\ UNCHANGED <<script, mode, shoulds, upds, before, faults, res, unknown, derive, outcome>>

Finish ==
  /\ pc = "set" /\ next > Len(upds)
  /\ Give("ok")
  /\ UNCHANGED <<script, mode, call, res, unknown, derive, chgs>>

\* The caller drops the result, and with it the context.
Release ==
  /\ pc = "returned"
  /\ pc' = "idle" /\ outcome' = "none"
  /\ out' = <<>> /\ exit' = TRUE /\ mode' = "header"
  /\ shoulds' = <<>> /\ res' = <<>> /\ unknown' = FALSE /\ derive' = FALSE
  /\ upds' = <<>> /\ next' = 1 /\ chgs' = [n \in Name |-> <<>>]
  /\ before' = sys /\ faults' = {}
  /\ UNCHANGED sys

Step ==
  \/ ReadHeader \/ ReadError \/ ReadResource \/ ReadChange \/ ReadBeforeFirst
  \/ RunFails \/ LookupDone \/ NothingToDo \/ RunUpdate \/ UpdateDone \/ Finish

SimpleNext == Step \/ (\E batch \in Calls : Call(batch)) \/ Release

SimpleSpec == SimpleInit /\ [][SimpleNext]_simpleVars

-----------------------------------------------------------------------------
SimpleTypeOK ==
  /\ sys \in [Name -> PackageState]
  /\ before \in [Name -> PackageState]
  /\ pc \in {"idle", "find", "list", "set", "update", "returned"}
  /\ mode \in {"header", "entries", "message", "failed"}
  /\ out \in Seq(Lines) /\ exit \in BOOLEAN
  /\ unknown \in BOOLEAN /\ derive \in BOOLEAN
  /\ faults \subseteq {"died", "error", "unfinished", "garbage"}
  /\ shoulds \in Seq(PackageShould)
  /\ upds \in Seq([is: [name: Name, attrs: [Attr -> Version \cup {None, "present", "absent"}]],
                   should: PackageShould])
  /\ next \in 1..Len(upds) + 1
  /\ \A n \in Name : \A i \in DOMAIN chgs[n] : chgs[n][i].attr \in Attr \cup {"ral_unknown", "junk"}
  /\ outcome \in {"none", "ok", "error", "crash"}

Distinct == OncePerName(shoulds)

\* A set() that returns ok was told of no fault of a script, whichever run of
\* it failed, wherever in its output, and however it said so (invoke-simple.md,
\* "Error reporting").  An error that is not ended goes unnoticed.
NoFaultUnnoticed == outcome = "ok" => faults \subseteq {"unfinished"}

\* A batch that succeeded has brought every package to what was asked, although
\* the script is told only what differs from a lookup that may have found
\* nothing.
Converged ==
  outcome = "ok" /\ Distinct /\ faults = {} =>
    \A i \in DOMAIN shoulds :
      LET n == shoulds[i].name IN
      Sensible(shoulds[i], before[n]) /\ sys[n] # "unknown" => AsAsked(shoulds[i], sys[n])

\* The changes reported for a package are those it went through: the last one
\* of an attribute says what it is now, and no attribute that changed is
\* missing, whether the script reports it or leaves it to be derived.
ChangesTruthful ==
  outcome = "ok" /\ Distinct /\ faults = {} =>
    \A i \in DOMAIN upds :
      LET n == UpdateName(upds[i]) IN
      Sensible(upds[i].should, before[n]) /\ sys[n] # "unknown" =>
        Truthful(chgs[n], before[n], sys[n])
=============================================================================
