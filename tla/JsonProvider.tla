----------------------------- MODULE JsonProvider -----------------------------
(***************************************************************************)
(* The providers that are scripts with the `json` calling convention       *)
(* (json_provider.cc): set() runs the script twice, to get the resources   *)
(* and to set all that are to change in one go, and reads each reply once  *)
(* the script has ended.                                                   *)
(*                                                                         *)
(* The script is external: it follows doc/invoke-json.md, except that it   *)
(* may die, report an error or reply with something else.  It manages      *)
(* packages.                                                               *)
(*                                                                         *)
(* Abstracted: JSON's syntax and the text of errors; a JSON null is None.  *)
(***************************************************************************)
EXTENDS Packages

VARIABLES
  reply,    \* how the last run of the script ended and what it printed
  quiet     \* history: nobody else changed a package between the two runs

jsonVars == <<sys, pc, reply, shoulds, upds, chgs, outcome, before, quiet, faults>>

-----------------------------------------------------------------------------
(* The replies of the script. *)

\* What stdout holds: nothing, no JSON, or an object with an array of entries.
Body(kind, entries, derive) ==
  [kind |-> kind, error |-> FALSE, listed |-> TRUE, entries |-> entries, derive |-> derive]

NoBody == Body("empty", <<>>, FALSE)
Garbage == Body("garbage", <<>>, FALSE)

\* stderr is empty, or has lines to log, one of which may be the bare name of a
\* level.
Reply(success, stderr, body) == [success |-> success, stderr |-> stderr, body |-> body]

NoReply == Reply(TRUE, "empty", NoBody)

\* An entry of "resources".  A package that cannot exist has only an error, an
\* attribute the metadata does not know.
Listed(n) ==
  [name |-> n, attrs |-> IF sys[n] = "unknown" THEN Blank(n, Attr).attrs ELSE Attrs(sys[n]),
   flaw |-> IF sys[n] = "unknown" THEN "extra" ELSE "none"]

\* The packages that were asked for, or all of them.
GetReplies(names) ==
  {Body("object", [i \in 1..Cardinality(ns) |-> Listed(SetToSeq(ns)[i])], FALSE) :
     ns \in {names, Name}}

\* An entry of "changes", for a package that has gone from state s to state t.
Told(n, s, t) ==
  LET differing == InOrder({a \in Attr : Attrs(s)[a] # Attrs(t)[a]})
  IN  [name |-> n,
       chgs |-> [i \in DOMAIN differing |->
                   Change(differing[i], Attrs(t)[differing[i]], Attrs(s)[differing[i]])],
       flaw |-> IF t = "unknown" THEN "is" ELSE "none"]

\* Where the updates may bring the packages.  Each comes with its whole should.
Outcomes ==
  LET reach[i \in 0..Len(upds)] ==
        IF i = 0 THEN {sys}
        ELSE LET n == UpdateName(upds[i]) IN
             UNION {{[s EXCEPT ![n] = t] : t \in Results(s[n], upds[i].should.attrs)} :
                      s \in reach[i - 1]}
  IN  reach[Len(upds)]

\* The differences of is and should say what happened to the package.
Derivable(n, t) ==
  \A i \in DOMAIN upds :
    LET asked == upds[i].should.attrs IN
    UpdateName(upds[i]) = n =>
      /\ \A a \in Attr : asked[a] \in {None, Attrs(t)[a]}
      /\ \A a \in Attr : Attrs(t)[a] \notin {None, Attrs(sys[n])[a]} => asked[a] # None

\* The packages the script may leave out of its reply.
Silent(t, derive) ==
  {n \in Name : t[n] # "unknown" /\ IF derive THEN Derivable(n, t[n]) ELSE t[n] = sys[n]}

Mentioning(ns, t, derive) ==
  Body("object",
       [i \in 1..Cardinality(ns) |-> LET n == SetToSeq(ns)[i] IN Told(n, sys[n], t[n])],
       derive)

\* It tells of all packages that it was asked about, or of those it must.
SetReplies(t) ==
  LET asked == {UpdateName(upds[i]) : i \in DOMAIN upds}
  IN  {Mentioning(asked, t, derive) : derive \in BOOLEAN} \cup
      {Mentioning(asked \ Silent(t, derive), t, derive) : derive \in BOOLEAN}

\* The ways in which a reply with this body can be spoilt.
Spoilt(body) ==
  [died |-> {Reply(FALSE, e, NoBody) : e \in {"empty", "words"}} \cup
            {Reply(FALSE, "empty", b) : b \in {Garbage, body}} \cup
            {Reply(FALSE, "words", Garbage)},
   loud |-> {Reply(FALSE, "words", body)},
   garbage |-> {Reply(TRUE, "empty", b) : b \in {NoBody, Garbage}} \cup
               {Reply(TRUE, "words", b) : b \in {NoBody, Garbage}},
   error |-> {Reply(TRUE, "empty", [body EXCEPT !.error = TRUE])},
   bare |-> {Reply(TRUE, "bare", body)},
   flawed |-> UNION {{Reply(TRUE, "empty", [body EXCEPT !.entries[i].flaw = f]) : i \in DOMAIN body.entries} :
                       f \in {"name", "type"} \cup IF pc = "idle" THEN {} ELSE {"is", "was"}},
   unlisted |-> IF pc = "idle" THEN {Reply(TRUE, "empty", [body EXCEPT !.listed = FALSE])} ELSE {},
   extra |-> IF pc = "idle" THEN {} ELSE
               {Reply(TRUE, "empty", [body EXCEPT !.entries[i].flaw = "extra"]) :
                  i \in {j \in DOMAIN body.entries : body.entries[j].flaw = "none"}}]

Faults == {"died", "loud", "garbage", "error", "bare", "flawed", "unlisted", "extra"}

\* The script brings the packages to state t and replies with this body, or a
\* fault spoils its reply and perhaps its work.
ScriptReplies(body, t) ==
  \/ /\ reply' \in {Reply(TRUE, e, body) : e \in {"empty", "words"}}
     /\ sys' = t
     /\ UNCHANGED faults
  \/ \E f \in Faults, done \in BOOLEAN :
       /\ reply' \in Spoilt(body)[f]
       /\ sys' = IF done THEN t ELSE sys
       /\ faults' = faults \cup {f}

-----------------------------------------------------------------------------
(* json_provider and the provider::set that calls it. *)

JsonInit ==
  /\ sys \in [Name -> PackageState]
  /\ pc = "idle"
  /\ reply = NoReply
  /\ shoulds = <<>> /\ upds = <<>>
  /\ chgs = [n \in Name |-> <<>>]
  /\ outcome = "none"
  /\ before = sys /\ quiet = TRUE
  /\ faults = {}

\* provider::set up to the run of the script in get().
GetCall(batch) ==
  /\ pc = "idle"
  /\ shoulds' = batch
  /\ before' = sys
  /\ \E body \in GetReplies({batch[i].name : i \in DOMAIN batch}) : ScriptReplies(body, sys)
  /\ pc' = "got"
  /\ UNCHANGED <<upds, chgs, outcome, quiet>>

Keep == UNCHANGED <<sys, reply, shoulds, before, quiet, faults>>

\* run_action gives up after the script has ended.
Fatal ==
  \/ ~reply.success /\ (reply.body.kind = "empty" \/ reply.stderr = "empty")
  \/ reply.body.kind # "object"

\* The first thing wrong with an entry.  In a resource an attribute that the
\* metadata does not know is skipped.
Flaw ==
  LET entries == reply.body.entries
      fine == {"none"} \cup IF pc = "got" THEN {"extra"} ELSE {}
      bad == {i \in DOMAIN entries : entries[i].flaw \notin fine}
  IN  IF bad = {} THEN "none" ELSE entries[Min(bad)].flaw

\* What the caller of run_action finds wrong with the object.
Malformed ==
  \/ reply.body.error
  \/ pc = "got" /\ ~reply.body.listed
  \/ Flaw \in {"name", "is", "was", "type"}

\* context::log_line takes the rest of a line after the level and the next
\* character, and throws where there is none.
Thrown == reply.stderr = "bare"

\* A change of an attribute the metadata does not know: value_from_json has no
\* value for it, and set() takes it all the same.
NoValue == Flaw = "extra"

Crashes ==
  /\ pc \in {"got", "done"}
  /\ Thrown \/ (~Fatal /\ ~Malformed /\ NoValue)
  /\ Give("crash")
  /\ Keep /\ UNCHANGED <<upds, chgs>>

\* ReplyFails that looks at the reply only.
ReplyFailsOnBody ==
  /\ pc \in {"got", "done"} /\ ~Thrown
  /\ Fatal \/ Malformed
  /\ Give(IF reply.body.kind = "object" /\ ~Malformed THEN "ok" ELSE "error")
  /\ Keep /\ UNCHANGED <<upds, chgs>>

ReplyFails ==
  /\ pc \in {"got", "done"} /\ ~Thrown
  /\ Fatal \/ Malformed
  /\ Give("error")
  /\ Keep /\ UNCHANGED <<upds, chgs>>

\* resource_from_json for every entry.
Iss == [i \in DOMAIN reply.body.entries |->
         Resource(reply.body.entries[i].name, reply.body.entries[i].attrs)]

\* Got that takes the script to list what was asked for, in that order.
GotInOrder ==
  /\ pc = "got" /\ ~Thrown /\ ~Fatal /\ ~Malformed
  /\ upds' = [i \in DOMAIN shoulds |->
                Update(IF i \in DOMAIN Iss THEN Iss[i] ELSE Blank(shoulds[i].name, Attr), shoulds[i])]
  /\ pc' = "set"
  /\ Keep /\ UNCHANGED <<chgs, outcome>>

\* get() returns, and provider::set pairs what it found.
Got ==
  /\ pc = "got" /\ ~Thrown /\ ~Fatal /\ ~Malformed
  /\ upds' = Pair(shoulds, Iss, Attr)
  /\ pc' = "set"
  /\ Keep /\ UNCHANGED <<chgs, outcome>>

\* The script is run with the is and the should of every update, whether it
\* changes anything or not.
RunSet ==
  /\ pc = "set"
  /\ \E t \in Outcomes : \E body \in SetReplies(t) : ScriptReplies(body, t)
  /\ pc' = "done"
  /\ before' = sys
  /\ UNCHANGED <<shoulds, upds, chgs, outcome, quiet>>

\* The changes in the reply for package n.
Reported(n) ==
  LET entries == reply.body.entries IN
  FlattenSeq([i \in DOMAIN entries |-> IF entries[i].name = n THEN entries[i].chgs ELSE <<>>])

Mentioned(n) == \E i \in DOMAIN reply.body.entries : reply.body.entries[i].name = n

\* Derived that ignores the flag.
Underived(n) == <<>>

\* A package that has changes_for, if without an entry, is not derived, so that
\* only its first update counts.
Derived(n) ==
  LET own == {i \in DOMAIN upds : UpdateName(upds[i]) = n}
  IN  IF ~reply.body.derive \/ Mentioned(n) \/ own = {} THEN <<>>
      ELSE MaybeAdd(<<>>, AttrSeq, upds[Min(own)])

Set ==
  /\ pc = "done" /\ ~Thrown /\ ~Fatal /\ ~Malformed /\ ~NoValue
  /\ chgs' = [n \in Name |-> Reported(n) \o Derived(n)]
  /\ Give("ok")
  /\ Keep /\ UNCHANGED upds

\* The caller drops the result, and with it the context.
Drop ==
  /\ pc = "returned"
  /\ pc' = "idle" /\ outcome' = "none"
  /\ reply' = NoReply
  /\ shoulds' = <<>> /\ upds' = <<>> /\ chgs' = [n \in Name |-> <<>>]
  /\ before' = sys /\ quiet' = TRUE /\ faults' = {}
  /\ UNCHANGED sys

\* Between the two runs another program changes a package, once in a call.
Admin ==
  /\ pc = "set" /\ quiet
  /\ \E n \in Name, s \in PackageState \ {"unknown"} :
       /\ sys[n] \notin {s, "unknown"}
       /\ sys' = [sys EXCEPT ![n] = s]
  /\ quiet' = FALSE
  /\ UNCHANGED <<pc, reply, shoulds, upds, chgs, outcome, before, faults>>

JsonNext ==
  \/ \E batch \in Calls : GetCall(batch)
  \/ Admin \/ Crashes \/ ReplyFails \/ Got \/ RunSet \/ Set \/ Drop

JsonSpec == JsonInit /\ [][JsonNext]_jsonVars

-----------------------------------------------------------------------------
JsonTypeOK ==
  /\ sys \in [Name -> PackageState] /\ before \in [Name -> PackageState]
  /\ pc \in {"idle", "got", "set", "done", "returned"}
  /\ reply.success \in BOOLEAN /\ reply.stderr \in {"empty", "words", "bare"}
  /\ reply.body.kind \in {"empty", "garbage", "object"}
  /\ quiet \in BOOLEAN /\ faults \subseteq Faults
  /\ shoulds \in Seq(PackageShould)
  /\ \A i \in DOMAIN upds : upds[i].should \in PackageShould /\ UpdateName(upds[i]) = upds[i].should.name
  /\ \A n \in Name : \A i \in DOMAIN chgs[n] : chgs[n][i].attr \in Attr
  /\ outcome \in {"none", "ok", "error", "crash"}

\* A set() that returns ok was told of no fault of the script, neither of the
\* run that got the resources nor of the one that set them (invoke-json.md,
\* "Error reporting"), but for a script that fails with a complete reply and
\* words on stderr: see FatalMeansError.
NoSpoiltReplyTaken == outcome = "ok" => faults \subseteq {"loud"}

\* A batch that succeeded has brought every package to what was asked, if
\* another program changed it since the lookup too.  If none did, the changes
\* reported for it are those it went through: the last one of an attribute says
\* what it is now and none is missing, whether the script mentions the package
\* or leaves it to be derived.
DoneAsReported ==
  outcome = "ok" /\ OncePerName(shoulds) /\ faults = {} =>
    \A i \in DOMAIN upds :
      LET n == UpdateName(upds[i]) IN
      Sensible(upds[i].should, before[n]) /\ sys[n] # "unknown" =>
        /\ AsAsked(upds[i].should, sys[n])
        /\ quiet => Truthful(chgs[n], before[n], sys[n])

-----------------------------------------------------------------------------
\* "Exiting with any other status code will be taken as an indication that the
\* provider encountered a fatal error and all of its output will be
\* disregarded" (invoke-json.md, its last paragraph).
FatalMeansError == outcome = "ok" => "loud" \notin faults
=============================================================================
