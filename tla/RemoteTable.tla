----------------------------- MODULE RemoteTable -----------------------------
(***************************************************************************)
(* A table file on another machine (target/ssh.cc): its text is read over  *)
(* ssh when a provider makes its augeas handle, edited in the tree, and    *)
(* written back by handle::save through a temporary file that is moved     *)
(* into place.                                                             *)
(*                                                                         *)
(* Each remote command may fail, ssh may lose the connection, or the 20    *)
(* seconds of ssh::run may be over: then leatherman throws, which ends the *)
(* whole call.  In the last two cases the command may run on, or begin, at *)
(* any later moment, and every save has the same temporary file: dd may    *)
(* truncate or write it, mv put it in place, during another save.          *)
(*                                                                         *)
(* Abstracted: one table per handle; the white space that read() trims;    *)
(* owner and mode of the file.  Nobody else edits the file.                *)
(***************************************************************************)
EXTENDS Naturals, FiniteSets

CONSTANTS
  TableText,     \* texts of the table its lens accepts
  MaxLate,       \* bound: dds at large at the same time, and moves at large
  NoText, Torn, Bad   \* no text; half a text; a tree that no text stands for

ASSUME TableAssumption ==
  /\ {NoText, Torn, Bad} \cap TableText = {}
  /\ NoText \notin {Torn, Bad}
  /\ MaxLate \in Nat

VARIABLES
  file,      \* the table file
  temp,      \* the temporary file
  left,      \* one of an ended program, which a move may still put in place
  dd,        \* the dd of the save: the file it has open, "path" before it has,
             \* and whether another dd may spoil what it writes there
  transfers, \* the dds that outlived their call: their texts and files
  moves,     \* how many moves outlived their call
  strays,    \* history: "transfer" once a dd outlived its call, "move" once a
             \* move did, "orphan" once one outlived its program, too
  tmpdir,    \* ssh::_tmpdir is set
  in, tree, out,  \* /in, /files and /out of the table
  err,       \* /augeas/files holds an error
  stage,     \* the remote command of the save that is due
  outcome    \* result of the save

files == <<file, temp, left>>
machine == <<files, dd, transfers, moves, strays>>
handle == <<in, tree, out, err>>
tableVars == <<machine, tmpdir, handle, stage, outcome>>

Closed == [to |-> "path", shared |-> FALSE]

Give(result) == stage' = "returned" /\ outcome' = result

TableInit ==
  /\ file \in TableText \cup {NoText}
  /\ temp = NoText /\ left = NoText /\ tmpdir = FALSE
  /\ dd = Closed /\ transfers = {} /\ moves = 0 /\ strays = {}
  /\ in = NoText /\ tree = NoText /\ out = NoText /\ err = FALSE
  /\ stage = "unloaded" /\ outcome = "none"

\* ssh::augeas: the reader stores the text and its tree.  A file that cannot
\* be read is passed over, with no error for handle::load to find.
LoadTable ==
  /\ stage = "unloaded"
  /\ \/ file # NoText /\ in' = file /\ tree' = IF file = Torn THEN NoText ELSE file
     \/ in' = NoText /\ tree' = NoText
  /\ out' = NoText
  /\ err' = FALSE
  /\ stage' = "idle"
  /\ UNCHANGED <<machine, tmpdir, outcome>>

\* A provider edits the tree: see HostProvider and MountProvider.
Edit ==
  /\ stage = "idle"
  /\ tree' \in (TableText \cup {Bad}) \ {tree}
  /\ UNCHANGED <<machine, tmpdir, in, out, err, stage, outcome>>

-----------------------------------------------------------------------------
\* The end of handle::save: any error in the tree is the save's.
Done(failed) ==
  /\ err' = (err \/ failed)
  /\ Give(IF err' THEN "error" ELSE "ok")

\* Each error a remote command reports ends in "write_failed" in the tree.
Failed == Done(TRUE) /\ UNCHANGED <<in, tree, out>>

\* A timeout is an exception: it leaves save() and set().
TimesOut == Give("exception") /\ UNCHANGED handle

\* The writer up to write().  Retrieving fails for a tree without a text, which
\* leaves `out` alone, and when there is no `in` to start from; neither is
\* under /augeas/files.  `in` stays what was read at the start.
Retrieve ==
  /\ stage = "idle"
  /\ out' = IF in # NoText /\ tree \in TableText THEN tree ELSE out
  /\ IF NoText \in {in, out'} \/ in = out'
     THEN Done(FALSE)
     ELSE /\ stage' = IF tmpdir THEN "transfer" ELSE "tmpdir"
          /\ UNCHANGED <<err, outcome>>
  /\ UNCHANGED <<machine, tmpdir, in, tree>>

\* MakeTmpdir that goes on without a directory.
UncheckedTmpdir ==
  /\ stage = "tmpdir"
  /\ tmpdir' \in BOOLEAN
  /\ stage' = "transfer"
  /\ UNCHANGED <<machine, handle, outcome>>

\* mktemp on the target, once.
MakeTmpdir ==
  /\ stage = "tmpdir"
  /\ \/ tmpdir' = TRUE /\ stage' = "transfer" /\ UNCHANGED <<handle, outcome>>
     \/ Failed /\ UNCHANGED tmpdir
     \/ TimesOut /\ UNCHANGED tmpdir
  /\ UNCHANGED machine

-----------------------------------------------------------------------------
(* dd writes the temporary file, mv replaces the table by it. *)

\* A dd that has the file `to` open writes text.
Write(to, text) ==
  /\ temp' = IF to = "temp" THEN text ELSE temp
  /\ file' = IF to = "file" THEN text ELSE file
  /\ left' = IF to = "left" THEN text ELSE left

Content(to) ==
  CASE to = "temp" -> temp [] to = "file" -> file [] to = "left" -> left [] OTHER -> NoText

\* A file stays open when it is moved or replaced.
After(to, place) ==
  IF to = place THEN "file" ELSE IF to = "file" THEN "gone" ELSE to

MoveOf(place) ==
  /\ file' = IF place = "temp" THEN temp ELSE left
  /\ temp' = IF place = "temp" THEN NoText ELSE temp
  /\ left' = IF place = "temp" THEN left ELSE NoText
  /\ dd' = [dd EXCEPT !.to = After(@, place)]
  /\ transfers' = {[d EXCEPT !.to = After(@, place)] : d \in {e \in transfers : e.to # "file"}}

\* StartTransfer with dd writing to the file itself.
DirectTransfer ==
  /\ stage = "transfer"
  /\ stage' = "dd"
  /\ file' = Torn
  /\ dd' = [to |-> "file", shared |-> FALSE]
  /\ UNCHANGED <<temp, left, transfers, moves, strays, tmpdir, handle, outcome>>

\* dd opens the temporary file and truncates it.
StartTransfer ==
  /\ stage = "transfer"
  /\ stage' = "dd"
  /\ temp' = Torn
  /\ dd' = [to |-> "temp", shared |-> \E d \in transfers : d.to = "temp" /\ d.text # out]
  /\ UNCHANGED <<file, left, transfers, moves, strays, tmpdir, handle, outcome>>

\* FinishTransfer that starts over.
EndlessTransfer ==
  /\ stage = "dd"
  /\ stage' = "transfer"
  /\ UNCHANGED <<machine, tmpdir, handle, outcome>>

\* dd has written everything: whole, unless another dd truncated the file or
\* wrote another text in between.
FinishTransfer ==
  /\ stage = "dd"
  /\ \E text \in {out} \cup (IF dd.shared THEN {Torn} ELSE {}) : Write(dd.to, text)
  /\ dd' = Closed
  /\ stage' = "move"
  /\ UNCHANGED <<transfers, moves, strays, tmpdir, handle, outcome>>

\* dd ends early, so that the text is cut, or never starts; or ssh is given up
\* and dd is still to start or to end.
TransferFails ==
  /\ stage \in {"transfer", "dd"}
  /\ \/ UNCHANGED <<transfers, strays>>
     \/ /\ dd.to # "gone" /\ Cardinality(transfers) < MaxLate
        /\ transfers' = transfers \cup {[text |-> out, to |-> dd.to]}
        /\ strays' = strays \cup {"transfer"}
  /\ dd' = Closed
  /\ Failed \/ TimesOut
  /\ UNCHANGED <<files, moves, tmpdir>>

\* mv replaces the file in one step.
Move ==
  /\ stage = "move"
  /\ temp # NoText
  /\ MoveOf("temp")
  /\ Done(FALSE)
  /\ UNCHANGED <<moves, strays, tmpdir, in, tree, out>>

\* MoveFails with the error dropped.
SwallowedFailure ==
  /\ stage = "move"
  /\ Done(FALSE)
  /\ UNCHANGED <<machine, tmpdir, in, tree, out>>

\* mv finds nothing to move or fails; or ssh is given up and mv is done, or
\* still to come.
MoveFails ==
  /\ stage = "move"
  /\ \/ UNCHANGED machine
     \/ temp # NoText /\ MoveOf("temp") /\ UNCHANGED <<moves, strays>>
     \/ /\ moves < MaxLate /\ moves' = moves + 1 /\ strays' = strays \cup {"move"}
        /\ UNCHANGED <<files, dd, transfers>>
  /\ Failed \/ TimesOut
  /\ UNCHANGED tmpdir

-----------------------------------------------------------------------------
(* Commands that outlived their call. *)

Elsewhere == UNCHANGED <<strays, tmpdir, handle, stage, outcome>>

\* dd opens the temporary file of whichever save has it now.
LateStart ==
  /\ \E d \in transfers :
       /\ d.to = "path"
       /\ transfers' = (transfers \ {d}) \cup {[d EXCEPT !.to = "temp"]}
  /\ temp' = Torn
  /\ dd' = [dd EXCEPT !.shared = @ \/ dd.to = "temp"]
  /\ UNCHANGED <<file, left, moves>> /\ Elsewhere

\* dd ends, having written all, some or none of its text over what is there,
\* or without a start.
LateEnd ==
  /\ \E d \in transfers :
       /\ \/ Content(d.to) # d.text /\ \E text \in {d.text, Torn} : Write(d.to, text)
          \/ UNCHANGED files
       /\ transfers' = transfers \ {d}
  /\ UNCHANGED <<dd, moves>> /\ Elsewhere

\* mv moves the temporary file, whatever it is now.
LateMove ==
  /\ moves > 0
  /\ moves' = moves - 1
  /\ IF temp # NoText THEN MoveOf("temp") ELSE UNCHANGED <<files, dd, transfers>>
  /\ Elsewhere

\* mv of a program that has ended.
OrphanMove ==
  /\ left # NoText
  /\ MoveOf("left")
  /\ UNCHANGED moves /\ Elsewhere

\* The caller drops the result; the handle stays.
Release ==
  /\ stage = "returned"
  /\ stage' = "idle"
  /\ outcome' = "none"
  /\ UNCHANGED <<machine, tmpdir, handle>>

\* The program ends, ~ssh removes the temporary directory, or fails to before
\* the last move that is at large, and the next one starts from nothing.
Restart ==
  /\ stage \in {"idle", "returned"}
  /\ stage' = "unloaded"
  /\ outcome' = "none"
  /\ tmpdir' = FALSE
  /\ temp' = NoText /\ moves' = 0
  /\ \/ /\ transfers' = {d \in transfers : d.to \in {"file", "left"}}
        /\ UNCHANGED <<left, strays>>
     \/ /\ moves > 0 /\ temp # NoText
        /\ left' = temp /\ strays' = strays \cup {"orphan"}
        /\ transfers' = {[d EXCEPT !.to = IF @ = "file" THEN @ ELSE "left"] : d \in transfers}
  /\ in' = NoText /\ tree' = NoText /\ out' = NoText /\ err' = FALSE
  /\ UNCHANGED <<file, dd>>

SaveStep ==
  \/ MakeTmpdir \/ StartTransfer \/ FinishTransfer \/ TransferFails
  \/ Move \/ MoveFails

LateStep == LateStart \/ LateEnd \/ LateMove \/ OrphanMove

TableNext == SaveStep \/ LateStep \/ LoadTable \/ Edit \/ Retrieve \/ Release \/ Restart

\* save() is sequential code and every remote command has a time limit.
TableSpec == TableInit /\ [][TableNext]_tableVars /\ WF_tableVars(SaveStep)

-----------------------------------------------------------------------------
Whole == TableText \cup {NoText}

TableTypeOK ==
  /\ {file, temp, left} \subseteq Whole \cup {Torn}
  /\ dd \in [to: {"path", "temp", "file", "gone"}, shared: BOOLEAN]
  /\ transfers \subseteq [text: Whole, to: {"path", "temp", "file", "left"}]
  /\ moves \in 0..MaxLate /\ strays \subseteq {"transfer", "move", "orphan"}
  /\ in \in Whole \cup {Torn} /\ tree \in Whole \cup {Bad} /\ out \in Whole
  /\ err \in BOOLEAN
  /\ stage \in {"unloaded", "idle", "tmpdir", "transfer", "dd", "move", "returned"}
  /\ outcome \in {"none", "ok", "error", "exception"}
  /\ tmpdir \in BOOLEAN /\ (stage \in {"transfer", "dd", "move"} => tmpdir)

\* A save that had something to write and returns ok has written it, however
\* many saves failed or timed out before, and whatever moves they left running
\* in this program.  Once a dd outlived its call this is no longer so: it may
\* start between the dd and the mv of a later save (ssh.cc 214), which moves the
\* truncated text and returns ok.
SavedIsOnDisk ==
  outcome = "ok" /\ out # NoText /\ in # out /\ strays \subseteq {"move"} => file = out

\* The file goes from a whole text to the whole text being saved in one step,
\* and never otherwise, whatever fails or times out, until the first time a
\* remote command outlives its call (ssh.cc 209-247: written beside the file
\* and moved).
ReplacedWhole ==
  [][ strays = {} /\ file' # file => stage = "move" /\ file' = out /\ out # in ]_tableVars

\* Every save() returns.
Answered == (stage \in {"tmpdir", "transfer", "dd", "move"}) ~> (stage = "returned")

-----------------------------------------------------------------------------
\* handle.hpp 31, "Save changes back to disk", for a table that was read and
\* whose tree has a text.
SavedMeansSaved ==
  outcome = "ok" /\ in # NoText /\ tree \in TableText /\ strays = {} => file = tree
=============================================================================
