------------------------ MODULE GroupProvider_proofs ------------------------
(* Theorems about GroupProvider for every set of groups, ids and batch size. *)
EXTENDS GroupProvider, TLAPS

USE GroupAssumption

\* What the types of the state say of one update.
LEMMA UpdateFacts ==
  ASSUME NEW u \in UpdateType
  PROVE  /\ u.should \in Should
         /\ u.should.name \in Group
         /\ UpdateName(u) = u.should.name
         /\ u.is.attrs["gid"] \in Gid \cup {None}
         /\ u.is.attrs["ensure"] =
              IF u.is.attrs["gid"] = None THEN "absent" ELSE "present"
         /\ u.should.attrs["gid"] \in Gid \cup {None}
         /\ u.should.attrs["ensure"] \in {None, "present", "absent"}
<1>1. PICK d \in Database, s \in Should : u = Update(Is(d, s.name), s)
  BY DEF UpdateType
<1>2. /\ s.name \in Group
      /\ s.attrs["gid"] \in Gid \cup {None}
      /\ s.attrs["ensure"] \in {None, "present", "absent"}
  BY DEF Should
<1>3. d[s.name] \in Gid \cup {None}
  BY <1>2 DEF Database
<1> QED
  BY <1>1, <1>2, <1>3 DEF Update, UpdateName, Is, Resource, Attr

\* The updates of a call are a sequence of typed updates.
LEMMA BatchFacts ==
  ASSUME TypeOK
  PROVE  /\ Len(upds) \in Nat
         /\ DOMAIN upds = 1..Len(upds)
         /\ \A i \in DOMAIN upds : upds[i] \in UpdateType
BY DEF TypeOK

\* What the commands may do: change the entry of the update in hand.
LEMMA CommandTouchesOne ==
  ASSUME TypeOK, Processing, NEW d \in CommandResults(upds[next])
  PROVE  /\ d \in Database
         /\ d = [db EXCEPT ![upds[next].should.name] = d[upds[next].should.name]]
<1> DEFINE u == upds[next]
           g == u.should.name
<1>1. u \in UpdateType
  BY BatchFacts DEF Processing
<1>2. UpdateName(u) = g /\ g \in Group
  BY <1>1, UpdateFacts
<1>3. db \in [Group -> Gid \cup {None}]
  BY DEF TypeOK, Database
<1>4. \E n \in Gid \cup {None} : d = [db EXCEPT ![g] = n]
  <2>1. CASE Command(u) = "groupadd"
    <3>1. d \in GroupAddResults(db, g, GidArg(u))
      BY <2>1, <1>2 DEF CommandResults
    <3> QED BY <3>1 DEF GroupAddResults, Free
  <2>2. CASE Command(u) = "groupmod"
    <3>1. d \in GroupModResults(db, g, GidArg(u))
      BY <2>2, <1>2 DEF CommandResults
    <3> QED BY <3>1, <1>2, <1>3 DEF GroupModResults, Free
  <2>3. CASE Command(u) = "groupdel"
    <3>1. d \in GroupDelResults(db, g)
      BY <2>3, <1>2 DEF CommandResults
    <3> QED BY <3>1 DEF GroupDelResults
  <2> QED BY <2>1, <2>2, <2>3 DEF CommandResults
<1> HIDE DEF u, g
<1>5. PICK n \in Gid \cup {None} : d = [db EXCEPT ![g] = n]
  BY <1>4
<1>6. d \in [Group -> Gid \cup {None}] /\ d[g] = n
  BY <1>5, <1>3, <1>2
<1> QED BY <1>5, <1>6 DEF Database, u, g

-----------------------------------------------------------------------------
\* The changes recorded for an update are a sequence, and one that is never
\* empty once the update differs from what was looked up.
LEMMA RecordedFacts ==
  ASSUME TypeOK, NEW u \in UpdateType
  PROVE  /\ Recorded(u) \in Seq(ChangeType)
         /\ UpdateName(u) \in Group
         /\ EnsureOf(u) # StateOf(u) => Recorded(u) # <<>>
         /\ EnsureOf(u) = "present" /\ Changed(u, "gid") => Recorded(u) # <<>>
<1> DEFINE c == chgs[UpdateName(u)]
           e == IF EnsureOf(u) # StateOf(u)
                THEN Append(c, Change("ensure", EnsureOf(u), StateOf(u))) ELSE c
<1>1. UpdateName(u) \in Group
  BY UpdateFacts
<1>2. c \in Seq(ChangeType)
  BY <1>1 DEF TypeOK
<1>3. EnsureOf(u) \in Values /\ StateOf(u) \in Values
  BY UpdateFacts DEF EnsureOf, StateOf, Lookup, Values
<1>4. Change("ensure", EnsureOf(u), StateOf(u)) \in ChangeType
  BY <1>3 DEF Change, ChangeType, Attr
<1>5. Change("gid", u.should.attrs["gid"], u.is.attrs["gid"]) \in ChangeType
  BY UpdateFacts DEF Change, ChangeType, Attr, Values
<1>6. e \in Seq(ChangeType) /\ (EnsureOf(u) # StateOf(u) => e # <<>>)
  BY <1>2, <1>4
<1>7. Recorded(u) = IF EnsureOf(u) = "present" THEN AddDiff(e, "gid", u) ELSE e
  BY DEF Recorded
<1> HIDE DEF e
<1>8. /\ AddDiff(e, "gid", u) \in Seq(ChangeType)
      /\ Changed(u, "gid") \/ e # <<>> => AddDiff(e, "gid", u) # <<>>
  BY <1>5, <1>6 DEF AddDiff
<1> QED BY <1>1, <1>6, <1>7, <1>8

\* The initial states are typed.
LEMMA InitType == Init => TypeOK
BY DEF Init, TypeOK, Database

\* Every step of group.cc, of the commands it runs and of the other programs
\* on the machine keeps the types.
LEMMA TypeStep == TypeOK /\ [Next]_vars => TypeOK'
<1> SUFFICES ASSUME TypeOK, [Next]_vars PROVE TypeOK'
  OBVIOUS
<1> USE BatchFacts
<1>1. CASE NoCommand
  BY <1>1, RecordedFacts DEF TypeOK, NoCommand, Processing, Record
<1>2. CASE RunCommand
  <2>1. db' \in Database
    BY <1>2, CommandTouchesOne DEF RunCommand
  <2>2. Holding(db', upds) \subseteq DOMAIN upds
    BY DEF Holding
  <2> QED
    BY <1>2, <2>1, <2>2, RecordedFacts DEF TypeOK, RunCommand, Processing, Record
<1>3. CASE CommandFails
  BY <1>3, RecordedFacts DEF TypeOK, CommandFails, Processing, Record
<1>4. CASE Finish
  BY <1>4 DEF TypeOK, Finish
<1>5. CASE Release
  <2>1. <<>> \in [1..0 -> UpdateType] /\ Len(<<>>) = 0
    OBVIOUS
  <2>2. upds' \in UNION {[1..n -> UpdateType] : n \in 0..MaxBatch}
    BY <1>5, <2>1 DEF Release, GroupAssumption
  <2>3. next' \in 1..(Len(upds') + 1)
    BY <1>5, <2>1 DEF Release
  <2>4. chgs' \in [Group -> Seq(ChangeType)]
    BY <1>5 DEF Release
  <2> QED BY <1>5, <2>2, <2>3, <2>4 DEF TypeOK, Release
<1>6. CASE Admin
  <2>1. db' \in Database
    BY <1>6 DEF Admin, TypeOK, Database, Free
  <2>2. Holding(db', upds) \subseteq DOMAIN upds
    BY DEF Holding
  <2> QED BY <1>6, <2>1, <2>2 DEF TypeOK, Admin
<1>7. ASSUME NEW shoulds \in Batch, Call(shoulds) PROVE TypeOK'
  <2>1. PICK n \in 0..MaxBatch : shoulds \in [1..n -> Should]
    BY DEF Batch
  <2>2. upds' \in [1..n -> UpdateType]
    BY <1>7, <2>1 DEF Call, UpdateType, TypeOK
  <2>3. Len(upds') = n /\ DOMAIN upds' = 1..n
    BY <2>1, <2>2 DEF GroupAssumption
  <2>4. upds' \in UNION {[1..k -> UpdateType] : k \in 0..MaxBatch}
    BY <2>2
  <2>5. next' \in 1..(Len(upds') + 1)
    BY <1>7, <2>3 DEF Call
  <2>6. met' \subseteq DOMAIN upds'
    BY <1>7 DEF Call, Holding
  <2> QED BY <1>7, <2>4, <2>5, <2>6 DEF TypeOK, Call
<1>8. CASE UNCHANGED vars
  BY <1>8 DEF TypeOK, vars
<1> QED
  BY <1>1, <1>2, <1>3, <1>4, <1>5, <1>6, <1>7, <1>8 DEF Next, Step

\* group.cc's state always has the shape the model gives it.
THEOREM TypeCorrect == Spec => []TypeOK
<1> QED BY InitType, TypeStep, PTL DEF Spec

-----------------------------------------------------------------------------
(* The refinement.  MetComplete is inductive with TypeOK. *)

\* A command that succeeds leaves the group as the update asks, unless it is
\* a groupmod without options, which changes nothing; then, and when no
\* command is needed, the group was as asked when it was looked up.
LEMMA UpdateDecision ==
  ASSUME TypeOK, Processing
  PROVE  LET u == upds[next] g == u.should.name IN
         /\ Command(u) = "none" => Satisfies(u.is.attrs["gid"], u.should)
         /\ \A d \in CommandResults(u) :
              \/ Satisfies(d[g], u.should)
              \/ d = db /\ Satisfies(u.is.attrs["gid"], u.should)
<1> DEFINE u == upds[next]
           g == u.should.name
           was == u.is.attrs["gid"]
<1>1. u \in UpdateType
  BY BatchFacts DEF Processing
<1>2. /\ UpdateName(u) = g
      /\ g \in Group
      /\ was \in Gid \cup {None}
      /\ u.is.attrs["ensure"] = IF was = None THEN "absent" ELSE "present"
      /\ u.should.attrs["gid"] \in Gid \cup {None}
      /\ u.should.attrs["ensure"] \in {None, "present", "absent"}
  BY <1>1, UpdateFacts
<1>3. db \in [Group -> Gid \cup {None}]
  BY DEF TypeOK, Database
<1>4. StateOf(u) = IF was = None THEN "absent" ELSE "present"
  BY <1>2 DEF StateOf, Lookup, GroupAssumption
<1>5. EnsureOf(u) = IF u.should.attrs["ensure"] = None THEN StateOf(u)
                    ELSE u.should.attrs["ensure"]
  BY DEF EnsureOf, Lookup
<1>6. EnsureOf(u) \in {"present", "absent"} /\ StateOf(u) \in {"present", "absent"}
  BY <1>2, <1>4, <1>5
<1>7. Command(u) = "none" => Satisfies(was, u.should)
  <2> SUFFICES ASSUME Command(u) = "none" PROVE Satisfies(was, u.should)
    OBVIOUS
  <2>1. CASE EnsureOf(u) = "absent"
    <3>1. StateOf(u) # "absent" => Command(u) = "groupdel"
      BY <2>1 DEF Command
    <3>2. was = None /\ u.should.attrs["ensure"] \in {None, "absent"}
      BY <3>1, <2>1, <1>4, <1>5
    <3> QED BY <3>2, <1>2 DEF Satisfies, GroupAssumption
  <2>2. CASE EnsureOf(u) = "present"
    <3>1. Recorded(u) = <<>>
      BY <2>2, <1>6 DEF Command
    <3>2. StateOf(u) = "present" /\ ~ Changed(u, "gid")
      BY <3>1, <2>2, <1>1, <1>6, RecordedFacts
    <3> QED BY <3>2, <2>2, <1>2, <1>4, <1>5 DEF Changed, Satisfies, GroupAssumption
  <2> QED BY <2>1, <2>2, <1>6
<1>8. ASSUME NEW d \in CommandResults(u)
      PROVE  \/ Satisfies(d[g], u.should)
             \/ d = db /\ Satisfies(was, u.should)
  <2>1. CASE Command(u) = "groupadd"
    <3>1. EnsureOf(u) = "present" /\ StateOf(u) = "absent"
      BY <2>1, <1>6 DEF Command
    <3>2. PICK n \in Gid : /\ d = [db EXCEPT ![g] = n]
                           /\ GidArg(u) \in {None, n}
      BY <2>1, <1>2 DEF CommandResults, GroupAddResults, Free
    <3>3. u.should.attrs["ensure"] = "present" /\ was = None
      BY <3>1, <1>2, <1>4, <1>5
    <3>4. GidArg(u) = u.should.attrs["gid"]
      BY <3>3 DEF GidArg, Changed
    <3>5. d[g] = n
      BY <3>2, <1>2, <1>3
    <3> QED BY <3>2, <3>3, <3>4, <3>5 DEF Satisfies, GroupAssumption
  <2>2. CASE Command(u) = "groupmod"
    <3>1. EnsureOf(u) = "present" /\ StateOf(u) = "present"
      BY <2>2, <1>6 DEF Command
    <3>2. /\ u.should.attrs["ensure"] \in {None, "present"}
          /\ was \in Gid
      BY <3>1, <1>2, <1>4, <1>5
    <3>3. PICK n \in Gid \cup {None} :
            /\ d = [db EXCEPT ![g] = n]
            /\ IF GidArg(u) = None THEN n = db[g] ELSE n = GidArg(u)
      BY <2>2, <1>2, <1>3 DEF CommandResults, GroupModResults, Free
    <3>4. d[g] = n
      BY <3>3, <1>2, <1>3
    <3>5. CASE GidArg(u) = None
      <4>1. d = db
        BY <3>3, <3>5, <1>2, <1>3
      <4>2. ~ Changed(u, "gid")
        BY <3>5 DEF GidArg, Changed
      <4> QED BY <4>1, <4>2, <3>2, <1>2 DEF Changed, Satisfies, GroupAssumption
    <3>6. CASE GidArg(u) # None
      <4>1. n = u.should.attrs["gid"] /\ n # None
        BY <3>3, <3>6 DEF GidArg
      <4> QED BY <4>1, <3>2, <3>4 DEF Satisfies, GroupAssumption
    <3> QED BY <3>5, <3>6
  <2>3. CASE Command(u) = "groupdel"
    <3>1. EnsureOf(u) = "absent" /\ StateOf(u) = "present"
      BY <2>3, <1>6 DEF Command
    <3>2. u.should.attrs["ensure"] = "absent"
      BY <3>1, <1>5
    <3>3. d = [db EXCEPT ![g] = None]
      BY <2>3, <1>2 DEF CommandResults, GroupDelResults
    <3>4. d[g] = None
      BY <3>3, <1>2, <1>3
    <3> QED BY <3>2, <3>4 DEF Satisfies
  <2> QED BY <2>1, <2>2, <2>3 DEF CommandResults
<1> QED BY <1>7, <1>8

\* Why a call that processed every update may return ok: an update that was
\* processed, whose group was already as it asks when it was looked up, or
\* whose group is so now, is on record as met.
MetComplete ==
  pc = "set" =>
    \A i \in DOMAIN upds :
      \/ i < next
      \/ Satisfies(upds[i].is.attrs["gid"], upds[i].should)
      \/ Satisfies(db[upds[i].should.name], upds[i].should)
      => i \in met

IndInv == TypeOK /\ MetComplete

\* Nothing is on record, and nothing is owed, before the first call.
LEMMA InitMet == Init => MetComplete
BY DEF Init, MetComplete

\* The inductive invariant holds initially ...
LEMMA InitInductive == Init => IndInv
BY InitType, InitMet DEF IndInv

\* ... and every step keeps it: only NoCommand and RunCommand move past an
\* update, and each leaves it met (UpdateDecision).
LEMMA InductiveStep == IndInv /\ [Next]_vars => IndInv'
<1> SUFFICES ASSUME TypeOK, MetComplete, [Next]_vars PROVE MetComplete'
  BY TypeStep DEF IndInv
<1> USE BatchFacts
<1>1. CASE NoCommand
  <2>1. Satisfies(upds[next].is.attrs["gid"], upds[next].should)
    BY <1>1, UpdateDecision DEF NoCommand
  <2> QED BY <1>1, <2>1 DEF NoCommand, Processing, MetComplete, TypeOK
<1>2. CASE RunCommand
  <2>1. \/ Satisfies(db'[upds[next].should.name], upds[next].should)
        \/ Satisfies(upds[next].is.attrs["gid"], upds[next].should)
    BY <1>2, UpdateDecision DEF RunCommand
  <2>2. next \in met'
    BY <1>2, <2>1 DEF RunCommand, Processing, MetComplete, Holding
  <2> QED BY <1>2, <2>2 DEF RunCommand, Processing, MetComplete, TypeOK, Holding
<1>3. CASE CommandFails
  BY <1>3 DEF CommandFails, MetComplete
<1>4. CASE Finish
  BY <1>4 DEF Finish, MetComplete
<1>5. CASE Release
  BY <1>5 DEF Release, MetComplete
<1>6. CASE Admin
  BY <1>6 DEF Admin, MetComplete, Holding
<1>7. ASSUME NEW shoulds \in Batch, Call(shoulds) PROVE MetComplete'
  <2>1. PICK n \in 0..MaxBatch : shoulds \in [1..n -> Should]
    BY DEF Batch
  <2>2. \A i \in DOMAIN upds' :
          /\ i \in 1..n
          /\ upds'[i] = Update(Is(db, shoulds[i].name), shoulds[i])
    BY <1>7, <2>1 DEF Call
  <2>3. \A i \in DOMAIN upds' : upds'[i].is.attrs["gid"] = db[upds'[i].should.name]
    BY <2>2 DEF Update, Is, Resource, Attr
  <2> QED BY <1>7, <2>2, <2>3 DEF Call, MetComplete, Holding
<1>8. CASE UNCHANGED vars
  BY <1>8 DEF MetComplete, vars
<1> QED
  BY <1>1, <1>2, <1>3, <1>4, <1>5, <1>6, <1>7, <1>8 DEF Next, Step

\* In every reachable state of a running call, each update that group.cc went
\* past has held at some moment since provider::set looked its group up.
THEOREM MetCompleteHolds == Spec => []MetComplete
<1>1. IndInv => MetComplete
  BY DEF IndInv
<1> QED BY InitInductive, InductiveStep, <1>1, PTL DEF Spec

\* The abstract specification and the model record the same updates as met.
LEMMA SameHolding ==
  ASSUME NEW d, NEW us
  PROVE  Promise!Holding(d, [i \in DOMAIN us |-> us[i].should]) = Holding(d, us)
BY DEF Promise!Holding, Holding

\* The initial states are initial states of the promise.
LEMMA InitPromise == Init => Promise!Init
<1> SUFFICES ASSUME Init PROVE Promise!Init
  OBVIOUS
<1>1. db \in [Group -> Gid \cup {None}]
  BY DEF Init
<1>2. /\ pc = "idle" /\ upds = <<>> /\ met = {} /\ outcome = "none"
  BY DEF Init
<1>3. [i \in DOMAIN upds |-> upds[i].should] = <<>>
  BY <1>2
<1> QED BY <1>1, <1>2, <1>3 DEF Promise!Init, Promise!Nobody

\* Every step of group.cc is a step of the promise or leaves its view alone:
\* an update processed is Handle, an error Fail, the end of the loop Succeed.
LEMMA StepPromise == IndInv /\ [Next]_vars => [Promise!Next]_(Promise!vars)
<1> SUFFICES ASSUME TypeOK, MetComplete, [Next]_vars
             PROVE  [Promise!Next]_(Promise!vars)
  BY DEF IndInv
<1> DEFINE W(us) == [i \in DOMAIN us |-> us[i].should]
           Left == IF pc = "set" THEN next..Len(upds) ELSE {}
<1> USE BatchFacts
<1>1. CASE NoCommand
  <2>1. next \in Left /\ Left' = Left \ {next}
    BY <1>1 DEF NoCommand, Processing, TypeOK
  <2>2. upds[next].should.name \in Group /\ db \in [Group -> Gid \cup {None}]
    BY <1>1, UpdateFacts DEF NoCommand, Processing, TypeOK, Database
  <2>3. /\ db[W(upds)[next].name] \in Gid \cup {None}
        /\ db' = [db EXCEPT ![W(upds)[next].name] = db[W(upds)[next].name]]
    BY <1>1, <2>2 DEF NoCommand, Processing
  <2>4. met' = met \cup Promise!Holding(db', W(upds))
    BY <1>1, SameHolding DEF NoCommand, Processing, MetComplete, Holding
  <2>5. Promise!Handle(next)
    BY <1>1, <2>1, <2>3, <2>4 DEF Promise!Handle, NoCommand, Processing
  <2> QED BY <2>1, <2>5 DEF Promise!Next
<1>2. CASE RunCommand
  <2> DEFINE g == upds[next].should.name
  <2>1. next \in Left /\ Left' = Left \ {next}
    BY <1>2 DEF RunCommand, Processing, TypeOK
  <2>2. g \in Group /\ db' \in [Group -> Gid \cup {None}]
    BY <1>2, UpdateFacts, CommandTouchesOne DEF RunCommand, Processing, Database
  <2>3. /\ db' = [db EXCEPT ![g] = db'[g]]
        /\ db'[g] = db[g] \/ Satisfies(db'[g], upds[next].should)
    BY <1>2, CommandTouchesOne, UpdateDecision DEF RunCommand
  <2>4. met' = met \cup Promise!Holding(db', W(upds))
    BY <1>2, SameHolding DEF RunCommand
  <2>5. W(upds)[next] = upds[next].should
    BY <1>2 DEF RunCommand, Processing
  <2>6. Promise!Handle(next)
    BY <1>2, <2>1, <2>2, <2>3, <2>4, <2>5
    DEF Promise!Handle, RunCommand, Processing
  <2> QED BY <2>1, <2>6 DEF Promise!Next
<1>3. CASE CommandFails
  BY <1>3 DEF CommandFails, Processing, Promise!Next, Promise!Fail
<1>4. CASE Finish
  <2>1. next = Len(upds) + 1 /\ met \subseteq DOMAIN upds
    BY <1>4 DEF Finish, TypeOK
  <2>2. \A i \in DOMAIN upds : i < next
    BY <2>1
  <2>3. Left = {}
    BY <2>1
  <2>4. \A i \in DOMAIN upds : i \in met
    BY <1>4, <2>2 DEF Finish, MetComplete
  <2>5. met = DOMAIN upds
    BY <2>1, <2>4
  <2> QED BY <1>4, <2>3, <2>5 DEF Finish, Promise!Next, Promise!Succeed
<1>5. CASE Release
  <2>1. W(upds') = <<>>
    BY <1>5 DEF Release
  <2> QED
    BY <1>5, <2>1 DEF Release, Promise!Next, Promise!Release, Promise!Nobody
<1>6. CASE Admin
  <2>1. db' \in [Group -> Gid \cup {None}]
    BY <1>6 DEF Admin, Free, TypeOK, Database
  <2>2. pc = "set" => met' = met \cup Promise!Holding(db', W(upds))
    BY <1>6, SameHolding DEF Admin
  <2>3. pc \in {"idle", "set", "returned"}
    BY DEF TypeOK
  <2>4. Promise!Outside
    BY <1>6, <2>1, <2>2, <2>3 DEF Admin, Promise!Outside
  <2> QED BY <2>4 DEF Promise!Next
<1>7. ASSUME NEW shoulds \in Batch, Call(shoulds)
      PROVE  [Promise!Next]_(Promise!vars)
  <2>1. TypeOK'
    BY TypeStep
  <2>2. DOMAIN upds' = 1..Len(upds')
    BY <2>1 DEF TypeOK
  <2>3. Left' = DOMAIN W(upds')
    BY <1>7, <2>2 DEF Call
  <2>4. met' = Promise!Holding(db, W(upds'))
    BY <1>7, SameHolding DEF Call
  <2> QED BY <1>7, <2>3, <2>4 DEF Call, Promise!Next, Promise!Start
<1>8. CASE UNCHANGED vars
  BY <1>8 DEF vars, Promise!vars
<1> QED
  BY <1>1, <1>2, <1>3, <1>4, <1>5, <1>6, <1>7, <1>8 DEF Next, Step

\* group.cc implements the promise of provider::set for every batch, every
\* database and every interleaving with other programs' changes.
THEOREM PromiseKept == Spec => KeepsPromise
<1> QED
  BY InitPromise, StepPromise, InitInductive, InductiveStep, PTL
  DEF Spec, KeepsPromise, Promise!Spec

-----------------------------------------------------------------------------
(* Where an undisturbed call leaves the groups it names. *)

\* While nobody else changes the database: a group none of whose updates was
\* processed is as it was looked up, and one with a processed update is as
\* some should of the batch asks; an ok call processed every update.
Tracked ==
  /\ quiet /\ outcome # "error" =>
       \A i \in DOMAIN upds :
         LET g == upds[i].should.name IN
         /\ (\A j \in DOMAIN upds : j < next => upds[j].should.name # g)
              => db[g] = upds[i].is.attrs["gid"]
         /\ i < next =>
              \E j \in DOMAIN upds : /\ upds[j].should.name = g
                                     /\ Satisfies(db[g], upds[j].should)
  /\ outcome = "ok" => \A i \in DOMAIN upds : i < next
  /\ pc = "set" => outcome = "none"

\* Before the first call there is no group to keep track of.
LEMMA InitTracked == Init => Tracked
BY DEF Init, Tracked

\* A command touches the group of its own update only, so what is known of
\* the other groups stays true, also when the batch names a group twice.
LEMMA TrackedStep == TypeOK /\ Tracked /\ [Next]_vars => Tracked'
<1> SUFFICES ASSUME TypeOK, Tracked, [Next]_vars PROVE Tracked'
  OBVIOUS
<1> USE BatchFacts
<1> DEFINE name(i) == upds[i].should.name
           Met(d, g) == \E j \in DOMAIN upds : /\ name(j) = g
                                               /\ Satisfies(d[g], upds[j].should)
\* Both ways to process the update in hand: its group ends as asked.
<1>1. ASSUME Processing, quiet, outcome # "error",
             Satisfies(upds[next].is.attrs["gid"], upds[next].should)
      PROVE  Met(db, name(next))
  <2>1. CASE \A j \in DOMAIN upds : j < next => name(j) # name(next)
    <3>1. db[name(next)] = upds[next].is.attrs["gid"]
      BY <1>1, <2>1 DEF Tracked, Processing
    <3> QED BY <1>1, <3>1 DEF Processing
  <2>2. ASSUME NEW j \in DOMAIN upds, j < next, name(j) = name(next)
        PROVE  Met(db, name(next))
    BY <1>1, <2>2 DEF Tracked
  <2> QED BY <2>1, <2>2
<1>2. CASE NoCommand
  <2>1. ASSUME quiet, outcome # "error" PROVE Met(db, name(next))
    BY <1>1, <1>2, <2>1, UpdateDecision DEF NoCommand
  <2> QED BY <1>2, <2>1 DEF NoCommand, Processing, Tracked, TypeOK
<1>3. CASE RunCommand
  <2>1. ASSUME quiet, outcome # "error" PROVE Met(db', name(next))
    <3>1. CASE Satisfies(db'[name(next)], upds[next].should)
      BY <1>3, <3>1 DEF RunCommand, Processing
    <3>2. CASE db' = db /\ Satisfies(upds[next].is.attrs["gid"], upds[next].should)
      BY <1>1, <1>3, <2>1, <3>2 DEF RunCommand
    <3> QED BY <1>3, <3>1, <3>2, UpdateDecision DEF RunCommand
  <2>2. \A g \in Group : g # name(next) => db'[g] = db[g]
    BY <1>3, CommandTouchesOne DEF RunCommand, TypeOK, Database
  <2>3. \A i \in DOMAIN upds : name(i) \in Group
    BY UpdateFacts
  <2>4. /\ next \in DOMAIN upds
        /\ next' = next + 1
        /\ UNCHANGED <<pc, upds, outcome, quiet>>
    BY <1>3 DEF RunCommand, Processing
  <2>5. ASSUME quiet, outcome # "error", NEW i \in DOMAIN upds
        PROVE  /\ (\A j \in DOMAIN upds : j < next + 1 => name(j) # name(i))
                    => db'[name(i)] = upds[i].is.attrs["gid"]
               /\ i < next + 1 => Met(db', name(i))
    <3>1. CASE name(i) = name(next)
      BY <2>1, <2>4, <2>5, <3>1
    <3>2. CASE name(i) # name(next)
      <4>1. db'[name(i)] = db[name(i)]
        BY <2>2, <2>3, <3>2
      <4>2. i < next + 1 => i < next
        BY <2>4, <3>2
      <4>3. i < next => Met(db, name(i))
        BY <2>5 DEF Tracked
      <4>4. (\A j \in DOMAIN upds : j < next => name(j) # name(i))
              => db[name(i)] = upds[i].is.attrs["gid"]
        BY <2>5 DEF Tracked
      <4>5. \A j \in DOMAIN upds : j < next => j < next + 1
        BY <2>4
      <4> QED BY <4>1, <4>2, <4>3, <4>4, <4>5
    <3> QED BY <3>1, <3>2
  <2>6. outcome = "none"
    BY <1>3 DEF RunCommand, Processing, Tracked
  <2> HIDE DEF Met
  <2> QED BY <2>4, <2>5, <2>6 DEF Tracked, Met
<1>4. CASE CommandFails
  BY <1>4 DEF CommandFails, Tracked
<1>5. CASE Finish
  <2>1. \A i \in DOMAIN upds : i < next
    BY <1>5 DEF Finish, TypeOK
  <2>2. outcome = "none"
    BY <1>5 DEF Finish, Tracked
  <2> QED BY <1>5, <2>1, <2>2 DEF Finish, Tracked
<1>6. CASE Release
  BY <1>6 DEF Release, Tracked
<1>7. CASE Admin
  BY <1>7 DEF Admin, Tracked
<1>8. ASSUME NEW shoulds \in Batch, Call(shoulds) PROVE Tracked'
  <2>1. PICK n \in 0..MaxBatch : shoulds \in [1..n -> Should]
    BY DEF Batch
  <2>2. \A i \in DOMAIN upds' :
          /\ i \in 1..n
          /\ upds'[i] = Update(Is(db, shoulds[i].name), shoulds[i])
    BY <1>8, <2>1 DEF Call
  <2>3. \A i \in DOMAIN upds' : upds'[i].is.attrs["gid"] = db[upds'[i].should.name]
    BY <2>2 DEF Update, Is, Resource, Attr
  <2> QED BY <1>8, <2>2, <2>3 DEF Call, Tracked
<1>9. CASE UNCHANGED vars
  BY <1>9 DEF vars, Tracked
<1> QED
  BY <1>2, <1>3, <1>4, <1>5, <1>6, <1>7, <1>8, <1>9 DEF Next, Step

\* A set() that returned ok undisturbed leaves every group it names as one of
\* its shoulds asks, for every batch, repeated names included.
THEOREM SomeRequestAlwaysHolds == Spec => []SomeRequestHolds
<1>1. Tracked => SomeRequestHolds
  BY DEF Tracked, SomeRequestHolds, Undisturbed
<1> QED
  BY <1>1, InitType, TypeStep, InitTracked, TrackedStep, PTL DEF Spec

-----------------------------------------------------------------------------
(* What an undisturbed call does, and tells, of groups that are named once. *)

\* An update that the loop has yet to reach finds its group as the lookup left
\* it and no changes on record.
Untouched ==
  quiet /\ Distinct /\ pc = "set" =>
    \A i \in DOMAIN upds : i >= next =>
      /\ db[upds[i].should.name] = upds[i].is.attrs["gid"]
      /\ chgs[upds[i].should.name] = <<>>

\* The updates behind the loop are told of as they were carried out.
ToldSoFar ==
  quiet /\ Distinct /\ (pc = "set" \/ outcome = "ok") =>
    \A i \in DOMAIN upds : i < next => Told(upds[i], db, chgs[upds[i].should.name])

\* The presence and the id that an update is decided from.
LEMMA DecisionFacts ==
  ASSUME NEW upd \in UpdateType
  PROVE  LET was == upd.is.attrs["gid"] IN
         /\ StateOf(upd) = (IF was = None THEN "absent" ELSE "present")
         /\ EnsureOf(upd) = (IF upd.should.attrs["ensure"] = None THEN StateOf(upd)
                             ELSE upd.should.attrs["ensure"])
         /\ EnsureOf(upd) \in {"present", "absent"}
         /\ upd.is.attrs["ensure"] = StateOf(upd)
         /\ Desired(upd, "ensure") = EnsureOf(upd)
         /\ Changed(upd, "gid") <=> /\ upd.should.attrs["gid"] # None
                                    /\ was # upd.should.attrs["gid"]
         /\ GidArg(upd) = IF Changed(upd, "gid") THEN upd.should.attrs["gid"] ELSE None
BY UpdateFacts DEF StateOf, EnsureOf, Lookup, Desired, Changed, GidArg

\* A command that runs for a group with no changes on record has something to do.
LEMMA SomethingToDo ==
  ASSUME NEW upd \in UpdateType, chgs[upd.should.name] = <<>>, Command(upd) # "none"
  PROVE  ~ Satisfies(upd.is.attrs["gid"], upd.should)
<1>1. CASE EnsureOf(upd) = "present" /\ Recorded(upd) # <<>>
  <2>1. UpdateName(upd) = upd.should.name
    BY UpdateFacts
  <2>2. EnsureOf(upd) # StateOf(upd) \/ Changed(upd, "gid")
    BY <1>1, <2>1 DEF Recorded, AddDiff
  <2> QED BY <1>1, <2>2, UpdateFacts, DecisionFacts DEF Satisfies
<1>2. CASE EnsureOf(upd) = "absent" /\ StateOf(upd) # "absent"
  BY <1>2, UpdateFacts, DecisionFacts DEF Satisfies
<1> QED BY <1>1, <1>2 DEF Command

Entries(c) == {c[k] : k \in DOMAIN c}

LEMMA AppendEntries ==
  ASSUME NEW S, NEW c \in Seq(S), NEW x \in S
  PROVE  Append(c, x) \in Seq(S) /\ Entries(Append(c, x)) = Entries(c) \cup {x}
<1>1. /\ Len(c) \in Nat /\ DOMAIN c = 1..Len(c)
      /\ DOMAIN Append(c, x) = 1..Len(c) + 1 /\ Append(c, x)[Len(c) + 1] = x
      /\ \A k \in 1..Len(c) : Append(c, x)[k] = c[k]
  OBVIOUS
<1>2. 1..Len(c) + 1 = 1..Len(c) \cup {Len(c) + 1}
  BY <1>1
<1> QED BY <1>1, <1>2 DEF Entries

\* The changes of an update whose group has none on record yet.
LEMMA RecordedEntries ==
  ASSUME NEW upd \in UpdateType, chgs[upd.should.name] = <<>>
  PROVE  Entries(Recorded(upd)) =
           {Change("ensure", EnsureOf(upd), StateOf(upd)) : x \in {y \in {1} : EnsureOf(upd) # StateOf(upd)}}
           \cup {Change("gid", upd.should.attrs["gid"], upd.is.attrs["gid"]) :
                   x \in {y \in {1} : EnsureOf(upd) = "present" /\ Changed(upd, "gid")}}
<1> DEFINE n == Change("ensure", EnsureOf(upd), StateOf(upd))
           x == Change("gid", upd.should.attrs["gid"], upd.is.attrs["gid"])
           e == IF EnsureOf(upd) # StateOf(upd) THEN Append(<<>>, n) ELSE <<>>
           S == {n, x}
<1>1. Recorded(upd) = IF EnsureOf(upd) = "present" /\ Changed(upd, "gid") THEN Append(e, x) ELSE e
  BY UpdateFacts DEF Recorded, AddDiff
<1>2. <<>> \in Seq(S) /\ Entries(<<>>) = {} /\ n \in S /\ x \in S
  BY DEF Entries
<1> HIDE DEF n, x, S
<1>3. e \in Seq(S) /\ Entries(e) = {n : z \in {y \in {1} : EnsureOf(upd) # StateOf(upd)}}
  <2> DEFINE o == <<>>
  <2>1. o \in Seq(S) /\ Entries(o) = {}
    BY <1>2
  <2> HIDE DEF o
  <2>2. Append(o, n) \in Seq(S) /\ Entries(Append(o, n)) = {n}
    BY <1>2, <2>1, AppendEntries
  <2> QED BY <1>2, <2>2 DEF o
<1> HIDE DEF e
<1>4. Entries(Append(e, x)) = Entries(e) \cup {x}
  BY <1>2, <1>3, AppendEntries
<1> QED BY <1>1, <1>3, <1>4 DEF n, x

\* The update in hand, on an undisturbed system, tells what it does.
LEMMA UpdateTells ==
  ASSUME TypeOK, Processing, NEW d \in Database,
         (Command(upds[next]) = "none" /\ d = db) \/ d \in CommandResults(upds[next]),
         db[upds[next].should.name] = upds[next].is.attrs["gid"],
         chgs[upds[next].should.name] = <<>>
  PROVE  Told(upds[next], d, Recorded(upds[next]))
<1> DEFINE upd == upds[next]
           g == upd.should.name
           was == upd.is.attrs["gid"]
           ask == upd.should.attrs["gid"]
<1>1. upd \in UpdateType
  BY BatchFacts DEF Processing
<1> HIDE DEF upd
<1>2. /\ UpdateName(upd) = g /\ g \in Group /\ was \in Gid \cup {None}
      /\ ask \in Gid \cup {None} /\ upd.should.attrs["ensure"] \in {None, "present", "absent"}
  BY <1>1, UpdateFacts
<1>3. /\ StateOf(upd) = (IF was = None THEN "absent" ELSE "present")
      /\ EnsureOf(upd) = (IF upd.should.attrs["ensure"] = None THEN StateOf(upd)
                          ELSE upd.should.attrs["ensure"])
      /\ EnsureOf(upd) \in {"present", "absent"}
      /\ upd.is.attrs["ensure"] = StateOf(upd) /\ Desired(upd, "ensure") = EnsureOf(upd)
      /\ Changed(upd, "gid") <=> ask # None /\ was # ask
      /\ GidArg(upd) = IF Changed(upd, "gid") THEN ask ELSE None
  BY <1>1, DecisionFacts
<1>4. /\ Is(d, g).attrs["gid"] = d[g]
      /\ Is(d, g).attrs["ensure"] = IF d[g] = None THEN "absent" ELSE "present"
  BY DEF Is, Resource, Attr
<1>5. db[g] = was /\ chgs[g] = <<>> /\ db \in [Group -> Gid \cup {None}]
  BY DEF upd, TypeOK, Database
<1>6. (Command(upd) = "none" /\ d = db) \/ d \in CommandResults(upd)
  BY DEF upd
<1> DEFINE ensures == EnsureOf(upd) # StateOf(upd)
           moves == EnsureOf(upd) = "present" /\ Changed(upd, "gid")
<1>7. /\ d[g] = None <=> EnsureOf(upd) = "absent"
      /\ EnsureOf(upd) = "present" /\ ask # None => d[g] = ask
  <2>1. CASE Command(upd) = "none" /\ d = db
    <3>1. \/ EnsureOf(upd) = "absent" /\ StateOf(upd) = "absent"
          \/ EnsureOf(upd) = "present" /\ Recorded(upd) = <<>>
      BY <1>3, <2>1 DEF Command
    <3>2. CASE EnsureOf(upd) = "present" /\ Recorded(upd) = <<>>
      <4>1. EnsureOf(upd) = StateOf(upd) /\ ~ Changed(upd, "gid")
        BY <1>1, <3>2, RecordedFacts
      <4> QED BY <1>3, <1>5, <2>1, <3>2, <4>1
    <3> QED BY <1>3, <1>5, <2>1, <3>1, <3>2
  <2>2. CASE Command(upd) = "groupadd" /\ d \in CommandResults(upd)
    <3>1. EnsureOf(upd) = "present" /\ StateOf(upd) = "absent"
      BY <1>3, <2>2 DEF Command
    <3>2. PICK n \in Gid : d = [db EXCEPT ![g] = n] /\ GidArg(upd) \in {None, n}
      BY <2>2, <1>2 DEF CommandResults, GroupAddResults, Free
    <3>3. d[g] = n /\ n # None
      BY <1>2, <1>5, <3>2
    <3> QED BY <1>3, <3>1, <3>2, <3>3
  <2>3. CASE Command(upd) = "groupmod" /\ d \in CommandResults(upd)
    <3>1. EnsureOf(upd) = "present" /\ StateOf(upd) = "present"
      BY <1>3, <2>3 DEF Command
    <3>2. PICK n \in Gid \cup {None} : /\ d = [db EXCEPT ![g] = n]
                                       /\ IF GidArg(upd) = None THEN n = db[g] ELSE n = GidArg(upd)
      BY <2>3, <1>2, <1>5 DEF CommandResults, GroupModResults, Free
    <3>3. d[g] = n
      BY <1>2, <1>5, <3>2
    <3> QED BY <1>3, <1>5, <3>1, <3>2, <3>3
  <2>4. CASE Command(upd) = "groupdel" /\ d \in CommandResults(upd)
    <3>1. EnsureOf(upd) = "absent"
      BY <2>4 DEF Command
    <3>2. d = [db EXCEPT ![g] = None]
      BY <2>4, <1>2 DEF CommandResults, GroupDelResults
    <3>3. d[g] = None
      BY <1>2, <1>5, <3>2
    <3> QED BY <3>1, <3>3
  <2> QED BY <1>6, <2>1, <2>2, <2>3, <2>4 DEF CommandResults
<1>8. d[g] # was /\ EnsureOf(upd) = "present" /\ ask # None <=> moves
  BY <1>3, <1>7
<1>9. Is(d, g).attrs["ensure"] = EnsureOf(upd)
  BY <1>3, <1>4, <1>7
<1>10. ensures => upd.should.attrs["ensure"] # None
  BY <1>3
<1> DEFINE now == Is(d, g).attrs
           asked == {a \in Attr : upd.should.attrs[a] # None /\ (a = "gid" => EnsureOf(upd) # "absent")}
           differ == {b \in asked : now[b] # upd.is.attrs[b]}
           told == {Change(a, now[a], upd.is.attrs[a]) : a \in differ}
           wrote == Entries(Recorded(upd))
           n == Change("ensure", EnsureOf(upd), StateOf(upd))
           x == Change("gid", ask, was)
<1>11. /\ "ensure" \in differ <=> ensures
       /\ "gid" \in differ <=> moves
       /\ differ \subseteq {"ensure", "gid"}
  BY <1>3, <1>4, <1>8, <1>9, <1>10 DEF Attr
<1>12. moves => now["gid"] = ask
  BY <1>3, <1>4, <1>7
<1>13. wrote = {n : z \in {y \in {1} : ensures}} \cup {x : z \in {y \in {1} : moves}}
  BY <1>1, <1>5, RecordedEntries
<1>14. /\ Change("ensure", now["ensure"], upd.is.attrs["ensure"]) = n
       /\ moves => Change("gid", now["gid"], upd.is.attrs["gid"]) = x
  BY <1>3, <1>9, <1>12
<1> HIDE DEF differ, n, x, ensures, moves, now
<1>15. told = wrote
  BY <1>11, <1>13, <1>14
<1>16. Told(upd, d, Recorded(upd))
  BY <1>3, <1>15 DEF Told, Entries, differ, now
<1> QED BY <1>16 DEF upd

LEMMA UntouchedStep ==
  ASSUME TypeOK, Untouched, [Next]_vars
  PROVE  Untouched'
<1> USE BatchFacts
<1>1. ASSUME Processing, Record(upds[next]), next' = next + 1,
             UNCHANGED <<pc, upds, quiet>>,
             \A g \in Group : g # upds[next].should.name => db'[g] = db[g]
      PROVE  Untouched'
  <2> SUFFICES ASSUME quiet, Distinct, pc = "set", NEW i \in DOMAIN upds, i >= next + 1
               PROVE  /\ db'[upds[i].should.name] = upds[i].is.attrs["gid"]
                      /\ chgs'[upds[i].should.name] = <<>>
    BY <1>1 DEF Untouched, Distinct
  <2>1. next \in DOMAIN upds /\ i >= next /\ i # next
    BY <1>1 DEF Processing
  <2>2. \A k \in DOMAIN upds : upds[k].should.name \in Group /\ upds[k].is.name = upds[k].should.name
    BY UpdateFacts DEF UpdateName
  <2>3. upds[i].should.name # upds[next].should.name
    BY <2>1, <2>2 DEF Distinct
  <2>4. chgs'[upds[i].should.name] = chgs[upds[i].should.name]
    BY <1>1, <2>1, <2>2, <2>3 DEF Record, UpdateName, TypeOK
  <2> QED BY <1>1, <2>1, <2>2, <2>3, <2>4 DEF Untouched
<1>2. CASE NoCommand
  BY <1>1, <1>2 DEF NoCommand
<1>3. CASE RunCommand
  <2>1. \A g \in Group : g # upds[next].should.name => db'[g] = db[g]
    BY <1>3, CommandTouchesOne DEF RunCommand, TypeOK, Database
  <2> QED BY <1>1, <1>3, <2>1 DEF RunCommand
<1>4. CASE CommandFails
  BY <1>4 DEF CommandFails, Untouched
<1>5. CASE Finish
  BY <1>5 DEF Finish, Untouched
<1>6. CASE Release
  BY <1>6 DEF Release, Untouched
<1>7. CASE Admin
  BY <1>7 DEF Admin, Untouched
<1>8. ASSUME NEW shoulds \in Batch, Call(shoulds) PROVE Untouched'
  <2>1. PICK n \in 0..MaxBatch : shoulds \in [1..n -> Should]
    BY DEF Batch
  <2>2. \A i \in DOMAIN upds' : i \in 1..n /\ upds'[i] = Update(Is(db, shoulds[i].name), shoulds[i])
    BY <1>8, <2>1 DEF Call
  <2>3. \A i \in 1..n : shoulds[i].name \in Group
    BY <2>1 DEF Should
  <2>4. \A i \in DOMAIN upds' : /\ upds'[i].is.attrs["gid"] = db[upds'[i].should.name]
                                /\ upds'[i].should.name \in Group
    BY <2>2, <2>3 DEF Update, Is, Resource, Attr
  <2> QED BY <1>8, <2>4 DEF Call, Untouched
<1>9. CASE UNCHANGED vars
  BY <1>9 DEF vars, Untouched, Distinct
<1> QED BY <1>2, <1>3, <1>4, <1>5, <1>6, <1>7, <1>8, <1>9 DEF Next, Step

\* What is told of an update depends on the entry of its own group only.
LEMMA ToldOfOne ==
  ASSUME NEW upd, NEW d, NEW e, d[upd.should.name] = e[upd.should.name], NEW c
  PROVE  Told(upd, d, c) <=> Told(upd, e, c)
<1>1. Is(d, upd.should.name) = Is(e, upd.should.name)
  BY DEF Is
<1> QED BY <1>1 DEF Told

LEMMA ToldStep ==
  ASSUME TypeOK, Untouched, ToldSoFar, Tracked, [Next]_vars
  PROVE  ToldSoFar'
<1> USE BatchFacts
<1>1. ASSUME Processing, Record(upds[next]), next' = next + 1,
             UNCHANGED <<pc, upds, outcome, quiet>>, db' \in Database,
             \A g \in Group : g # upds[next].should.name => db'[g] = db[g],
             (Command(upds[next]) = "none" /\ db' = db) \/ db' \in CommandResults(upds[next])
      PROVE  ToldSoFar'
  <2> SUFFICES ASSUME quiet, Distinct, NEW i \in DOMAIN upds, i < next + 1
               PROVE  Told(upds[i], db', chgs'[upds[i].should.name])
    BY <1>1 DEF ToldSoFar, Distinct
  <2>1. next \in DOMAIN upds /\ pc = "set"
    BY <1>1 DEF Processing
  <2>2. \A k \in DOMAIN upds : /\ upds[k].should.name \in Group
                               /\ UpdateName(upds[k]) = upds[k].should.name
                               /\ upds[k].is.name = upds[k].should.name
    BY UpdateFacts DEF UpdateName
  <2>3. CASE i = next
    <3>1. db[upds[next].should.name] = upds[next].is.attrs["gid"] /\ chgs[upds[next].should.name] = <<>>
      BY <2>1 DEF Untouched
    <3>2. chgs'[upds[next].should.name] = Recorded(upds[next])
      BY <1>1, <2>1, <2>2 DEF Record, TypeOK
    <3> QED BY <1>1, <2>3, <3>1, <3>2, UpdateTells
  <2>4. CASE i # next
    <3>1. upds[i].should.name # upds[next].should.name /\ i < next
      BY <2>1, <2>2, <2>4 DEF Distinct
    <3>2. chgs'[upds[i].should.name] = chgs[upds[i].should.name]
      BY <1>1, <2>1, <2>2, <3>1 DEF Record, TypeOK
    <3>3. db'[upds[i].should.name] = db[upds[i].should.name]
      BY <1>1, <2>2, <3>1
    <3>4. Told(upds[i], db, chgs[upds[i].should.name])
      BY <2>1, <3>1 DEF ToldSoFar
    <3> QED BY <3>2, <3>3, <3>4, ToldOfOne
  <2> QED BY <2>3, <2>4
<1>2. CASE NoCommand
  BY <1>1, <1>2 DEF NoCommand, TypeOK
<1>3. CASE RunCommand
  <2>1. db' \in Database /\ \A g \in Group : g # upds[next].should.name => db'[g] = db[g]
    BY <1>3, CommandTouchesOne DEF RunCommand, TypeOK, Database
  <2> QED BY <1>1, <1>3, <2>1 DEF RunCommand
<1>4. CASE CommandFails
  BY <1>4 DEF CommandFails, ToldSoFar
<1>5. CASE Finish
  BY <1>5 DEF Finish, ToldSoFar, Distinct
<1>6. CASE Release
  BY <1>6 DEF Release, ToldSoFar
<1>7. CASE Admin
  BY <1>7 DEF Admin, ToldSoFar
<1>8. ASSUME NEW shoulds \in Batch, Call(shoulds) PROVE ToldSoFar'
  <2>1. \A i \in DOMAIN upds' : ~(i < next')
    <3>1. DOMAIN upds' = 1..Len(upds')
      BY TypeStep DEF TypeOK
    <3> QED BY <1>8, <3>1 DEF Call
  <2> QED BY <2>1 DEF ToldSoFar
<1>9. CASE UNCHANGED vars
  BY <1>9 DEF vars, ToldSoFar, Distinct
<1> QED BY <1>2, <1>3, <1>4, <1>5, <1>6, <1>7, <1>8, <1>9 DEF Next, Step

\* On an undisturbed system, and with each group named once in the batch,
\* group.cc runs a command only for a group that is not as asked.
THEOREM OnlyWhenNeededHolds == Spec => OnlyWhenNeeded
<1>1. ASSUME TypeOK, Untouched, RunCommand \/ CommandFails, quiet, Distinct
      PROVE  ~ Satisfies(db[upds[next].should.name], upds[next].should)
  <2>1. Processing /\ Command(upds[next]) # "none"
    BY <1>1 DEF RunCommand, CommandFails, CommandResults
  <2>2. upds[next] \in UpdateType /\ next >= next
    BY <1>1, <2>1, BatchFacts DEF Processing
  <2>3. db[upds[next].should.name] = upds[next].is.attrs["gid"] /\ chgs[upds[next].should.name] = <<>>
    BY <1>1, <2>1, <2>2 DEF Untouched, Processing
  <2> QED BY <2>1, <2>2, <2>3, SomethingToDo
<1>2. TypeOK /\ Untouched =>
        [(RunCommand \/ CommandFails) /\ quiet /\ Distinct
           => ~ Satisfies(db[upds[next].should.name], upds[next].should)]_vars
  BY <1>1
<1>3. Init => Untouched
  BY DEF Init, Untouched
<1> QED BY <1>2, <1>3, InitType, TypeStep, UntouchedStep, PTL DEF Spec, OnlyWhenNeeded

\* The changes that an undisturbed group_provider::set returns are exactly what
\* it has made of each group (context.hpp 26-30), when the batch names each once.
THEOREM ChangesTruthfulHolds == Spec => []ChangesTruthful
<1>1. Init => Untouched /\ ToldSoFar
  BY DEF Init, Untouched, ToldSoFar
<1>2. ToldSoFar /\ Tracked => ChangesTruthful
  BY DEF ChangesTruthful, ToldSoFar, Tracked, Undisturbed
<1> QED
  BY <1>1, <1>2, InitType, TypeStep, InitTracked, TrackedStep, UntouchedStep, ToldStep, PTL DEF Spec
=============================================================================
