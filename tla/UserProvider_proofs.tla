------------------------- MODULE UserProvider_proofs -------------------------
(* Theorems about UserProvider for every set of users, groups and home       *)
(* directories, every batch and every database it may begin with.            *)
EXTENDS UserProvider, TLAPS

USE UserAssumption

-----------------------------------------------------------------------------
(* The inductive invariant. *)

\* Each update is of what the lookup has found.
LookedUp ==
  \A i \in DOMAIN upds :
    upds[i] = Update(Is(before[upds[i].should.name], upds[i].should.name), upds[i].should)

\* What has held once is remembered, from the lookup on.
Remembered == Holding(before, upds) \subseteq met

\* The loop has brought about whatever the updates behind it ask.
Attained ==
  /\ \A i \in DOMAIN upds : i < next => \A a \in Asked(upds[i].should) : <<i, a>> \in met
  /\ Succeeded => next \notin DOMAIN upds

\* An update that the loop has yet to reach finds its user as the lookup left it
\* and no changes on record, unless somebody else was there.
Untouched ==
  quiet /\ Distinct /\ pc = "set" =>
    \A i \in DOMAIN upds : i >= next =>
      /\ db[UpdateName(upds[i])] = before[UpdateName(upds[i])]
      /\ chgs[UpdateName(upds[i])] = <<>>

\* Between two calls nothing is left of the last one.
Clean == pc = "idle" => upds = <<>> /\ next = 1 /\ before = db /\ chgs = [n \in User |-> <<>>]


\* The changes on record are sequences.
IsSequence(c) == Len(c) \in Nat /\ c = [k \in 1..Len(c) |-> c[k]]

ChangesTyped == DOMAIN chgs = User /\ \A n \in User : IsSequence(chgs[n])

IndInv == ChangesTyped /\ TypeOK /\ LookedUp /\ Remembered /\ Attained /\ Untouched /\ Clean

-----------------------------------------------------------------------------
(* Changes. *)

AttrsOf(c) == {c[k].attr : k \in DOMAIN c}

LEMMA AppendFacts ==
  ASSUME NEW c, IsSequence(c), NEW x
  PROVE  /\ IsSequence(Append(c, x)) /\ Append(c, x) # <<>>
         /\ DOMAIN Append(c, x) = 1..Len(c) + 1
         /\ Append(c, x)[Len(c) + 1] = x
         /\ \A k \in 1..Len(c) : Append(c, x)[k] = c[k]
         /\ AttrsOf(Append(c, x)) = AttrsOf(c) \cup {x.attr}
<1> DEFINE S == {c[k] : k \in 1..Len(c)} \cup {x}
<1>1. c \in Seq(S)
  BY DEF IsSequence
<1> HIDE DEF S
<1>2. x \in S
  BY DEF S
<1>3. /\ Append(c, x) \in Seq(S) /\ Len(Append(c, x)) = Len(c) + 1
      /\ Append(c, x)[Len(c) + 1] = x
      /\ \A k \in 1..Len(c) : Append(c, x)[k] = c[k]
  BY <1>1, <1>2
<1>4. \A d \in Seq(S) : IsSequence(d) /\ DOMAIN d = 1..Len(d) /\ (Len(d) # 0 => d # <<>>)
  BY DEF IsSequence
<1>5. Len(c) \in Nat
  BY DEF IsSequence
<1> DEFINE d == Append(c, x)
<1>6. d \in Seq(S) /\ Len(d) = Len(c) + 1 /\ d[Len(c) + 1] = x /\ \A k \in 1..Len(c) : d[k] = c[k]
  BY <1>3
<1> HIDE DEF d
<1>7. IsSequence(d) /\ DOMAIN d = 1..Len(d)
  BY <1>4, <1>6
<1>8. d # <<>>
  BY <1>4, <1>5, <1>6
<1>9. AttrsOf(d) = AttrsOf(c) \cup {x.attr}
  <2>1. DOMAIN c = 1..Len(c) /\ DOMAIN d = 1..(Len(c) + 1)
    BY <1>5, <1>6, <1>7 DEF IsSequence
  <2>2. 1..(Len(c) + 1) = 1..Len(c) \cup {Len(c) + 1}
    BY <1>5
  <2> QED BY <1>6, <2>1, <2>2 DEF AttrsOf
<1> QED BY <1>6, <1>7, <1>8, <1>9 DEF d

LEMMA EmptyFacts == IsSequence(<<>>) /\ AttrsOf(<<>>) = {}
BY DEF IsSequence, AttrsOf

\* Each change that there is to record is recorded and none is lost.
LEMMA AddDiffFacts ==
  ASSUME NEW c, IsSequence(c), NEW a, NEW upd
  PROVE  /\ IsSequence(AddDiff(c, a, upd))
         /\ AddDiff(c, a, upd) = <<>> => c = <<>> /\ ~Changed(upd, a)
         /\ AttrsOf(AddDiff(c, a, upd)) = AttrsOf(c) \cup {b \in {a} : Changed(upd, b)}
<1>1. CASE Changed(upd, a)
  <2> DEFINE x == Change(a, upd.should.attrs[a], upd.is.attrs[a])
  <2>1. AddDiff(c, a, upd) = Append(c, x) /\ x.attr = a
    BY <1>1 DEF AddDiff, Change
  <2> HIDE DEF x
  <2>2. IsSequence(Append(c, x)) /\ Append(c, x) # <<>> /\ AttrsOf(Append(c, x)) = AttrsOf(c) \cup {x.attr}
    BY AppendFacts
  <2> QED BY <1>1, <2>1, <2>2
<1>2. CASE ~Changed(upd, a)
  BY <1>2 DEF AddDiff
<1> QED BY <1>1, <1>2

\* The attributes whose changes an update records.
Reports(upd) ==
  {a \in {"ensure"} : EnsureOf(upd) # StateOf(upd)} \cup
  IF EnsureOf(upd) = "present"
  THEN {a \in {"gid", "home"} : Changed(upd, a)} \cup {a \in {"groups"} : GroupsChanged(upd)}
  ELSE {}

LEMMA RecordedFacts ==
  ASSUME NEW upd, IsSequence(chgs[UpdateName(upd)])
  PROVE  /\ IsSequence(Recorded(upd))
         /\ AttrsOf(Recorded(upd)) = AttrsOf(chgs[UpdateName(upd)]) \cup Reports(upd)
         /\ Recorded(upd) = <<>> => Reports(upd) = {}
<1> DEFINE c == chgs[UpdateName(upd)]
           n == Change("ensure", EnsureOf(upd), StateOf(upd))
           e == IF EnsureOf(upd) # StateOf(upd) THEN Append(c, n) ELSE c
           g == AddDiff(e, "gid", upd)
           h == AddDiff(g, "home", upd)
           x == Change("groups", ShouldGroups(upd), IsGroups(upd))
<1>1. Recorded(upd) = IF EnsureOf(upd) # "present" THEN e
                      ELSE IF GroupsChanged(upd) THEN Append(h, x) ELSE h
  BY DEF Recorded, AddProps
<1>2. n.attr = "ensure" /\ x.attr = "groups"
  BY DEF Change
<1> HIDE DEF n, x
<1>3. /\ IsSequence(e) /\ (e = <<>> => EnsureOf(upd) = StateOf(upd))
      /\ AttrsOf(e) = AttrsOf(c) \cup {a \in {"ensure"} : EnsureOf(upd) # StateOf(upd)}
  <2>1. CASE EnsureOf(upd) # StateOf(upd)
    <3>1. /\ IsSequence(Append(c, n)) /\ Append(c, n) # <<>>
          /\ AttrsOf(Append(c, n)) = AttrsOf(c) \cup {n.attr}
      BY AppendFacts
    <3> QED BY <1>2, <2>1, <3>1
  <2>2. CASE EnsureOf(upd) = StateOf(upd)
    BY <2>2
  <2> QED BY <2>1, <2>2
<1> HIDE DEF e
<1>4. /\ IsSequence(g) /\ (g = <<>> => e = <<>> /\ ~Changed(upd, "gid"))
      /\ AttrsOf(g) = AttrsOf(e) \cup {b \in {"gid"} : Changed(upd, b)}
  BY <1>3, AddDiffFacts
<1> HIDE DEF g
<1>5. /\ IsSequence(h) /\ (h = <<>> => g = <<>> /\ ~Changed(upd, "home"))
      /\ AttrsOf(h) = AttrsOf(g) \cup {b \in {"home"} : Changed(upd, b)}
  BY <1>4, AddDiffFacts
<1> HIDE DEF h
<1>6. /\ IsSequence(Append(h, x)) /\ Append(h, x) # <<>>
      /\ AttrsOf(Append(h, x)) = AttrsOf(h) \cup {x.attr}
  BY <1>5, AppendFacts
<1>7. CASE EnsureOf(upd) # "present"
  BY <1>1, <1>3, <1>7 DEF Reports
<1>8. CASE EnsureOf(upd) = "present" /\ GroupsChanged(upd)
  <2>1. Recorded(upd) = Append(h, x)
    BY <1>1, <1>8
  <2> QED BY <1>2, <1>3, <1>4, <1>5, <1>6, <1>8, <2>1 DEF Reports
<1>9. CASE EnsureOf(upd) = "present" /\ ~GroupsChanged(upd)
  <2>1. Recorded(upd) = h
    BY <1>1, <1>9
  <2> QED BY <1>3, <1>4, <1>5, <1>9, <2>1 DEF Reports
<1> QED BY <1>7, <1>8, <1>9

-----------------------------------------------------------------------------
(* One update. *)

\* What the decisions are made from.
LEMMA UpdateFacts ==
  ASSUME NEW b \in Entry \cup {NoUser}, NEW s \in UserShould
  PROVE  LET upd == Update(Is(b, s.name), s) IN
         /\ UpdateName(upd) = s.name /\ s.name \in User /\ upd.should = s
         /\ StateOf(upd) = IF b = NoUser THEN "absent" ELSE "present"
         /\ EnsureOf(upd) = IF s.attrs["ensure"] = None THEN StateOf(upd) ELSE s.attrs["ensure"]
         /\ upd.is.attrs["ensure"] = StateOf(upd)
         /\ upd.is.attrs["gid"] = b.gid /\ upd.is.attrs["home"] = b.home
         /\ IsGroups(upd) = IF b = NoUser THEN {} ELSE GroupList(b)
         /\ ShouldGroups(upd) = IF s.attrs["groups"] = None THEN IsGroups(upd) ELSE s.attrs["groups"]
<1> DEFINE upd == Update(Is(b, s.name), s)
<1>1. upd.is = Is(b, s.name) /\ upd.should = s
  BY DEF Update
<1>2. s.name \in User /\ s.attrs["ensure"] \in {None, "present", "absent", "role"}
  BY DEF UserShould
<1>3. CASE b = NoUser
  <2>1. Is(b, s.name) = [name |-> s.name, attrs |-> [Blank(s.name, Attr).attrs EXCEPT !["ensure"] = "absent"]]
    BY <1>3 DEF Is, Resource
  <2>2. Blank(s.name, Attr).attrs = [a \in Attr |-> None]
    BY DEF Blank, Resource
  <2> DEFINE at == [[a \in Attr |-> None] EXCEPT !["ensure"] = "absent"]
  <2>3. at["ensure"] = "absent" /\ at["gid"] = None /\ at["home"] = None /\ at["groups"] = None
    BY DEF Attr
  <2>4. upd.is.name = s.name /\ upd.is.attrs = at
    BY <1>1, <2>1, <2>2
  <2> HIDE DEF at
  <2>5. b.gid = None /\ b.home = None
    BY <1>3 DEF NoUser
  <2> QED BY <1>1, <1>2, <1>3, <2>3, <2>4, <2>5 DEF UpdateName, StateOf, EnsureOf, Lookup, IsGroups, ShouldGroups
<1>4. CASE b # NoUser
  <2> DEFINE at == [a \in Attr |-> CASE a = "ensure" -> "present"
                                     [] a = "groups" -> GroupList(b)
                                     [] a = "managehome" -> None
                                     [] OTHER -> b[a]]
  <2>1. Is(b, s.name) = [name |-> s.name, attrs |-> at]
    BY <1>4 DEF Is, Resource
  <2>2. at["ensure"] = "present" /\ at["gid"] = b.gid /\ at["home"] = b.home /\ at["groups"] = GroupList(b)
    BY DEF Attr
  <2>3. upd.is.name = s.name /\ upd.is.attrs = at
    BY <1>1, <2>1
  <2> HIDE DEF at
  <2>4. GroupList(b) \in SUBSET Gid
    BY <1>4 DEF Entry, GroupList
  <2>5. GroupList(b) # None
    BY <2>4, UserAssumption
  <2> QED BY <1>1, <1>2, <1>4, <2>2, <2>3, <2>5 DEF UpdateName, StateOf, EnsureOf, Lookup, IsGroups, ShouldGroups
<1> QED BY <1>3, <1>4

\* An update for which no command runs asks for nothing that is not so already.
LEMMA NothingToDo ==
  ASSUME ChangesTyped, NEW b \in Entry \cup {NoUser}, NEW s \in UserShould,
         EnsureOf(Update(Is(b, s.name), s)) # "role",
         Command(Update(Is(b, s.name), s)) = "none"
  PROVE  \A a \in Asked(s) : HasAttr(b, s, a)
<1> DEFINE upd == Update(Is(b, s.name), s)
<1> HIDE DEF upd
<1>1. /\ UpdateName(upd) = s.name /\ s.name \in User /\ upd.should = s
      /\ StateOf(upd) = IF b = NoUser THEN "absent" ELSE "present"
      /\ EnsureOf(upd) = IF s.attrs["ensure"] = None THEN StateOf(upd) ELSE s.attrs["ensure"]
      /\ upd.is.attrs["gid"] = b.gid /\ upd.is.attrs["home"] = b.home
      /\ IsGroups(upd) = IF b = NoUser THEN {} ELSE GroupList(b)
      /\ ShouldGroups(upd) = IF s.attrs["groups"] = None THEN IsGroups(upd) ELSE s.attrs["groups"]
  BY UpdateFacts DEF upd
<1>2. EnsureOf(upd) # "role" /\ Command(upd) = "none"
  BY DEF upd
<1>3. s.attrs["ensure"] \in {None, "present", "absent", "role"}
  BY DEF UserShould
<1>4. \/ EnsureOf(upd) = "present" /\ Recorded(upd) = <<>>
      \/ EnsureOf(upd) = "absent" /\ StateOf(upd) = "absent"
  BY <1>1, <1>2, <1>3 DEF Command
<1>5. CASE EnsureOf(upd) = "absent" /\ StateOf(upd) = "absent"
  BY <1>1, <1>3, <1>5 DEF Asked, HasAttr
<1>6. CASE EnsureOf(upd) = "present" /\ Recorded(upd) = <<>>
  <2>1. EnsureOf(upd) = StateOf(upd) /\ ~Changed(upd, "gid") /\ ~Changed(upd, "home") /\ ~GroupsChanged(upd)
    BY <1>1, <1>6, RecordedFacts DEF ChangesTyped, Reports
  <2>2. b # NoUser /\ s.attrs["ensure"] \in {None, "present"}
    BY <1>1, <1>3, <1>6, <2>1
  <2>3. \A a \in {"gid", "home"} : s.attrs[a] # None => b[a] = s.attrs[a]
    BY <1>1, <2>1 DEF Changed
  <2>4. s.attrs["groups"] # None => GroupList(b) = s.attrs["groups"] \cup {b.gid}
    BY <1>1, <2>1, <2>2 DEF GroupsChanged, GroupList
  <2> QED BY <2>2, <2>3, <2>4 DEF Asked, HasAttr
<1> QED BY <1>4, <1>5, <1>6

\* Whatever the user is like when a command runs: after it each attribute is as
\* asked, unless the lookup has seen it so and the command was not told of it.
LEMMA CommandDoes ==
  ASSUME db \in [User -> Entry \cup {NoUser}],
         NEW b \in Entry \cup {NoUser}, NEW s \in UserShould,
         NEW e \in CommandResults(Update(Is(b, s.name), s))
  PROVE  /\ e \in Entry \cup {NoUser}
         /\ \A a \in Asked(s) : HasAttr(e, s, a) \/ HasAttr(b, s, a)
<1> DEFINE upd == Update(Is(b, s.name), s)
<1> HIDE DEF upd
<1>1. /\ UpdateName(upd) = s.name /\ s.name \in User /\ upd.should = s
      /\ StateOf(upd) = IF b = NoUser THEN "absent" ELSE "present"
      /\ EnsureOf(upd) = IF s.attrs["ensure"] = None THEN StateOf(upd) ELSE s.attrs["ensure"]
      /\ upd.is.attrs["gid"] = b.gid /\ upd.is.attrs["home"] = b.home
      /\ IsGroups(upd) = IF b = NoUser THEN {} ELSE GroupList(b)
      /\ ShouldGroups(upd) = IF s.attrs["groups"] = None THEN IsGroups(upd) ELSE s.attrs["groups"]
  BY UpdateFacts DEF upd
<1>2. s.attrs["ensure"] \in {None, "present", "absent", "role"}
  BY DEF UserShould
<1> DEFINE entry == db[s.name]
           opts == Options(upd)
<1>3. entry \in Entry \cup {NoUser}
  BY <1>1
<1>4. /\ \A a \in {"gid", "home"} : opts[a] = IF Changed(upd, a) THEN s.attrs[a] ELSE None
      /\ opts["groups"] = IF GroupsChanged(upd) THEN ShouldGroups(upd) ELSE None
  BY <1>1 DEF Options, Attr
<1>5. \/ /\ EnsureOf(upd) = "present" /\ b = NoUser /\ e \in UserAddResults(entry, opts)
      \/ /\ EnsureOf(upd) = "present" /\ b # NoUser /\ e \in UserModResults(entry, opts)
      \/ /\ EnsureOf(upd) = "absent" /\ b # NoUser /\ e \in UserDelResults(entry)
  <2>1. e \in CASE Command(upd) = "useradd" -> UserAddResults(entry, opts)
               [] Command(upd) = "usermod" -> UserModResults(entry, opts)
               [] Command(upd) = "userdel" -> UserDelResults(entry)
               [] OTHER -> {}
    BY <1>1 DEF CommandResults, upd
  <2>2. /\ Command(upd) = "useradd" => EnsureOf(upd) = "present" /\ b = NoUser
        /\ Command(upd) = "usermod" => EnsureOf(upd) = "present" /\ b # NoUser
        /\ Command(upd) = "userdel" => EnsureOf(upd) = "absent" /\ b # NoUser
    BY <1>1 DEF Command
  <2>3. CASE Command(upd) = "useradd"
    BY <2>1, <2>2, <2>3
  <2>4. CASE Command(upd) = "usermod"
    BY <2>1, <2>2, <2>4
  <2>5. CASE Command(upd) = "userdel"
    BY <2>1, <2>2, <2>5
  <2> QED BY <2>1, <2>3, <2>4, <2>5
<1> HIDE DEF entry, opts
<1>6. NoUser \notin Entry /\ (\A gs \in SUBSET Gid : gs # None)
  BY DEF NoUser, Entry
<1>7. CASE EnsureOf(upd) = "present" /\ b = NoUser /\ e \in UserAddResults(entry, opts)
  <2>1. e \in Entry /\ e.groups \in SUBSET Gid
    BY <1>7 DEF UserAddResults, Entry
  <2>2. \A a \in {"gid", "home"} : opts[a] \in {None, e[a]}
    BY <1>7 DEF UserAddResults
  <2>3. e.groups = IF opts["groups"] = None THEN {} ELSE opts["groups"]
    BY <1>7 DEF UserAddResults
  <2>4. \A a \in {"gid", "home"} : s.attrs[a] # None => e[a] = s.attrs[a]
    <3>1. upd.is.attrs["gid"] = None /\ upd.is.attrs["home"] = None
      BY <1>1, <1>7 DEF NoUser
    <3> QED BY <1>1, <1>4, <2>2, <3>1 DEF Changed
  <2>5. s.attrs["groups"] # None => e.groups = s.attrs["groups"]
    BY <1>1, <1>4, <1>7, <2>3 DEF GroupsChanged
  <2>6. e # NoUser /\ s.attrs["ensure"] = "present"
    BY <1>1, <1>6, <1>7, <2>1
  <2>7. s.attrs["groups"] # None => GroupList(e) = s.attrs["groups"] \cup {e.gid}
    BY <2>5 DEF GroupList
  <2> QED BY <2>1, <2>4, <2>6, <2>7 DEF Asked, HasAttr
<1>8. CASE EnsureOf(upd) = "present" /\ b # NoUser /\ e \in UserModResults(entry, opts)
  <2>1. /\ e \in Entry /\ e # NoUser
        /\ \A a \in {"gid", "home", "groups"} : e[a] = IF opts[a] = None THEN entry[a] ELSE opts[a]
    BY <1>6, <1>8 DEF UserModResults
  <2>2. s.attrs["ensure"] \in {None, "present"}
    BY <1>1, <1>2, <1>8
  <2>3. ASSUME NEW a \in {"gid", "home"}, s.attrs[a] # None
        PROVE  e[a] = s.attrs[a] \/ b[a] = s.attrs[a]
    <3>1. CASE Changed(upd, a)
      BY <1>4, <2>1, <2>3, <3>1
    <3>2. CASE ~Changed(upd, a)
      BY <1>1, <2>3, <3>2 DEF Changed
    <3> QED BY <3>1, <3>2
  <2>4. ASSUME s.attrs["groups"] # None
        PROVE  GroupList(e) = s.attrs["groups"] \cup {e.gid} \/ GroupList(b) = s.attrs["groups"] \cup {b.gid}
    <3>1. CASE GroupsChanged(upd)
      <4>1. e.groups = s.attrs["groups"]
        BY <1>1, <1>4, <2>1, <2>4, <3>1
      <4> QED BY <4>1 DEF GroupList
    <3>2. CASE ~GroupsChanged(upd)
      <4>1. GroupList(b) = s.attrs["groups"]
        BY <1>1, <1>8, <2>4, <3>2 DEF GroupsChanged
      <4> QED BY <4>1 DEF GroupList
    <3> QED BY <3>1, <3>2
  <2>5. ASSUME NEW a \in Asked(s) PROVE HasAttr(e, s, a) \/ HasAttr(b, s, a)
    <3>1. CASE a = "ensure"
      BY <2>1, <2>2, <2>5, <3>1 DEF Asked, HasAttr
    <3>2. CASE a \in {"gid", "home"}
      BY <1>8, <2>1, <2>3, <2>5, <3>2 DEF Asked, HasAttr
    <3>3. CASE a = "groups"
      BY <1>8, <2>1, <2>4, <2>5, <3>3 DEF Asked, HasAttr
    <3> QED BY <3>1, <3>2, <3>3 DEF Asked
  <2> QED BY <2>1, <2>5
<1>9. CASE EnsureOf(upd) = "absent" /\ b # NoUser /\ e \in UserDelResults(entry)
  <2>1. e = NoUser
    BY <1>9 DEF UserDelResults
  <2>2. s.attrs["ensure"] = "absent"
    BY <1>1, <1>9
  <2> QED BY <2>1, <2>2 DEF Asked, HasAttr
<1> QED BY <1>5, <1>7, <1>8, <1>9

-----------------------------------------------------------------------------
(* A call. *)

LEMMA BatchFacts ==
  ASSUME IndInv
  PROVE  /\ Len(upds) \in Nat /\ DOMAIN upds = 1..Len(upds)
         /\ \A i \in DOMAIN upds :
              /\ upds[i].should \in UserShould
              /\ before[upds[i].should.name] \in Entry \cup {NoUser}
              /\ upds[i] = Update(Is(before[upds[i].should.name], upds[i].should.name), upds[i].should)
              /\ UpdateName(upds[i]) = upds[i].should.name
              /\ UpdateName(upds[i]) \in User
<1>1. upds \in Seq(UpdateType)
  BY DEF IndInv, TypeOK
<1>2. Len(upds) \in Nat /\ DOMAIN upds = 1..Len(upds) /\ \A i \in DOMAIN upds : upds[i] \in UpdateType
  BY <1>1
<1>3. ASSUME NEW i \in DOMAIN upds
      PROVE  /\ upds[i].should \in UserShould /\ upds[i].should.name \in User
             /\ UpdateName(upds[i]) = upds[i].should.name
  <2>1. PICK entry \in Entry \cup {NoUser}, should \in UserShould :
               upds[i] = Update(Is(entry, should.name), should)
    BY <1>2 DEF UpdateType
  <2> QED BY <2>1, UpdateFacts
<1>4. before \in [User -> Entry \cup {NoUser}]
  BY DEF IndInv, TypeOK
<1> QED BY <1>2, <1>3, <1>4 DEF IndInv, LookedUp

LEMMA HoldingFacts ==
  ASSUME NEW d, NEW us
  PROVE  /\ \A i \in DOMAIN us : \A a \in Asked(us[i].should) :
              HasAttr(d[us[i].should.name], us[i].should, a) => <<i, a>> \in Holding(d, us)
         /\ Holding(d, us) \subseteq (DOMAIN us) \X Attr
BY DEF Holding, Asked, Attr

LEMMA InitInd == Init => IndInv
<1> SUFFICES ASSUME Init PROVE IndInv
  OBVIOUS
<1>1. /\ db \in [User -> Entry \cup {NoUser}] /\ before = db
      /\ pc = "idle" /\ outcome = "none" /\ upds = <<>> /\ next = 1
      /\ chgs = [n \in User |-> <<>>] /\ quiet = TRUE /\ met = {}
  BY DEF Init
<1>2. DOMAIN upds = {} /\ Len(upds) = 0 /\ upds \in Seq(UpdateType)
  BY <1>1
<1>3. DOMAIN chgs = User /\ \A n \in User : chgs[n] = <<>>
  BY <1>1
<1>4. ChangesTyped
  BY <1>3, EmptyFacts DEF ChangesTyped
<1>5. TypeOK
  <2>1. \A n \in User : \A i \in DOMAIN chgs[n] : chgs[n][i].attr \in Attr
    BY <1>3, EmptyFacts DEF AttrsOf
  <2>2. next \in 1..Len(upds) + 1 /\ met \subseteq (DOMAIN upds) \X Attr
    BY <1>1, <1>2
  <2> QED BY <1>1, <1>2, <2>1, <2>2 DEF TypeOK
<1>6. Holding(before, upds) = {}
  BY <1>2 DEF Holding
<1> QED
  BY <1>1, <1>2, <1>4, <1>5, <1>6
     DEF IndInv, LookedUp, Remembered, Attained, Untouched, Clean, Succeeded

LEMMA CallStep ==
  ASSUME IndInv, NEW shoulds \in Calls, Call(shoulds)
  PROVE  IndInv'
<1>1. /\ shoulds \in Seq(UserShould) /\ DOMAIN shoulds = 1..Len(shoulds) /\ Len(shoulds) \in Nat
      /\ \A i \in DOMAIN shoulds : shoulds[i] \in UserShould
  OBVIOUS
<1>2. /\ pc = "idle" /\ pc' = "set" /\ before' = db /\ met' = Holding(db, upds')
      /\ UNCHANGED <<db, next, chgs, outcome, quiet>>
      /\ upds' = [i \in DOMAIN shoulds |-> Update(Is(db[shoulds[i].name], shoulds[i].name), shoulds[i])]
  BY DEF Call
<1>3. next = 1 /\ chgs = [n \in User |-> <<>>]
  BY <1>2 DEF IndInv, Clean
<1>4. db \in [User -> Entry \cup {NoUser}] /\ TypeOK /\ ChangesTyped
  BY DEF IndInv, TypeOK
<1>5. ASSUME NEW i \in DOMAIN shoulds
      PROVE  /\ upds'[i] \in UpdateType /\ upds'[i].should = shoulds[i]
             /\ upds'[i] = Update(Is(db[shoulds[i].name], shoulds[i].name), shoulds[i])
             /\ UpdateName(upds'[i]) = shoulds[i].name /\ shoulds[i].name \in User
  <2>1. shoulds[i].name \in User
    BY <1>1 DEF UserShould
  <2>2. db[shoulds[i].name] \in Entry \cup {NoUser}
    BY <1>4, <2>1
  <2>3. upds'[i] = Update(Is(db[shoulds[i].name], shoulds[i].name), shoulds[i])
    BY <1>2
  <2> QED BY <1>1, <2>1, <2>2, <2>3, UpdateFacts DEF UpdateType
<1>6. DOMAIN upds' = 1..Len(shoulds) /\ upds' \in Seq(UpdateType) /\ Len(upds') = Len(shoulds)
  <2>1. upds' \in [1..Len(shoulds) -> UpdateType]
    BY <1>1, <1>2, <1>5
  <2> QED BY <1>1, <2>1
<1>7. TypeOK'
  <2>1. Holding(db, upds') \subseteq (DOMAIN upds') \X Attr
    BY HoldingFacts
  <2>2. next \in 1..Len(upds') + 1
    BY <1>1, <1>3, <1>6
  <2> QED BY <1>2, <1>4, <1>6, <2>1, <2>2 DEF TypeOK
<1>8. LookedUp'
  BY <1>1, <1>2, <1>5, <1>6 DEF LookedUp
<1>9. Remembered'
  BY <1>2 DEF Remembered
<1>10. Attained'
  BY <1>1, <1>2, <1>3, <1>6 DEF Attained, Succeeded
<1>11. Untouched'
  <2> SUFFICES ASSUME NEW i \in DOMAIN upds'
               PROVE  db[UpdateName(upds'[i])] = db[UpdateName(upds'[i])] /\ chgs[UpdateName(upds'[i])] = <<>>
    BY <1>2 DEF Untouched
  <2> QED BY <1>1, <1>3, <1>5, <1>6
<1>12. Clean' /\ ChangesTyped'
  BY <1>2, <1>4 DEF Clean, ChangesTyped
<1> QED BY <1>7, <1>8, <1>9, <1>10, <1>11, <1>12 DEF IndInv

\* What the update in hand does to the changes on record.
LEMMA RecordStep ==
  ASSUME IndInv, Processing, Record
  PROVE  /\ ChangesTyped'
         /\ \A n \in User : \A i \in DOMAIN chgs'[n] : chgs'[n][i].attr \in Attr
         /\ \A n \in User : n # UpdateName(u) => chgs'[n] = chgs[n]
         /\ UpdateName(u) \in User /\ chgs'[UpdateName(u)] = Recorded(u)
<1> DEFINE name == UpdateName(u)
<1>1. name \in User
  BY BatchFacts DEF Processing, u
<1>2. ChangesTyped
  BY DEF IndInv
<1>3. IsSequence(Recorded(u)) /\ AttrsOf(Recorded(u)) = AttrsOf(chgs[name]) \cup Reports(u)
  BY <1>1, <1>2, RecordedFacts DEF ChangesTyped
<1>4. DOMAIN chgs' = User /\ chgs'[name] = Recorded(u) /\ \A n \in User : n # name => chgs'[n] = chgs[n]
  BY <1>1, <1>2 DEF Record, ChangesTyped
<1> HIDE DEF name
<1>5. \A n \in User : AttrsOf(chgs[n]) \subseteq Attr
  BY DEF IndInv, TypeOK, AttrsOf
<1>6. Reports(u) \subseteq Attr
  BY DEF Reports, Attr
<1>7. \A n \in User : AttrsOf(chgs'[n]) \subseteq Attr
  BY <1>1, <1>3, <1>4, <1>5, <1>6
<1>8. \A n \in User : IsSequence(chgs'[n])
  BY <1>2, <1>3, <1>4 DEF ChangesTyped
<1> QED BY <1>1, <1>4, <1>7, <1>8 DEF AttrsOf, ChangesTyped, name

\* The loop goes on to the next update when what this one asks has held.
LEMMA Advance ==
  ASSUME IndInv, Processing, Record, next' = next + 1,
         UNCHANGED <<pc, upds, outcome, before, quiet>>,
         db' \in [User -> Entry \cup {NoUser}],
         \A n \in User : n # UpdateName(u) => db'[n] = db[n],
         met \subseteq met', met' \subseteq (DOMAIN upds) \X Attr,
         \A a \in Asked(u.should) : <<next, a>> \in met'
  PROVE  IndInv'
<1>1. /\ ChangesTyped'
      /\ \A n \in User : \A i \in DOMAIN chgs'[n] : chgs'[n][i].attr \in Attr
      /\ \A n \in User : n # UpdateName(u) => chgs'[n] = chgs[n]
  BY RecordStep
<1>2. /\ Len(upds) \in Nat /\ DOMAIN upds = 1..Len(upds)
      /\ \A i \in DOMAIN upds : UpdateName(upds[i]) \in User
  BY BatchFacts
<1>3. next \in DOMAIN upds /\ pc = "set" /\ next \in 1..Len(upds) /\ u = upds[next]
  BY <1>2 DEF Processing, u
<1>4. TypeOK'
  BY <1>1, <1>2, <1>3 DEF IndInv, TypeOK
<1>5. LookedUp' /\ Remembered' /\ Clean'
  BY <1>3 DEF IndInv, LookedUp, Remembered, Clean
<1>6. Attained'
  <2>1. ASSUME NEW i \in DOMAIN upds, i < next + 1, NEW a \in Asked(upds[i].should)
        PROVE  <<i, a>> \in met'
    <3>1. CASE i = next
      BY <1>3, <2>1, <3>1
    <3>2. CASE i # next
      BY <1>2, <1>3, <2>1, <3>2 DEF IndInv, Attained
    <3> QED BY <3>1, <3>2
  <2> QED BY <1>3, <2>1 DEF Attained, Succeeded
<1>7. Untouched'
  <2> SUFFICES ASSUME quiet, Distinct, NEW i \in DOMAIN upds, i >= next + 1
               PROVE  /\ db'[UpdateName(upds[i])] = before[UpdateName(upds[i])]
                      /\ chgs'[UpdateName(upds[i])] = <<>>
    BY <1>3 DEF Untouched, Distinct
  <2>1. i >= next /\ i # next
    BY <1>2, <1>3
  <2>2. UpdateName(upds[i]) # UpdateName(u) /\ UpdateName(upds[i]) \in User
    BY <1>2, <1>3, <2>1 DEF Distinct
  <2>3. /\ db[UpdateName(upds[i])] = before[UpdateName(upds[i])]
        /\ chgs[UpdateName(upds[i])] = <<>>
    BY <1>3, <2>1 DEF IndInv, Untouched
  <2> QED BY <1>1, <2>2, <2>3
<1> QED BY <1>1, <1>4, <1>5, <1>6, <1>7 DEF IndInv

\* The call ends: with an error, or with ok behind the last update.
LEMMA Halt ==
  ASSUME IndInv, pc' = "returned", outcome' \in {"ok", "error"},
         outcome' = "error" \/ next \notin DOMAIN upds,
         UNCHANGED <<upds, next, before, quiet>>,
         db' \in [User -> Entry \cup {NoUser}], ChangesTyped',
         \A n \in User : \A i \in DOMAIN chgs'[n] : chgs'[n][i].attr \in Attr,
         met \subseteq met', met' \subseteq (DOMAIN upds) \X Attr
  PROVE  IndInv'
<1>1. TypeOK'
  BY DEF IndInv, TypeOK
<1>2. LookedUp' /\ Remembered' /\ Clean' /\ Untouched'
  BY DEF IndInv, LookedUp, Remembered, Clean, Untouched
<1>3. Attained'
  BY DEF IndInv, Attained, Succeeded
<1> QED BY <1>1, <1>2, <1>3 DEF IndInv

\* The update in hand and what a command makes of its user.
LEMMA InHand ==
  ASSUME IndInv, Processing
  PROVE  /\ next \in DOMAIN upds /\ u = upds[next] /\ UpdateName(u) \in User
         /\ u.should \in UserShould /\ u.should.name = UpdateName(u)
         /\ before[u.should.name] \in Entry \cup {NoUser}
         /\ u = Update(Is(before[u.should.name], u.should.name), u.should)
         /\ ChangesTyped /\ db \in [User -> Entry \cup {NoUser}]
         /\ met \subseteq (DOMAIN upds) \X Attr
         /\ \A a \in Asked(u.should) :
              HasAttr(before[u.should.name], u.should, a) => <<next, a>> \in met
<1>1. next \in DOMAIN upds /\ u = upds[next]
  BY DEF Processing, u
<1>2. /\ UpdateName(u) \in User /\ u.should \in UserShould /\ u.should.name = UpdateName(u)
      /\ before[u.should.name] \in Entry \cup {NoUser}
      /\ u = Update(Is(before[u.should.name], u.should.name), u.should)
  BY <1>1, BatchFacts
<1>3. ChangesTyped /\ db \in [User -> Entry \cup {NoUser}] /\ met \subseteq (DOMAIN upds) \X Attr
  BY DEF IndInv, TypeOK
<1>4. \A a \in Asked(u.should) : HasAttr(before[u.should.name], u.should, a) => <<next, a>> \in met
  BY <1>1, HoldingFacts DEF IndInv, Remembered
<1> QED BY <1>1, <1>2, <1>3, <1>4

LEMMA CommandRuns ==
  ASSUME IndInv, Processing,
         NEW e \in CommandResults(u), db' = [db EXCEPT ![UpdateName(u)] = e],
         upds' = upds, met' = met \cup Holding(db', upds)
  PROVE  /\ db' \in [User -> Entry \cup {NoUser}] /\ db'[UpdateName(u)] = e
         /\ \A n \in User : n # UpdateName(u) => db'[n] = db[n]
         /\ met \subseteq met' /\ met' \subseteq (DOMAIN upds) \X Attr
         /\ \A a \in Asked(u.should) : <<next, a>> \in met'
<1> DEFINE s == u.should
           b == before[s.name]
<1>1. /\ next \in DOMAIN upds /\ u = upds[next] /\ UpdateName(u) \in User
      /\ s \in UserShould /\ s.name = UpdateName(u) /\ b \in Entry \cup {NoUser}
      /\ u = Update(Is(b, s.name), s)
      /\ db \in [User -> Entry \cup {NoUser}] /\ met \subseteq (DOMAIN upds) \X Attr
      /\ \A a \in Asked(s) : HasAttr(b, s, a) => <<next, a>> \in met
  BY InHand
<1> HIDE DEF s, b
<1>2. e \in CommandResults(Update(Is(b, s.name), s))
  BY <1>1
<1>3. e \in Entry \cup {NoUser} /\ \A a \in Asked(s) : HasAttr(e, s, a) \/ HasAttr(b, s, a)
  BY <1>1, <1>2, CommandDoes
<1>4. /\ db' \in [User -> Entry \cup {NoUser}] /\ db'[UpdateName(u)] = e
      /\ \A n \in User : n # UpdateName(u) => db'[n] = db[n]
  BY <1>1, <1>3
<1>5. /\ \A a \in Asked(s) : HasAttr(e, s, a) => <<next, a>> \in Holding(db', upds)
      /\ Holding(db', upds) \subseteq (DOMAIN upds) \X Attr
  <2>1. upds[next].should = s /\ db'[upds[next].should.name] = e
    BY <1>1, <1>4 DEF s
  <2> QED BY <1>1, <2>1, HoldingFacts
<1> QED BY <1>1, <1>3, <1>4, <1>5 DEF s

LEMMA AdminKeeps ==
  ASSUME IndInv, Admin
  PROVE  IndInv'
<1>1. /\ pc = "set" /\ quiet' = FALSE /\ met' = met \cup Holding(db', upds)
      /\ UNCHANGED <<pc, upds, next, chgs, outcome, before>>
  BY DEF Admin
<1>2. PICK i \in DOMAIN upds, e \in Entry \cup {NoUser} : db' = [db EXCEPT ![UpdateName(upds[i])] = e]
  BY DEF Admin
<1>3. db' \in [User -> Entry \cup {NoUser}]
  BY <1>2, BatchFacts DEF IndInv, TypeOK
<1>4. Holding(db', upds) \subseteq (DOMAIN upds) \X Attr
  BY HoldingFacts
<1>5. TypeOK' /\ ChangesTyped'
  BY <1>1, <1>3, <1>4 DEF IndInv, TypeOK, ChangesTyped
<1>6. LookedUp' /\ Remembered' /\ Clean' /\ Untouched'
  BY <1>1 DEF IndInv, LookedUp, Remembered, Clean, Untouched
<1>7. Attained'
  BY <1>1 DEF IndInv, Attained, Succeeded
<1> QED BY <1>5, <1>6, <1>7 DEF IndInv

LEMMA ReleaseKeeps ==
  ASSUME IndInv, Release
  PROVE  IndInv'
<1>1. /\ pc' = "idle" /\ outcome' = "none" /\ upds' = <<>> /\ next' = 1
      /\ chgs' = [n \in User |-> <<>>] /\ before' = db /\ quiet' = TRUE /\ met' = {} /\ db' = db
  BY DEF Release
<1>2. DOMAIN upds' = {} /\ Len(upds') = 0 /\ upds' \in Seq(UpdateType)
  BY <1>1
<1>3. DOMAIN chgs' = User /\ \A n \in User : chgs'[n] = <<>>
  BY <1>1
<1>4. ChangesTyped'
  BY <1>3, EmptyFacts DEF ChangesTyped
<1>5. TypeOK'
  <2>1. \A n \in User : \A i \in DOMAIN chgs'[n] : chgs'[n][i].attr \in Attr
    BY <1>3, EmptyFacts DEF AttrsOf
  <2>2. next' \in 1..Len(upds') + 1 /\ met' \subseteq (DOMAIN upds') \X Attr
    BY <1>1, <1>2
  <2> QED BY <1>1, <1>2, <2>1, <2>2 DEF TypeOK, IndInv
<1>6. Holding(db, upds') = {}
  BY <1>2 DEF Holding
<1>7. LookedUp' /\ Remembered' /\ Attained' /\ Untouched' /\ Clean'
  BY <1>1, <1>2, <1>6 DEF LookedUp, Remembered, Attained, Untouched, Clean, Succeeded
<1> QED BY <1>4, <1>5, <1>7 DEF IndInv

LEMMA NextKeeps ==
  ASSUME IndInv, [Next]_vars
  PROVE  IndInv'
<1>1. CASE NoCommand
  <2>1. Processing /\ Record /\ EnsureOf(u) # "role" /\ Command(u) = "none" /\ next' = next + 1
        /\ UNCHANGED <<db, pc, upds, outcome, before, quiet, met>>
    BY <1>1 DEF NoCommand
  <2>2. \A a \in Asked(u.should) : HasAttr(before[u.should.name], u.should, a)
    BY <2>1, InHand, NothingToDo
  <2>3. \A a \in Asked(u.should) : <<next, a>> \in met'
    BY <2>1, <2>2, InHand
  <2>4. db' \in [User -> Entry \cup {NoUser}] /\ met' \subseteq (DOMAIN upds) \X Attr
    BY <2>1, InHand
  <2> QED BY <2>1, <2>3, <2>4, Advance
<1>2. CASE RunCommand
  <2>1. /\ Processing /\ Record /\ next' = next + 1 /\ met' = met \cup Holding(db', upds)
        /\ UNCHANGED <<pc, upds, outcome, before, quiet>>
    BY <1>2 DEF RunCommand
  <2>2. PICK e \in CommandResults(u) : db' = [db EXCEPT ![UpdateName(u)] = e]
    BY <1>2 DEF RunCommand
  <2> QED BY <2>1, <2>2, CommandRuns, Advance
<1>3. CASE CommandFails
  <2>1. /\ Processing /\ Record /\ met' = met \cup Holding(db', upds)
        /\ pc' = "returned" /\ outcome' = "error"
        /\ UNCHANGED <<upds, next, before, quiet>>
    BY <1>3 DEF CommandFails, Give
  <2>2. /\ db' \in [User -> Entry \cup {NoUser}]
        /\ met \subseteq met' /\ met' \subseteq (DOMAIN upds) \X Attr
    <3>1. CASE UNCHANGED db
      BY <2>1, <3>1, InHand, HoldingFacts
    <3>2. CASE \E e \in CommandResults(u) : db' = [db EXCEPT ![UpdateName(u)] = e]
      BY <2>1, <3>2, CommandRuns
    <3> QED BY <1>3, <3>1, <3>2 DEF CommandFails
  <2> QED BY <2>1, <2>2, RecordStep, Halt
<1>4. CASE RoleRefused
  <2>1. /\ Processing /\ Record /\ pc' = "returned" /\ outcome' = "error"
        /\ UNCHANGED <<db, upds, next, before, quiet, met>>
    BY <1>4 DEF RoleRefused, Give
  <2> QED BY <2>1, InHand, RecordStep, Halt
<1>5. CASE Finish
  <2>1. /\ next \notin DOMAIN upds /\ pc' = "returned" /\ outcome' = "ok"
        /\ UNCHANGED <<db, upds, next, chgs, before, quiet, met>>
    BY <1>5 DEF Finish, Give
  <2>2. /\ db' \in [User -> Entry \cup {NoUser}] /\ met' \subseteq (DOMAIN upds) \X Attr /\ ChangesTyped'
        /\ \A n \in User : \A i \in DOMAIN chgs'[n] : chgs'[n][i].attr \in Attr
    BY <2>1 DEF IndInv, TypeOK, ChangesTyped
  <2> QED BY <2>1, <2>2, Halt
<1>6. CASE Release
  BY <1>6, ReleaseKeeps
<1>7. CASE Admin
  BY <1>7, AdminKeeps
<1>8. CASE \E shoulds \in Calls : Call(shoulds)
  BY <1>8, CallStep
<1>9. CASE UNCHANGED vars
  BY <1>9 DEF vars, IndInv, ChangesTyped, TypeOK, LookedUp, Remembered, Attained, Untouched,
              Clean, Succeeded, Distinct
<1> QED BY <1>1, <1>2, <1>3, <1>4, <1>5, <1>6, <1>7, <1>8, <1>9 DEF Next, Step

-----------------------------------------------------------------------------
(* The results. *)

\* user.cc get and set: the inductive invariant holds in every reachable state.
THEOREM IndInvHolds == Spec => []IndInv
<1> QED BY InitInd, NextKeeps, PTL DEF Spec

\* The users, the updates, the changes and the answer have their types (user.cc).
THEOREM TypeCorrect == Spec => []TypeOK
<1>1. IndInv => TypeOK
  BY DEF IndInv
<1> QED BY <1>1, IndInvHolds, PTL

\* An answer "ok" of user_provider::set means that each attribute of each should
\* has been as asked since the lookup: an update without a command asks nothing
\* new, and a command puts right what the lookup has shown to be wrong, also
\* when a name is in the batch twice and whoever else changes the database.
THEOREM EachAttributeHeldHolds == Spec => []EachAttributeHeld
<1>1. ASSUME IndInv PROVE EachAttributeHeld
  <2> SUFFICES ASSUME Succeeded, NEW i \in DOMAIN upds, NEW a \in Asked(upds[i].should)
               PROVE  <<i, a>> \in met
    BY DEF EachAttributeHeld
  <2>1. next \notin DOMAIN upds /\ next \in 1..Len(upds) + 1
    BY <1>1 DEF IndInv, Attained, TypeOK
  <2>2. Len(upds) \in Nat /\ DOMAIN upds = 1..Len(upds)
    BY <1>1, BatchFacts
  <2>3. i < next
    BY <2>1, <2>2
  <2> QED BY <1>1, <2>3 DEF IndInv, Attained
<1> QED BY <1>1, IndInvHolds, PTL

-----------------------------------------------------------------------------
(* The changes an undisturbed call reports. *)

LEMMA NoneIsEmpty ==
  ASSUME NEW c, IsSequence(c), c # <<>>
  PROVE  AttrsOf(c) # {}
<1>1. Len(c) \in Nat /\ c = [k \in 1..Len(c) |-> c[k]]
  BY DEF IsSequence
<1>2. CASE Len(c) = 0
  <2>1. c = [k \in {} |-> c[k]]
    BY <1>1, <1>2
  <2> QED BY <2>1
<1>3. CASE Len(c) # 0
  <2>1. 1 \in DOMAIN c
    <3>1. DOMAIN c = 1..Len(c)
      BY <1>1
    <3> QED BY <1>1, <1>3, <3>1
  <2>2. c[1].attr \in AttrsOf(c)
    BY <2>1 DEF AttrsOf
  <2> QED BY <2>2
<1> QED BY <1>2, <1>3

\* A command that runs for an update whose user has no changes on record yet
\* has something to do, if the groups asked for have the primary one among them.
LEMMA SomethingToDo ==
  ASSUME NEW b \in Entry \cup {NoUser}, NEW s \in UserShould,
         chgs[s.name] = <<>>,
         Command(Update(Is(b, s.name), s)) # "none",
         EnsureOf(Update(Is(b, s.name), s)) # "present" \/ s.attrs["groups"] = None \/ b.gid \in s.attrs["groups"]
  PROVE  \E a \in Asked(s) : ~HasAttr(b, s, a)
<1> DEFINE upd == Update(Is(b, s.name), s)
<1> HIDE DEF upd
<1>1. /\ UpdateName(upd) = s.name /\ s.name \in User /\ upd.should = s
      /\ StateOf(upd) = IF b = NoUser THEN "absent" ELSE "present"
      /\ EnsureOf(upd) = IF s.attrs["ensure"] = None THEN StateOf(upd) ELSE s.attrs["ensure"]
      /\ upd.is.attrs["gid"] = b.gid /\ upd.is.attrs["home"] = b.home
      /\ IsGroups(upd) = IF b = NoUser THEN {} ELSE GroupList(b)
      /\ ShouldGroups(upd) = IF s.attrs["groups"] = None THEN IsGroups(upd) ELSE s.attrs["groups"]
  BY UpdateFacts DEF upd
<1>2. /\ Command(upd) # "none"
      /\ EnsureOf(upd) # "present" \/ s.attrs["groups"] = None \/ b.gid \in s.attrs["groups"]
  BY DEF upd
<1>3. CASE EnsureOf(upd) = "present" /\ Recorded(upd) # <<>>
  <2>1. Reports(upd) # {}
    BY <1>1, <1>3, EmptyFacts, RecordedFacts, NoneIsEmpty
  <2>2. \/ EnsureOf(upd) # StateOf(upd)
        \/ EnsureOf(upd) = StateOf(upd) /\ \E a \in {"gid", "home"} : Changed(upd, a)
        \/ EnsureOf(upd) = StateOf(upd) /\ GroupsChanged(upd)
    BY <2>1 DEF Reports
  <2>3. CASE EnsureOf(upd) # StateOf(upd)
    BY <1>1, <1>3, <2>3 DEF Asked, HasAttr
  <2>4. CASE EnsureOf(upd) = StateOf(upd) /\ \E a \in {"gid", "home"} : Changed(upd, a)
    BY <1>1, <1>3, <2>4 DEF Asked, HasAttr, Changed
  <2>5. CASE EnsureOf(upd) = StateOf(upd) /\ GroupsChanged(upd)
    <3>1. s.attrs["groups"] # None /\ GroupList(b) # s.attrs["groups"] /\ b # NoUser
      BY <1>1, <1>3, <2>5 DEF GroupsChanged
    <3>2. GroupList(b) # s.attrs["groups"] \cup {b.gid}
      BY <1>2, <1>3, <3>1 DEF GroupList
    <3>3. s.attrs["ensure"] # "absent"
      BY <1>1, <1>3
    <3> QED BY <3>1, <3>2, <3>3 DEF Asked, HasAttr
  <2> QED BY <2>2, <2>3, <2>4, <2>5
<1>4. CASE EnsureOf(upd) = "absent" /\ StateOf(upd) # "absent"
  BY <1>1, <1>4 DEF Asked, HasAttr
<1> QED BY <1>2, <1>3, <1>4 DEF Command

\* On an undisturbed system, and with each user named once in the batch,
\* user.cc runs a command only for a user who is not as asked.
THEOREM OnlyWhenNeededHolds == Spec => OnlyWhenNeeded
<1> DEFINE Needed ==
      /\ RunCommand \/ CommandFails
      /\ quiet /\ Distinct
      /\ EnsureOf(u) = "present" /\ u.should.attrs["groups"] # None
           => u.is.attrs["gid"] \in u.should.attrs["groups"]
      => \E a \in Asked(u.should) : ~ HasAttr(db[UpdateName(u)], u.should, a)
<1>1. ASSUME IndInv PROVE Needed
  <2> SUFFICES ASSUME RunCommand \/ CommandFails, quiet, Distinct,
                      EnsureOf(u) # "present" \/ u.should.attrs["groups"] = None
                        \/ u.is.attrs["gid"] \in u.should.attrs["groups"]
               PROVE  \E a \in Asked(u.should) : ~ HasAttr(db[UpdateName(u)], u.should, a)
    OBVIOUS
  <2> DEFINE s == u.should
             b == before[s.name]
  <2>1. Processing /\ Command(u) # "none"
    BY DEF RunCommand, CommandFails, CommandResults
  <2>2. /\ next \in DOMAIN upds /\ u = upds[next]
        /\ s \in UserShould /\ s.name = UpdateName(u) /\ b \in Entry \cup {NoUser}
        /\ u = Update(Is(b, s.name), s)
    BY <1>1, <2>1, InHand
  <2>3. db[s.name] = b /\ chgs[s.name] = <<>>
    <3>1. next >= next
      BY <1>1 DEF IndInv, TypeOK
    <3> QED BY <1>1, <2>1, <2>2, <3>1 DEF IndInv, Untouched, Processing
  <2>4. EnsureOf(u) # "present" \/ s.attrs["groups"] = None \/ u.is.attrs["gid"] \in s.attrs["groups"]
    OBVIOUS
  <2> HIDE DEF s, b
  <2>5. u.is.attrs["gid"] = b.gid
    <3>1. Update(Is(b, s.name), s).is.attrs["gid"] = b.gid
      BY <2>2, UpdateFacts
    <3> QED BY <2>2, <3>1
  <2>6. \E a \in Asked(s) : ~HasAttr(b, s, a)
    BY <2>1, <2>2, <2>3, <2>4, <2>5, SomethingToDo
  <2> QED BY <2>2, <2>3, <2>6 DEF s
<1>2. IndInv => [Needed]_vars
  BY <1>1
<1> QED BY <1>2, IndInvHolds, PTL DEF OnlyWhenNeeded

\* What the changes on record say was there is what the lookup has shown.
WasShown(upd, c) == \A k \in DOMAIN c : c[k].was = Lookup(upd.is, c[k].attr, NoValue(c[k].attr))

LEMMA AppendShown ==
  ASSUME NEW upd, NEW c, IsSequence(c), WasShown(upd, c),
         NEW x, x.was = Lookup(upd.is, x.attr, NoValue(x.attr))
  PROVE  WasShown(upd, Append(c, x)) /\ IsSequence(Append(c, x))
<1>1. /\ Len(c) \in Nat /\ DOMAIN c = 1..Len(c)
      /\ DOMAIN Append(c, x) = 1..Len(c) + 1 /\ Append(c, x)[Len(c) + 1] = x
      /\ \A k \in 1..Len(c) : Append(c, x)[k] = c[k]
      /\ IsSequence(Append(c, x))
  BY AppendFacts DEF IsSequence
<1> DEFINE d == Append(c, x)
<1>2. ASSUME NEW k \in DOMAIN d PROVE d[k].was = Lookup(upd.is, d[k].attr, NoValue(d[k].attr))
  <2>1. CASE k = Len(c) + 1
    BY <1>1, <2>1
  <2>2. CASE k # Len(c) + 1
    <3>1. k \in DOMAIN c /\ d[k] = c[k]
      BY <1>1, <2>2
    <3> QED BY <3>1 DEF WasShown
  <2> QED BY <2>1, <2>2
<1> QED BY <1>1, <1>2 DEF WasShown

LEMMA AddDiffShown ==
  ASSUME NEW upd, NEW c, IsSequence(c), WasShown(upd, c), NEW a, a # "groups"
  PROVE  WasShown(upd, AddDiff(c, a, upd)) /\ IsSequence(AddDiff(c, a, upd))
<1> DEFINE x == Change(a, upd.should.attrs[a], upd.is.attrs[a])
<1>1. x.was = Lookup(upd.is, x.attr, NoValue(x.attr))
  BY DEF Change, Lookup, NoValue
<1>2. AddDiff(c, a, upd) = IF Changed(upd, a) THEN Append(c, x) ELSE c
  BY DEF AddDiff
<1> HIDE DEF x
<1>3. WasShown(upd, Append(c, x)) /\ IsSequence(Append(c, x))
  BY <1>1, AppendShown
<1> QED BY <1>2, <1>3

LEMMA RecordedShown ==
  ASSUME NEW upd, chgs[UpdateName(upd)] = <<>>, upd.is.attrs["ensure"] = StateOf(upd)
  PROVE  WasShown(upd, Recorded(upd))
<1> DEFINE n == Change("ensure", EnsureOf(upd), StateOf(upd))
           e == IF EnsureOf(upd) # StateOf(upd) THEN Append(<<>>, n) ELSE <<>>
           g == AddDiff(e, "gid", upd)
           h == AddDiff(g, "home", upd)
           x == Change("groups", ShouldGroups(upd), IsGroups(upd))
<1>1. Recorded(upd) = IF EnsureOf(upd) # "present" THEN e
                      ELSE IF GroupsChanged(upd) THEN Append(h, x) ELSE h
  BY DEF Recorded, AddProps
<1>2. /\ n.was = Lookup(upd.is, n.attr, NoValue(n.attr))
      /\ x.was = Lookup(upd.is, x.attr, NoValue(x.attr))
  BY DEF Change, StateOf, IsGroups, Lookup, NoValue
<1> HIDE DEF n, x
<1>3. WasShown(upd, <<>>) /\ IsSequence(<<>>)
  BY EmptyFacts DEF WasShown
<1>4. WasShown(upd, e) /\ IsSequence(e)
  <2>1. WasShown(upd, Append(<<>>, n)) /\ IsSequence(Append(<<>>, n))
    BY <1>2, <1>3, AppendShown
  <2> QED BY <1>3, <2>1
<1> HIDE DEF e
<1>5. WasShown(upd, g) /\ IsSequence(g)
  BY <1>4, AddDiffShown
<1> HIDE DEF g
<1>6. WasShown(upd, h) /\ IsSequence(h)
  BY <1>5, AddDiffShown
<1> HIDE DEF h
<1>7. WasShown(upd, Append(h, x))
  BY <1>2, <1>6, AppendShown
<1> QED BY <1>1, <1>4, <1>6, <1>7

LEMMA SeenFacts ==
  ASSUME NEW b \in Entry \cup {NoUser}, NEW s \in UserShould
  PROVE  /\ Seen(b, s.name, "ensure") = IF b = NoUser THEN "absent" ELSE "present"
         /\ Seen(b, s.name, "gid") = b.gid /\ Seen(b, s.name, "home") = b.home
         /\ Seen(b, s.name, "groups") = IF b = NoUser THEN {} ELSE b.groups
<1>1. /\ Update(Is(b, s.name), s).is.attrs["ensure"] = IF b = NoUser THEN "absent" ELSE "present"
      /\ Update(Is(b, s.name), s).is.attrs["gid"] = b.gid
      /\ Update(Is(b, s.name), s).is.attrs["home"] = b.home
  BY UpdateFacts
<1> QED BY <1>1 DEF Update, Seen

\* An update that finds its user as looked up, with nothing on record, leaves
\* changes on record that tell what it has done.
LEMMA UpdateTells ==
  ASSUME NEW b \in Entry \cup {NoUser}, NEW s \in UserShould, NEW upd,
         upd = Update(Is(b, s.name), s),
         chgs[s.name] = <<>>, db[s.name] = b, EnsureOf(upd) # "role",
         NEW e, (Command(upd) = "none" /\ e = b) \/ e \in CommandResults(upd)
  PROVE  Told(upd, b, e, Recorded(upd))
<1>1. /\ UpdateName(upd) = s.name /\ s.name \in User /\ upd.should = s
      /\ StateOf(upd) = IF b = NoUser THEN "absent" ELSE "present"
      /\ EnsureOf(upd) = IF s.attrs["ensure"] = None THEN StateOf(upd) ELSE s.attrs["ensure"]
      /\ upd.is.attrs["ensure"] = StateOf(upd)
      /\ upd.is.attrs["gid"] = b.gid /\ upd.is.attrs["home"] = b.home
      /\ IsGroups(upd) = IF b = NoUser THEN {} ELSE GroupList(b)
      /\ ShouldGroups(upd) = IF s.attrs["groups"] = None THEN IsGroups(upd) ELSE s.attrs["groups"]
  BY UpdateFacts
<1>2. /\ s.attrs["ensure"] \in {None, "present", "absent", "role"}
      /\ NoUser \notin Entry /\ NoUser.gid = None /\ NoUser.home = None
      /\ \A d \in Entry : d.gid # None /\ d.home # None
  BY DEF UserShould, NoUser, Entry
<1>3. WasShown(upd, Recorded(upd))
  BY <1>1, RecordedShown
<1>4. AttrsOf(Recorded(upd)) = Reports(upd) /\ (Recorded(upd) = <<>> => Reports(upd) = {})
  BY <1>1, EmptyFacts, RecordedFacts
<1> DEFINE differ == {a \in Asked(s) : Seen(b, s.name, a) # Seen(e, s.name, a)}
           relevant == IF Desired(upd, "ensure") = "absent" THEN {"ensure"} ELSE Attr
<1>5. Desired(upd, "ensure") = EnsureOf(upd)
  BY <1>1 DEF Desired, Lookup, EnsureOf
<1>6. ASSUME NEW d \in Entry \cup {NoUser}
      PROVE  /\ Seen(d, s.name, "ensure") = IF d = NoUser THEN "absent" ELSE "present"
             /\ Seen(d, s.name, "gid") = d.gid /\ Seen(d, s.name, "home") = d.home
             /\ Seen(d, s.name, "groups") = IF d = NoUser THEN {} ELSE d.groups
  BY SeenFacts
<1>7. \/ /\ EnsureOf(upd) = "present" /\ b = NoUser /\ e \in UserAddResults(b, Options(upd))
      \/ /\ EnsureOf(upd) = "present" /\ b # NoUser /\ e \in UserModResults(b, Options(upd))
      \/ /\ EnsureOf(upd) = "absent" /\ b # NoUser /\ e \in UserDelResults(b)
      \/ /\ Command(upd) = "none" /\ e = b
  <2>1. CASE e \in CommandResults(upd)
    <3>1. e \in CASE Command(upd) = "useradd" -> UserAddResults(b, Options(upd))
                 [] Command(upd) = "usermod" -> UserModResults(b, Options(upd))
                 [] Command(upd) = "userdel" -> UserDelResults(b)
                 [] OTHER -> {}
      BY <1>1, <2>1 DEF CommandResults
    <3>2. /\ Command(upd) = "useradd" => EnsureOf(upd) = "present" /\ b = NoUser
          /\ Command(upd) = "usermod" => EnsureOf(upd) = "present" /\ b # NoUser
          /\ Command(upd) = "userdel" => EnsureOf(upd) = "absent" /\ b # NoUser
      BY <1>1 DEF Command
    <3>3. CASE Command(upd) = "useradd"
      BY <3>1, <3>2, <3>3
    <3>4. CASE Command(upd) = "usermod"
      BY <3>1, <3>2, <3>4
    <3>5. CASE Command(upd) = "userdel"
      BY <3>1, <3>2, <3>5
    <3> QED BY <3>1, <3>3, <3>4, <3>5
  <2> QED BY <2>1
<1> DEFINE opts == Options(upd)
<1>8. /\ \A a \in {"gid", "home"} : opts[a] = IF Changed(upd, a) THEN s.attrs[a] ELSE None
      /\ opts["groups"] = IF GroupsChanged(upd) THEN ShouldGroups(upd) ELSE None
  BY <1>1 DEF Options, Attr
<1>9. Changed(upd, "gid") <=> (s.attrs["gid"] # None /\ b.gid # s.attrs["gid"])
  BY <1>1 DEF Changed
<1>10. Changed(upd, "home") <=> (s.attrs["home"] # None /\ b.home # s.attrs["home"])
  BY <1>1 DEF Changed
<1>11. Asked(s) \subseteq {"ensure", "gid", "home", "groups"} /\ \A a \in {"ensure", "gid", "home", "groups"} :
         a \in Asked(s) <=> s.attrs[a] # None
  BY DEF Asked
<1> HIDE DEF opts
<1>12. differ \cap relevant \subseteq Reports(upd) /\ Reports(upd) \ differ \subseteq {"groups"}
  <2>1. CASE EnsureOf(upd) = "present" /\ b = NoUser /\ e \in UserAddResults(b, opts)
    <3>1. /\ e \in Entry /\ \A a \in {"gid", "home"} : opts[a] \in {None, e[a]}
          /\ e.groups = IF opts["groups"] = None THEN {} ELSE opts["groups"]
      BY <2>1 DEF UserAddResults
    <3>2. EnsureOf(upd) # StateOf(upd) /\ s.attrs["ensure"] = "present"
      BY <1>1, <2>1
    <3>3. s.attrs["gid"] # None => Changed(upd, "gid") /\ e.gid = s.attrs["gid"]
      BY <1>2, <1>8, <1>9, <2>1, <3>1
    <3>4. s.attrs["home"] # None => Changed(upd, "home") /\ e.home = s.attrs["home"]
      BY <1>2, <1>8, <1>10, <2>1, <3>1
    <3>5. s.attrs["groups"] # None /\ ~GroupsChanged(upd) => e.groups = {}
      BY <1>8, <3>1
    <3>6. Seen(b, s.name, "ensure") = "absent" /\ Seen(e, s.name, "ensure") = "present"
          /\ Seen(b, s.name, "gid") = None /\ Seen(b, s.name, "home") = None
          /\ Seen(e, s.name, "gid") = e.gid /\ Seen(e, s.name, "home") = e.home
          /\ Seen(b, s.name, "groups") = {} /\ Seen(e, s.name, "groups") = e.groups
      BY <1>2, <1>6, <2>1, <3>1
    <3>7. differ \subseteq Reports(upd)
      BY <1>11, <2>1, <3>2, <3>3, <3>4, <3>5, <3>6 DEF Reports
    <3>8. "ensure" \in differ
      BY <1>2, <1>11, <3>2, <3>6
    <3>9. \A a \in {"gid", "home"} : Changed(upd, a) => a \in differ
      BY <1>2, <1>9, <1>10, <1>11, <3>1, <3>3, <3>4, <3>6
    <3> QED BY <3>7, <3>8, <3>9 DEF Reports
  <2>2. CASE EnsureOf(upd) = "present" /\ b # NoUser /\ e \in UserModResults(b, opts)
    <3>1. /\ e \in Entry /\ e # NoUser
          /\ \A a \in {"gid", "home", "groups"} : e[a] = IF opts[a] = None THEN b[a] ELSE opts[a]
      BY <1>2, <2>2 DEF UserModResults
    <3>2. EnsureOf(upd) = StateOf(upd)
      BY <1>1, <2>2
    <3>3. e.gid = IF Changed(upd, "gid") THEN s.attrs["gid"] ELSE b.gid
      BY <1>8, <1>9, <3>1
    <3>4. e.home = IF Changed(upd, "home") THEN s.attrs["home"] ELSE b.home
      BY <1>8, <1>10, <3>1
    <3>5. ~GroupsChanged(upd) => e.groups = b.groups
      BY <1>8, <3>1
    <3>6. Seen(b, s.name, "ensure") = "present" /\ Seen(e, s.name, "ensure") = "present"
          /\ Seen(b, s.name, "gid") = b.gid /\ Seen(b, s.name, "home") = b.home
          /\ Seen(e, s.name, "gid") = e.gid /\ Seen(e, s.name, "home") = e.home
          /\ Seen(b, s.name, "groups") = b.groups /\ Seen(e, s.name, "groups") = e.groups
      BY <1>6, <2>2, <3>1
    <3>7. differ \subseteq Reports(upd)
      BY <1>11, <2>2, <3>3, <3>4, <3>5, <3>6 DEF Reports
    <3>8. \A a \in {"gid", "home"} : Changed(upd, a) => a \in differ
      BY <1>9, <1>10, <1>11, <3>3, <3>4, <3>6
    <3> QED BY <3>2, <3>7, <3>8 DEF Reports
  <2>3. CASE EnsureOf(upd) = "absent" /\ b # NoUser /\ e \in UserDelResults(b)
    <3>1. e = NoUser /\ s.attrs["ensure"] = "absent" /\ StateOf(upd) = "present"
      BY <1>1, <2>3 DEF UserDelResults
    <3>2. Seen(b, s.name, "ensure") = "present" /\ Seen(e, s.name, "ensure") = "absent"
      BY <1>6, <2>3, <3>1
    <3>3. Reports(upd) = {"ensure"} /\ relevant = {"ensure"}
      BY <1>5, <2>3, <3>1 DEF Reports
    <3>4. "ensure" \in differ
      BY <1>2, <1>11, <3>1, <3>2
    <3> QED BY <3>3, <3>4
  <2>4. CASE Command(upd) = "none" /\ e = b
    <3>1. differ = {}
      BY <2>4
    <3>2. \/ EnsureOf(upd) = "present" /\ Recorded(upd) = <<>>
          \/ EnsureOf(upd) = "absent" /\ StateOf(upd) = "absent"
      BY <1>1, <1>2, <2>4 DEF Command
    <3>3. Reports(upd) = {}
      BY <1>4, <3>2 DEF Reports
    <3> QED BY <3>1, <3>3
  <2> QED BY <1>7, <2>1, <2>2, <2>3, <2>4 DEF opts
<1> HIDE DEF differ, relevant
<1>13. /\ differ \cap relevant \subseteq AttrsOf(Recorded(upd))
       /\ AttrsOf(Recorded(upd)) \ differ \subseteq {"groups"}
  BY <1>4, <1>12
<1> QED BY <1>1, <1>3, <1>13 DEF Told, WasShown, AttrsOf, differ, relevant

\* The updates behind the loop are told of as they were carried out.
ToldSoFar ==
  quiet /\ Distinct /\ (pc = "set" \/ Succeeded) =>
    \A i \in DOMAIN upds : i < next =>
      LET n == UpdateName(upds[i]) IN Told(upds[i], before[n], db[n], chgs[n])

LEMMA ToldAdvance ==
  ASSUME IndInv, ToldSoFar, Processing, Record, next' = next + 1,
         UNCHANGED <<pc, upds, outcome, before, quiet>>, EnsureOf(u) # "role",
         \A n \in User : n # UpdateName(u) => db'[n] = db[n],
         \/ Command(u) = "none" /\ db'[UpdateName(u)] = db[UpdateName(u)]
         \/ db'[UpdateName(u)] \in CommandResults(u)
  PROVE  ToldSoFar'
<1> SUFFICES ASSUME quiet, Distinct, NEW i \in DOMAIN upds, i < next + 1
             PROVE  Told(upds[i], before[UpdateName(upds[i])], db'[UpdateName(upds[i])],
                         chgs'[UpdateName(upds[i])])
  BY DEF ToldSoFar, Distinct
<1>1. /\ next \in DOMAIN upds /\ u = upds[next] /\ UpdateName(u) \in User
      /\ u.should \in UserShould /\ u.should.name = UpdateName(u)
      /\ before[u.should.name] \in Entry \cup {NoUser}
      /\ u = Update(Is(before[u.should.name], u.should.name), u.should)
      /\ pc = "set"
  BY InHand DEF Processing
<1>2. /\ Len(upds) \in Nat /\ DOMAIN upds = 1..Len(upds)
      /\ \A k \in DOMAIN upds : UpdateName(upds[k]) \in User
  BY BatchFacts
<1>3. /\ \A n \in User : n # UpdateName(u) => chgs'[n] = chgs[n]
      /\ chgs'[UpdateName(u)] = Recorded(u)
  BY RecordStep
<1>4. CASE i = next
  <2> DEFINE b == before[u.should.name]
             s == u.should
             e == db'[UpdateName(u)]
  <2>1. db[s.name] = b /\ chgs[s.name] = <<>>
    <3>1. next >= next
      BY <1>1, <1>2
    <3> QED BY <1>1, <3>1 DEF IndInv, Untouched
  <2>2. /\ b \in Entry \cup {NoUser} /\ s \in UserShould
        /\ u = Update(Is(b, s.name), s)
        /\ (Command(u) = "none" /\ e = b) \/ e \in CommandResults(u)
    BY <1>1, <2>1
  <2> HIDE DEF b, s, e
  <2>3. Told(u, b, e, Recorded(u))
    BY <2>1, <2>2, UpdateTells
  <2> QED BY <1>1, <1>3, <1>4, <2>3 DEF b, s, e
<1>5. CASE i # next
  <2>1. UpdateName(upds[i]) # UpdateName(u) /\ UpdateName(upds[i]) \in User
    BY <1>1, <1>2, <1>5 DEF Distinct
  <2>2. i < next
    BY <1>1, <1>2, <1>5
  <2>3. Told(upds[i], before[UpdateName(upds[i])], db[UpdateName(upds[i])], chgs[UpdateName(upds[i])])
    BY <1>1, <2>2 DEF ToldSoFar
  <2> QED BY <1>3, <2>1, <2>3
<1> QED BY <1>4, <1>5

LEMMA ToldStep ==
  ASSUME IndInv, ToldSoFar, [Next]_vars
  PROVE  ToldSoFar'
<1>1. CASE NoCommand
  BY <1>1, ToldAdvance DEF NoCommand
<1>2. CASE RunCommand
  <2>1. /\ Processing /\ Record /\ next' = next + 1 /\ met' = met \cup Holding(db', upds)
        /\ UNCHANGED <<pc, upds, outcome, before, quiet>>
    BY <1>2 DEF RunCommand
  <2>2. PICK e \in CommandResults(u) : db' = [db EXCEPT ![UpdateName(u)] = e]
    BY <1>2 DEF RunCommand
  <2>3. db'[UpdateName(u)] = e /\ \A n \in User : n # UpdateName(u) => db'[n] = db[n]
    BY <2>1, <2>2, CommandRuns
  <2>4. EnsureOf(u) # "role"
    <3>1. CommandResults(u) # {}
      BY <2>2
    <3>2. Command(u) # "none"
      BY <3>1 DEF CommandResults
    <3> QED BY <3>2 DEF Command
  <2> QED BY <2>1, <2>3, <2>4, ToldAdvance
<1>3. CASE CommandFails
  BY <1>3 DEF CommandFails, Give, ToldSoFar, Succeeded
<1>4. CASE RoleRefused
  BY <1>4 DEF RoleRefused, Give, ToldSoFar, Succeeded
<1>5. CASE Finish
  BY <1>5 DEF Finish, ToldSoFar, Succeeded, Distinct
<1>6. CASE Release
  BY <1>6 DEF Release, ToldSoFar, Succeeded
<1>7. CASE Admin
  BY <1>7 DEF Admin, ToldSoFar
<1>8. ASSUME NEW shoulds \in Calls, Call(shoulds) PROVE ToldSoFar'
  <2>1. next' = 1
    BY <1>8 DEF Call, IndInv, Clean
  <2>2. Len(upds') \in Nat /\ DOMAIN upds' = 1..Len(upds')
    <3>1. IndInv'
      BY <1>8, CallStep
    <3>2. upds' \in Seq(UpdateType)
      BY <3>1 DEF IndInv, TypeOK
    <3> QED BY <3>2
  <2>3. \A i \in DOMAIN upds' : ~(i < next')
    BY <2>1, <2>2
  <2> QED BY <2>3 DEF ToldSoFar
<1>9. CASE UNCHANGED vars
  BY <1>9 DEF vars, ToldSoFar, Succeeded, Distinct
<1> QED BY <1>1, <1>2, <1>3, <1>4, <1>5, <1>6, <1>7, <1>8, <1>9 DEF Next, Step

\* The changes that an undisturbed user_provider::set returns tell what it has
\* made of each user, with what the lookup had shown (context.hpp 26-30), when
\* the batch names each user once.
THEOREM ChangesTruthfulHolds == Spec => []ChangesTruthful
<1>1. Init => ToldSoFar
  BY DEF Init, ToldSoFar, Succeeded
<1>2. IndInv /\ ToldSoFar => ChangesTruthful
  <2> SUFFICES ASSUME IndInv, ToldSoFar, Succeeded, quiet, Distinct, NEW i \in DOMAIN upds
               PROVE  i < next
    BY DEF ChangesTruthful, ToldSoFar
  <2>1. next \notin DOMAIN upds /\ next \in 1..Len(upds) + 1
    BY DEF IndInv, Attained, TypeOK
  <2> QED BY <2>1, BatchFacts
<1> QED BY <1>1, <1>2, InitInd, NextKeeps, ToldStep, PTL DEF Spec
=============================================================================
