------------------------- MODULE FileProvider_proofs -------------------------
(* Proofs about FileProvider, for all paths, owners, modes, contents and      *)
(* batches.                                                                   *)
EXTENDS FileProvider, Lists_proofs

-----------------------------------------------------------------------------
(* What the lookup makes of a batch. *)

\* The updates provider::set makes when the file system is f: a name that is
\* an absolute path is paired with what load() found, another with a blank.
UpdatesOf(f) ==
  {Update(Load(f, s.name), s) : s \in {t \in FileShould : t.name \in Path}}
  \cup {Update(Blank(s.name, Attr), s) : s \in {t \in FileShould : t.name \in Relative}}

FileSystem == [Path -> Entries]

\* The types an update can give a file.
Makeable == {"file", "directory", "link", "absent"}

\* What can be the value of an attribute in a change.
Worth ==
  {None, "present"} \cup Kinds \cup Path \cup Content \cup Owner \cup OwnerName
  \cup [bits: Bits \cup {None, LinkBits}, padded: BOOLEAN]

Noted == [attr: Attr, is: Worth, was: Worth]

\* The entry at a path.
LEMMA EntryFacts ==
  ASSUME NEW e \in Entries
  PROVE  /\ e.type \in Kinds /\ e.bits \in Bits \cup {None, LinkBits}
         /\ e.owner \in Owner \cup {None} /\ e.content \in Content \cup {None}
         /\ e.target \in Path \cup {None}
         /\ e.type = "absent" => e = NoEntry
         /\ e.type \in {"file", "directory", "special"} => e.bits \in Bits /\ e.owner \in Owner /\ e.target = None
         /\ (e.type = "file" <=> e.content # None)
         /\ e.type = "link" => e.bits = LinkBits /\ e.owner \in Owner /\ e.target \in Path
BY FileAssumption DEF Entries, Dirent, NoEntry, Kinds

\* What load() reads off it.
LEMMA LoadName == \A f, p : Load(f, p).name = p
BY DEF Load, Resource

LEMMA LoadEnsure ==
  /\ \A f, p : f[p].type = "special" => Load(f, p).attrs["ensure"] = "present"
  /\ \A f, p : f[p].type # "special" => Load(f, p).attrs["ensure"] = f[p].type
BY DEF Load, Resource, Blank, Attr

LEMMA LoadType == \A f, p : f[p].type # "absent" => Load(f, p).attrs["type"] = f[p].type
BY DEF Load, Resource, Blank, Attr

LEMMA LoadMode ==
  /\ \A f, p : f[p].type = "absent" => Load(f, p).attrs["mode"] = None
  /\ \A f, p : f[p].type # "absent" => Load(f, p).attrs["mode"] = ModeString(f[p].bits, TRUE)
BY DEF Load, Resource, Blank, Attr

LEMMA LoadOwner == \A f, p : Load(f, p).attrs["owner"] = f[p].owner
BY DEF Load, Resource, Blank, Attr

LEMMA LoadTarget == \A f, p : Load(f, p).attrs["target"] = f[p].target
BY DEF Load, Resource, Blank, Attr

LEMMA BlankFacts ==
  ASSUME NEW n
  PROVE  Blank(n, Attr).name = n /\ \A a \in Attr : Blank(n, Attr).attrs[a] = None
BY DEF Blank, Resource

LEMMA ShouldFacts ==
  ASSUME NEW s \in FileShould
  PROVE  /\ s.name \in Name /\ (s.name \in Path <=> s.name \notin Relative)
         /\ s.attrs["ensure"] \in {None, "present"} \cup Makeable
         /\ \/ s.attrs["mode"] \in {None, BadMode}
            \/ \E b \in Bits, pd \in BOOLEAN : s.attrs["mode"] = ModeString(b, pd)
         /\ s.attrs["owner"] \in {None} \cup Owner \cup OwnerName
         /\ s.attrs["content"] \in {None} \cup Content
         /\ s.attrs["target"] \in {None} \cup Path
<1>1. /\ s.name \in Name
      /\ s.attrs["ensure"] \in {None, "present"} \cup Makeable
      /\ s.attrs["mode"] \in {None, BadMode} \cup {ModeString(b, pd) : b \in Bits, pd \in BOOLEAN}
      /\ s.attrs["owner"] \in {None} \cup Owner \cup OwnerName
      /\ s.attrs["content"] \in {None} \cup Content
      /\ s.attrs["target"] \in {None} \cup Path
  BY DEF FileShould, Makeable
<1>2. s.name \in Path <=> s.name \notin Relative
  BY <1>1, FileAssumption DEF Name
<1> QED BY <1>1, <1>2

\* What an update knows, and what it asks for.
LEMMA UpdateFacts ==
  ASSUME NEW f \in FileSystem, NEW u \in UpdatesOf(f)
  PROVE  /\ u.should \in FileShould /\ UpdateName(u) = u.should.name /\ UpdateName(u) \in Name
         /\ PathOf(u) \in Path
         /\ UpdateName(u) \in Path => PathOf(u) = UpdateName(u) /\ u.is = Load(f, UpdateName(u))
         /\ UpdateName(u) \in Path => StateOf(u) = f[UpdateName(u)].type
         /\ UpdateName(u) \notin Path => StateOf(u) = "absent"
         /\ StateOf(u) \in Kinds
         /\ Lookup(u.is, "ensure", "absent") = IF StateOf(u) = "special" THEN "present" ELSE StateOf(u)
<1>1. CASE \E s \in FileShould : s.name \in Path /\ u = Update(Load(f, s.name), s)
  <2>1. PICK s \in FileShould : s.name \in Path /\ u = Update(Load(f, s.name), s)
    BY <1>1
  <2>2. u.should = s /\ u.is = Load(f, s.name)
    BY <2>1 DEF Update
  <2>3. UpdateName(u) = s.name
    BY <2>2, LoadName DEF UpdateName
  <2>4. f[s.name] \in Entries
    BY <2>1 DEF FileSystem
  <2>5. PathOf(u) = s.name
    BY <2>1, <2>3, ShouldFacts DEF PathOf, Absolute
  <2>6. f[s.name].type \in Kinds
    BY <2>4, EntryFacts
  <2>7. None # "present" /\ None \notin Kinds
    BY FileAssumption
  <2>8. StateOf(u) = f[s.name].type
    <3>1. CASE f[s.name].type = "special"
      BY <2>2, <2>7, <3>1, LoadEnsure, LoadType DEF StateOf, Lookup, Kinds
    <3>2. CASE f[s.name].type # "special"
      BY <2>2, <2>6, <2>7, <3>2, LoadEnsure DEF StateOf, Lookup, Kinds
    <3> QED BY <3>1, <3>2
  <2>9. Lookup(u.is, "ensure", "absent") = IF StateOf(u) = "special" THEN "present" ELSE StateOf(u)
    BY <2>2, <2>6, <2>7, <2>8, LoadEnsure DEF Lookup
  <2> QED BY <2>1, <2>2, <2>3, <2>5, <2>6, <2>8, <2>9, ShouldFacts
<1>2. CASE \E s \in FileShould : s.name \in Relative /\ u = Update(Blank(s.name, Attr), s)
  <2>1. PICK s \in FileShould : s.name \in Relative /\ u = Update(Blank(s.name, Attr), s)
    BY <1>2
  <2>2. u.should = s /\ u.is = Blank(s.name, Attr)
    BY <2>1 DEF Update
  <2>3. UpdateName(u) = s.name /\ u.is.attrs["ensure"] = None
    BY <2>2, BlankFacts DEF UpdateName, Attr
  <2>4. PathOf(u) \in Path
    BY <2>1, <2>3, FileAssumption DEF PathOf, Absolute
  <2>5. StateOf(u) = "absent" /\ Lookup(u.is, "ensure", "absent") = "absent"
    BY <2>3 DEF StateOf, Lookup
  <2> QED BY <2>1, <2>2, <2>3, <2>4, <2>5, ShouldFacts DEF Kinds
<1> QED BY <1>1, <1>2 DEF UpdatesOf

\* The type an update is to give its file.
LEMMA EnsureFacts ==
  ASSUME NEW f \in FileSystem, NEW u \in UpdatesOf(f)
  PROVE  /\ EnsureOf(u) \in Kinds
         /\ u.should.attrs["ensure"] = None => EnsureOf(u) = StateOf(u)
         /\ u.should.attrs["ensure"] = "present" =>
              EnsureOf(u) = IF StateOf(u) = "absent" THEN "file" ELSE StateOf(u)
         /\ u.should.attrs["ensure"] \notin {None, "present"} => EnsureOf(u) = u.should.attrs["ensure"]
         /\ EnsureOf(u) \in Makeable \/ EnsureOf(u) = "special"
         /\ Dispatch(u, "absent") \in {"create", "mkdir", "target", "done", "illegal"}
<1>1. u.should.attrs["ensure"] \in {None, "present"} \cup Makeable /\ StateOf(u) \in Kinds
  BY UpdateFacts, ShouldFacts
<1>2. None # "present" /\ None \notin Kinds
  BY FileAssumption
<1>3. CASE u.should.attrs["ensure"] = None
  BY <1>1, <1>2, <1>3 DEF EnsureOf, Lookup, Kinds, Makeable, Dispatch
<1>4. CASE u.should.attrs["ensure"] = "present"
  BY <1>1, <1>2, <1>4 DEF EnsureOf, Lookup, Kinds, Makeable, Dispatch
<1>5. CASE u.should.attrs["ensure"] \in Makeable
  BY <1>1, <1>2, <1>5 DEF EnsureOf, Lookup, Kinds, Makeable, Dispatch
<1> QED BY <1>1, <1>3, <1>4, <1>5

\* Values that can be told in a change.
LEMMA WorthFacts ==
  ASSUME NEW f \in FileSystem, NEW u \in UpdatesOf(f)
  PROVE  /\ \A a \in {"owner", "mode", "target"} : u.is.attrs[a] \in Worth /\ u.should.attrs[a] \in Worth
         /\ u.should.attrs["content"] \in Worth
         /\ StateOf(u) \in Worth /\ EnsureOf(u) \in Worth
<1>1. u.should \in FileShould /\ StateOf(u) \in Kinds /\ EnsureOf(u) \in Kinds
  BY UpdateFacts, EnsureFacts
<1>2. \A a \in {"owner", "mode", "target"} : u.should.attrs[a] \in Worth
  <2>1. u.should.attrs["mode"] \in Worth
    <3>1. BadMode \in Worth
      BY DEF BadMode, ModeString, Worth
    <3>2. None \in Worth /\ \A b \in Bits, pd \in BOOLEAN : ModeString(b, pd) \in Worth
      BY DEF Worth, ModeString
    <3> QED BY <1>1, <3>1, <3>2, ShouldFacts
  <2>2. u.should.attrs["owner"] \in Worth /\ u.should.attrs["target"] \in Worth
    BY <1>1, ShouldFacts DEF Worth
  <2> QED BY <2>1, <2>2
<1>3. u.should.attrs["content"] \in Worth
  BY <1>1, ShouldFacts DEF Worth
<1>4. \A a \in {"owner", "mode", "target"} : u.is.attrs[a] \in Worth
  <2>1. CASE UpdateName(u) \in Path
    <3>1. u.is = Load(f, UpdateName(u)) /\ f[UpdateName(u)] \in Entries
      BY <2>1, UpdateFacts DEF FileSystem
    <3> DEFINE e == f[UpdateName(u)]
    <3>2. /\ e.bits \in Bits \cup {None, LinkBits} /\ e.owner \in Owner \cup {None}
          /\ e.target \in Path \cup {None}
      BY <3>1, EntryFacts
    <3>3. ModeString(e.bits, TRUE) \in Worth /\ None \in Worth
      BY <3>2 DEF Worth, ModeString
    <3>4. u.is.attrs["mode"] \in Worth
      <4>1. Load(f, UpdateName(u)).attrs["mode"] \in {None, ModeString(e.bits, TRUE)}
        BY LoadMode
      <4> HIDE DEF e
      <4> QED BY <3>1, <3>3, <4>1
    <3>5. u.is.attrs["owner"] \in Worth /\ u.is.attrs["target"] \in Worth
      BY <3>1, <3>2, LoadOwner, LoadTarget DEF Worth
    <3> QED BY <3>4, <3>5
  <2>2. CASE UpdateName(u) \notin Path
    <3>1. PICK s : u = Update(Blank(s.name, Attr), s)
      <4>1. \A s : UpdateName(Update(Load(f, s.name), s)) = s.name
        BY LoadName DEF Update, UpdateName
      <4> QED BY <2>2, <4>1 DEF UpdatesOf
    <3>2. u.is = Blank(s.name, Attr)
      BY <3>1 DEF Update
    <3> QED BY <3>2, BlankFacts DEF Attr, Worth
  <2> QED BY <2>1, <2>2
<1>5. StateOf(u) \in Worth /\ EnsureOf(u) \in Worth
  BY <1>1 DEF Worth
<1> QED BY <1>2, <1>3, <1>4, <1>5

-----------------------------------------------------------------------------
(* Following links. *)

IsFollow(g, f) ==
  g = [n \in 0..Cardinality(Path) |->
         [q \in Path |->
            IF f[q].type # "link" THEN q
            ELSE IF n = 0 THEN None ELSE g[n - 1][f[q].target]]]

LEMMA DerefDef ==
  ASSUME NEW f, NEW p
  PROVE  Deref(f, p) = (CHOOSE g : IsFollow(g, f))[Cardinality(Path)][p]
BY DEF Deref, IsFollow

\* Where a path leads to is a path that is no link, the path itself when it
\* is none, or nowhere.
LEMMA DerefFacts ==
  ASSUME NEW f \in FileSystem, NEW p \in Path
  PROVE  /\ Deref(f, p) \in Path \cup {None}
         /\ Deref(f, p) # None => f[Deref(f, p)].type # "link"
         /\ f[p].type # "link" => Deref(f, p) = p
<1> DEFINE N == Cardinality(Path)
           Ends == {q \in Path : f[q].type # "link"} \cup {None}
           T == [Path -> Ends]
           links(h) == [q \in Path |-> IF f[q].type # "link" THEN q ELSE h[f[q].target]]
           b == [q \in Path |-> IF f[q].type # "link" THEN q ELSE None]
           step == [i \in 1..N |-> [h \in T |-> links(h)]]
<1>1. N \in Nat
  BY FileAssumption, FS_CardinalityType
<1>2. \A q \in Path : f[q].type = "link" => f[q].target \in Path
  BY EntryFacts DEF FileSystem
<1>3. b \in T
  OBVIOUS
<1>4. \A h \in T : links(h) \in T
  BY <1>2
<1>5. step \in StepsOf(T, N)
  BY <1>4 DEF StepsOf
<1>6. \A i \in 1..N, h \in T : step[i][h] = links(h)
  OBVIOUS
<1> HIDE DEF T, b, step, N
<1>7. PICK g : IsFold(g, T, b, N, step)
  BY <1>1, <1>3, <1>5, FoldExists
<1> DEFINE body(n, q) == IF f[q].type # "link" THEN q
                         ELSE IF n = 0 THEN None ELSE g[n - 1][f[q].target]
<1>8. \A n \in 0..N : g[n] = [q \in Path |-> body(n, q)]
  <2> TAKE n \in 0..N
  <2>1. CASE n = 0
    BY <1>7, <2>1 DEF IsFold, b
  <2>2. CASE n # 0
    <3>1. n \in 1..N /\ n - 1 \in 0..N
      BY <1>1, <2>2
    <3>2. g[n] = links(g[n - 1])
      BY <1>6, <1>7, <3>1 DEF IsFold
    <3> QED BY <2>2, <3>2
  <2> QED BY <2>1, <2>2
<1>9. g = [n \in 0..N |-> [q \in Path |-> body(n, q)]]
  <2>1. g = [n \in 0..N |-> g[n]]
    BY <1>7 DEF IsFold
  <2> HIDE DEF body
  <2> QED BY <1>8, <2>1
<1>10. \E h : IsFollow(h, f)
  BY <1>9 DEF IsFollow, N
<1> DEFINE c == CHOOSE h : IsFollow(h, f)
<1>11. IsFollow(c, f)
  BY <1>10
<1> HIDE DEF c
<1> DEFINE cb(n, q) == IF f[q].type # "link" THEN q
                       ELSE IF n = 0 THEN None ELSE c[n - 1][f[q].target]
<1>12. \A n \in 0..N : c[n] = [q \in Path |-> cb(n, q)]
  <2>1. c = [n \in 0..N |-> [q \in Path |-> cb(n, q)]]
    BY <1>11 DEF IsFollow, N
  <2> HIDE DEF cb
  <2> QED BY <2>1
<1> DEFINE G == {n \in Nat : n <= N => c[n] \in T}
<1>13. 0 \in G
  <2>1. 0 \in 0..N
    BY <1>1
  <2>2. c[0] = [q \in Path |-> cb(0, q)]
    BY <1>12, <2>1
  <2>3. c[0] = b
    BY <2>2 DEF b
  <2> QED BY <1>3, <2>3
<1>14. ASSUME NEW n \in Nat, n \in G PROVE n + 1 \in G
  <2> SUFFICES ASSUME n + 1 <= N PROVE c[n + 1] \in T
    OBVIOUS
  <2>1. n + 1 \in 0..N /\ n + 1 # 0 /\ (n + 1) - 1 = n /\ n <= N
    BY <1>1
  <2>2. c[n] \in T
    BY <1>14, <2>1
  <2>3. c[n + 1] = links(c[n])
    BY <1>12, <2>1
  <2> QED BY <1>4, <2>2, <2>3
<1> HIDE DEF G
<1>15. Nat \subseteq G
  BY <1>13, <1>14, NatInduct
<1>16. c[N] \in T /\ N \in 0..N
  <2>1. N \in G /\ N <= N
    BY <1>1, <1>15
  <2> QED BY <1>1, <2>1 DEF G
<1>17. Deref(f, p) = c[N][p]
  BY DerefDef DEF c, N
<1>18. f[p].type # "link" => c[N][p] = p
  <2>1. CASE N = 0
    BY <1>12, <1>16, <2>1 DEF b
  <2>2. CASE N # 0
    <3>1. c[N] = links(c[N - 1])
      BY <1>12, <1>16, <2>2
    <3> QED BY <3>1
  <2> QED BY <2>1, <2>2
<1>19. c[N][p] \in Ends
  BY <1>16 DEF T
<1> QED BY <1>17, <1>18, <1>19

LEMMA ReachedFacts ==
  ASSUME NEW f \in FileSystem, NEW p \in Path
  PROVE  /\ Reached(f, p) = "loop" <=> Deref(f, p) = None
         /\ Reached(f, p) # "loop" =>
              /\ Deref(f, p) \in Path /\ Reached(f, p) = f[Deref(f, p)].type
              /\ Reached(f, p) \in {"absent", "file", "directory", "special"}
         /\ f[p].type # "link" => Deref(f, p) = p /\ Reached(f, p) = f[p].type
<1>1. \A q \in Path : f[q].type \in Kinds /\ q # None
  BY EntryFacts, FileAssumption DEF FileSystem
<1> QED BY <1>1, DerefFacts DEF Reached, Kinds

-----------------------------------------------------------------------------
(* The inductive invariant behind the types and behind what is never lost. *)

Working == {"remove", "create", "mkdir", "target", "symlink", "owner", "mode", "content",
            "illegal", "done"}

\* What an update that has come to a stage is known to be.
Fits(u, stage) ==
  /\ stage = "remove" => EnsureOf(u) # StateOf(u) /\ StateOf(u) # "absent" /\ ~ Refused(u)
  /\ stage = "create" => EnsureOf(u) = "file" /\ EnsureOf(u) # StateOf(u)
  /\ stage = "mkdir" => EnsureOf(u) = "directory" /\ EnsureOf(u) # StateOf(u)
  /\ stage \in {"target", "symlink"} => EnsureOf(u) = "link"
  /\ stage = "symlink" => u.should.attrs["target"] # None
  /\ stage \in {"owner", "mode"} => EnsureOf(u) \in {"file", "directory", "link"}
  /\ stage = "content" => EnsureOf(u) = "file"
  /\ stage = "done" => EnsureOf(u) \in Makeable
  /\ stage = "illegal" => EnsureOf(u) \notin Makeable

DiskOK == fs \in FileSystem /\ found \in FileSystem

BatchOK == upds \in Seq(UpdatesOf(found)) /\ next \in 1..(Len(upds) + 1)

NotesOK == chgs \in [Name -> Seq(Noted)]

StageOK ==
  /\ pc \in {"idle", "begin", "returned"} \cup Working
  /\ outcome \in {"none", "ok", "refused", "failed", "internal", "exception"}
  /\ pc \in Working => next \in DOMAIN upds /\ Fits(upds[next], pc)
  /\ Succeeded => next \notin DOMAIN upds

IndInv == DiskOK /\ BatchOK /\ NotesOK /\ StageOK /\ NothingPreciousLost

\* Where an update goes on is a stage it fits.
LEMMA DispatchFits ==
  ASSUME NEW f \in FileSystem, NEW u \in UpdatesOf(f)
  PROVE  /\ Fits(u, Dispatch(u, "absent")) \/ EnsureOf(u) = StateOf(u)
         /\ Fits(u, Dispatch(u, StateOf(u)))
         /\ Dispatch(u, "absent") \in Working /\ Dispatch(u, StateOf(u)) \in Working
<1>1. EnsureOf(u) \in Kinds /\ StateOf(u) \in Kinds
  BY UpdateFacts, EnsureFacts
<1> QED BY <1>1 DEF Dispatch, Fits, Kinds, Makeable, Working

\* The batch that a call makes of its shoulds.
LEMMA CallType ==
  ASSUME NEW f \in FileSystem, NEW shoulds \in Seq(FileShould)
  PROVE  Pair(shoulds,
              [i \in DOMAIN shoulds |-> Load(f, Absolute(shoulds[i].name))], Attr) \in Seq(UpdatesOf(f))
<1> DEFINE W == {w \in FileShould : \E i \in 1..Len(shoulds) : w = shoulds[i]}
           R == {r \in {Load(f, q) : q \in Path} : TRUE}
           load(i) == Load(f, Absolute(shoulds[i].name))
           iss == [i \in DOMAIN shoulds |-> load(i)]
           U == UpdatesOf(f)
<1>1. DOMAIN shoulds = 1..Len(shoulds) /\ Len(shoulds) \in Nat
      /\ \A i \in 1..Len(shoulds) : shoulds[i] \in FileShould
  OBVIOUS
<1>2. \A w \in FileShould : w.name \in Name /\ Absolute(w.name) \in Path
                           /\ (w.name \in Path => Absolute(w.name) = w.name)
  BY ShouldFacts, FileAssumption DEF Absolute, Name
<1>3. shoulds \in Seq(W)
  <2>1. \A i \in 1..Len(shoulds) : shoulds[i] \in W
    BY <1>1
  <2> HIDE DEF W
  <2> QED BY <1>1, <2>1
<1>4. \A i \in 1..Len(shoulds) : load(i) \in R
  BY <1>1, <1>2
<1> HIDE DEF R, load
<1>5. iss \in Seq(R) /\ Len(iss) = Len(shoulds) /\ \A j \in 1..Len(iss) : iss[j] = load(j)
  BY <1>1, <1>4
<1>6. \A w \in W : \/ \E j \in 1..Len(iss) : iss[j].name = w.name
                  \/ Update(Blank(w.name, Attr), w) \in U
  <2> TAKE w \in W
  <2>1. CASE w.name \in Path
    <3>1. PICK j \in 1..Len(shoulds) : w = shoulds[j]
      OBVIOUS
    <3>2. iss[j].name = Absolute(w.name)
      BY <1>5, <3>1, LoadName DEF load
    <3> QED BY <1>2, <1>5, <2>1, <3>1, <3>2
  <2>2. CASE w.name \notin Path
    BY <1>2, <2>2 DEF UpdatesOf, Name
  <2> QED BY <2>1, <2>2
<1>7. \A w \in W, r \in R : r.name # w.name \/ Update(r, w) \in U
  <2> TAKE w \in W, r \in R
  <2>1. PICK q \in Path : r = Load(f, q)
    BY DEF R
  <2>2. r.name = q
    BY <2>1, LoadName
  <2> QED BY <2>1, <2>2 DEF UpdatesOf
<1> HIDE DEF W, U, iss
<1>8. Pair(shoulds, iss, Attr) \in Seq(U)
  BY <1>3, <1>5, <1>6, <1>7, PairType
<1> QED BY <1>8 DEF U, iss, load

\* Entries that the system calls leave.
LEMMA EntriesMade ==
  /\ NoEntry \in Entries
  /\ Dirent("file", DefaultBits, Me, Empty, None) \in Entries
  /\ Dirent("directory", DefaultBits, Me, None, None) \in Entries
  /\ \A t \in Path : Dirent("link", LinkBits, Me, None, t) \in Entries
  /\ \A e \in Entries, c \in Content : e.type = "file" => [e EXCEPT !.content = c] \in Entries
  /\ \A e \in Entries, b \in Bits : e.type \notin {"absent", "link"} => [e EXCEPT !.bits = b] \in Entries
  /\ \A e \in Entries, o \in Owner : e.type # "absent" => [e EXCEPT !.owner = o] \in Entries
<1>1. NoEntry \in Entries /\ NoEntry.type = "absent"
  BY DEF Entries, NoEntry, Dirent
<1>2. /\ Dirent("file", DefaultBits, Me, Empty, None) \in Entries
      /\ Dirent("directory", DefaultBits, Me, None, None) \in Entries
      /\ \A t \in Path : Dirent("link", LinkBits, Me, None, t) \in Entries
  BY FileAssumption DEF Entries, Dirent
<1>3. ASSUME NEW e \in Entries
      PROVE  /\ \A c \in Content : e.type = "file" => [e EXCEPT !.content = c] \in Entries
             /\ \A b \in Bits : e.type \notin {"absent", "link"} => [e EXCEPT !.bits = b] \in Entries
             /\ \A o \in Owner : e.type # "absent" => [e EXCEPT !.owner = o] \in Entries
  <2>1. CASE e = NoEntry
    BY <1>1, <2>1
  <2>2. CASE \E b \in Bits, o \in Owner, c \in Content : e = Dirent("file", b, o, c, None)
    BY <2>2 DEF Entries, Dirent
  <2>3. CASE \E b \in Bits, o \in Owner : e = Dirent("directory", b, o, None, None)
    BY <2>3 DEF Entries, Dirent
  <2>4. CASE \E b \in Bits, o \in Owner : e = Dirent("special", b, o, None, None)
    BY <2>4 DEF Entries, Dirent
  <2>5. CASE \E o \in Owner, t \in Path : e = Dirent("link", LinkBits, o, None, t)
    BY <2>5 DEF Entries, Dirent
  <2> QED BY <2>1, <2>2, <2>3, <2>4, <2>5 DEF Entries
<1> QED BY <1>1, <1>2, <1>3

\* The update in hand.
LEMMA InHand ==
  ASSUME BatchOK, DiskOK, next \in DOMAIN upds
  PROVE  /\ upds[next] \in UpdatesOf(found)
         /\ PathOf(upds[next]) \in Path /\ UpdateName(upds[next]) \in Name
         /\ fs[PathOf(upds[next])] \in Entries
<1>1. upds[next] \in UpdatesOf(found)
  BY DEF BatchOK
<1> QED BY <1>1, UpdateFacts DEF DiskOK, FileSystem

\* Changes that are recorded of an update.
LEMMA DiffType ==
  ASSUME NEW f \in FileSystem, NEW u \in UpdatesOf(f), NEW c \in Seq(Noted)
  PROVE  /\ \A a \in {"owner", "mode", "target"} : AddDiff(c, a, u) \in Seq(Noted)
         /\ AddMetadata(c, u) \in Seq(Noted)
         /\ \A was \in {"absent", StateOf(u)} :
              Append(c, Change("ensure", EnsureOf(u), was)) \in Seq(Noted)
         /\ \A v \in Content, was \in Content : Append(c, Change("content", v, was)) \in Seq(Noted)
<1>1. /\ \A a \in {"owner", "mode", "target"} : u.is.attrs[a] \in Worth /\ u.should.attrs[a] \in Worth
      /\ StateOf(u) \in Worth /\ EnsureOf(u) \in Worth
      /\ "absent" \in Worth /\ \A v \in Content : v \in Worth
  BY WorthFacts DEF Worth, Kinds
<1>2. \A a \in Attr, v \in Worth, was \in Worth : Change(a, v, was) \in Noted
  BY DEF Change, Noted
<1>3. \A d \in Seq(Noted), x \in Noted : Append(d, x) \in Seq(Noted)
  OBVIOUS
<1>4. \A d \in Seq(Noted), a \in {"owner", "mode", "target"} : AddDiff(d, a, u) \in Seq(Noted)
  <2> TAKE d \in Seq(Noted), a \in {"owner", "mode", "target"}
  <2>1. Change(a, u.should.attrs[a], u.is.attrs[a]) \in Noted
    BY <1>1, <1>2 DEF Attr
  <2> QED BY <1>3, <2>1 DEF AddDiff
<1>5. AddMetadata(c, u) \in Seq(Noted)
  BY <1>4 DEF AddMetadata
<1> QED BY <1>1, <1>2, <1>3, <1>4, <1>5 DEF Attr

\* A step that takes nothing precious away keeps what is precious.
Untaken(p) ==
  \/ fs'[p].type = fs[p].type
  \/ fs[p].type \notin {"directory", "special"}
  \/ found[p].type \notin {"directory", "special"}
  \/ /\ found[p].type = "directory"
     /\ \E i \in DOMAIN upds : PathOf(upds[i]) = p /\ upds[i].should.attrs["force"] = "true"

LEMMA PreciousKept ==
  ASSUME NothingPreciousLost, UNCHANGED <<upds, found>>, \A p \in Path : Untaken(p)
  PROVE  NothingPreciousLost'
BY DEF NothingPreciousLost, Untaken, PathOf

LEMMA PreciousSame ==
  ASSUME NothingPreciousLost, UNCHANGED <<fs, upds, found>>
  PROVE  NothingPreciousLost'
BY DEF NothingPreciousLost, PathOf

LEMMA InitIndInv == Init => IndInv
<1> SUFFICES ASSUME Init PROVE IndInv
  OBVIOUS
<1>1. DiskOK
  BY DEF Init, DiskOK, FileSystem
<1>2. BatchOK
  <2>1. <<>> \in Seq(UpdatesOf(found)) /\ 1 \in 1..(Len(<<>>) + 1)
    OBVIOUS
  <2> QED BY <2>1 DEF Init, BatchOK
<1>3. NotesOK
  <2>1. <<>> \in Seq(Noted)
    OBVIOUS
  <2> QED BY <2>1 DEF Init, NotesOK
<1>4. StageOK
  BY DEF Init, StageOK, Working
<1>5. NothingPreciousLost
  BY DEF Init, NothingPreciousLost
<1> QED BY <1>1, <1>2, <1>3, <1>4, <1>5 DEF IndInv

-----------------------------------------------------------------------------
(* Each action keeps it. *)

LEMMA CallStep ==
  ASSUME IndInv, NEW shoulds \in Calls, Call(shoulds)
  PROVE  IndInv'
<1>1. DiskOK' /\ NothingPreciousLost'
  BY DEF Call, IndInv, DiskOK, FileSystem, NothingPreciousLost
<1>2. NotesOK'
  <2>1. <<>> \in Seq(Noted)
    OBVIOUS
  <2> QED BY <2>1 DEF Call, NotesOK
<1>3. CASE upds' = <<>> /\ pc' = "returned" /\ outcome' \in {"refused", "exception"}
  <2>1. <<>> \in Seq(UpdatesOf(found')) /\ 1 \in 1..(Len(<<>>) + 1)
    OBVIOUS
  <2>2. BatchOK'
    BY <1>3, <2>1 DEF Call, BatchOK
  <2>3. StageOK'
    BY <1>3 DEF StageOK, Working
  <2> QED BY <1>1, <1>2, <2>2, <2>3 DEF IndInv
<1>4. CASE /\ upds' = Pair(shoulds, [i \in DOMAIN shoulds |-> Load(fs, Absolute(shoulds[i].name))], Attr)
           /\ pc' = "begin" /\ outcome' = "none"
  <2>1. shoulds \in Seq(FileShould)
    BY FileAssumption
  <2>2. upds' \in Seq(UpdatesOf(found'))
    BY <1>4, <2>1, CallType DEF Call, IndInv, DiskOK
  <2>3. 1 \in 1..(Len(upds') + 1)
    BY <2>2
  <2>4. BatchOK'
    BY <2>2, <2>3 DEF Call, BatchOK
  <2>5. StageOK'
    BY <1>4 DEF StageOK, Working, Succeeded
  <2> QED BY <1>1, <1>2, <2>4, <2>5 DEF IndInv
<1> DEFINE paths == [i \in DOMAIN shoulds |-> Absolute(shoulds[i].name)]
<1>5. DOMAIN paths = DOMAIN shoulds /\ \A i \in DOMAIN paths : paths[i] = Absolute(shoulds[i].name)
  OBVIOUS
<1>6. [i \in DOMAIN paths |-> Load(fs, paths[i])]
        = [i \in DOMAIN shoulds |-> Load(fs, Absolute(shoulds[i].name))]
  OBVIOUS
<1> QED BY <1>3, <1>4, <1>6 DEF Call, Give

LEMMA ReleaseStep ==
  ASSUME IndInv, Release
  PROVE  IndInv'
<1>1. DiskOK' /\ NothingPreciousLost'
  BY DEF Release, IndInv, DiskOK, FileSystem, NothingPreciousLost
<1>2. NotesOK'
  <2>1. <<>> \in Seq(Noted)
    OBVIOUS
  <2> QED BY <2>1 DEF Release, NotesOK
<1>3. BatchOK'
  <2>1. <<>> \in Seq(UpdatesOf(found')) /\ 1 \in 1..(Len(<<>>) + 1)
    OBVIOUS
  <2> QED BY <2>1 DEF Release, BatchOK
<1>4. StageOK'
  BY DEF Release, StageOK, Working
<1> QED BY <1>1, <1>2, <1>3, <1>4 DEF IndInv

\* A step of a call changes neither its batch nor what its lookup found.
LEMMA BatchSame ==
  ASSUME DiskOK, BatchOK, UNCHANGED <<upds, found, next>>
  PROVE  BatchOK'
BY DEF BatchOK, UpdatesOf

LEMMA BeginStep ==
  ASSUME IndInv, Begin
  PROVE  IndInv'
<1> DEFINE u == upds[next]
<1>1. /\ DiskOK /\ BatchOK /\ NotesOK /\ StageOK /\ NothingPreciousLost /\ next \in DOMAIN upds
      /\ UNCHANGED <<fs, upds, next, found>>
  BY DEF IndInv, Begin, Updating
<1>2. u \in UpdatesOf(found) /\ UpdateName(u) \in Name /\ found \in FileSystem
  BY <1>1, InHand DEF DiskOK
<1>3. DiskOK' /\ BatchOK' /\ NothingPreciousLost'
  BY <1>1, BatchSame, PreciousSame DEF DiskOK
<1>4. Recorded(u) \in Seq(Noted)
  BY <1>1, <1>2 DEF NotesOK, Recorded
<1>5. Append(Recorded(u), Change("ensure", EnsureOf(u), StateOf(u))) \in Seq(Noted)
  BY <1>2, <1>4, DiffType
<1>6. NotesOK'
  <2>1. CASE UNCHANGED chgs
    BY <1>1, <2>1 DEF NotesOK
  <2>2. CASE ~ UNCHANGED chgs
    <3>1. PICK c \in Seq(Noted) : Record(u, c)
      BY <1>4, <1>5, <2>2 DEF Begin
    <3> QED BY <1>1, <1>2, <3>1 DEF NotesOK, Record
  <2> QED BY <2>1, <2>2
<1>7. StageOK'
  <2>1. /\ Fits(u, Dispatch(u, StateOf(u))) /\ Dispatch(u, StateOf(u)) \in Working
        /\ EnsureOf(u) # StateOf(u) /\ StateOf(u) # "absent" /\ ~ Refused(u) => Fits(u, "remove")
    BY <1>2, DispatchFits DEF Fits
  <2>2. u' = u /\ next' \in DOMAIN upds' /\ upds'[next'] = u
    BY <1>1
  <2>3. \/ pc' = "returned" /\ outcome' = "refused"
        \/ outcome' = outcome /\ pc' \in Working /\ Fits(u, pc')
    BY <2>1 DEF Begin, Give, Working
  <2> HIDE DEF u
  <2> QED BY <1>1, <2>2, <2>3 DEF StageOK, Working, Succeeded
<1> QED BY <1>3, <1>6, <1>7 DEF IndInv

LEMMA RemoveOldStep ==
  ASSUME IndInv, RemoveOld
  PROVE  IndInv'
<1> DEFINE u == upds[next]
           q == PathOf(u)
<1>1. /\ DiskOK /\ BatchOK /\ NotesOK /\ StageOK /\ NothingPreciousLost /\ next \in DOMAIN upds
      /\ UNCHANGED <<upds, next, found>> /\ pc = "remove"
  BY DEF IndInv, RemoveOld, Updating
<1>2. u \in UpdatesOf(found) /\ UpdateName(u) \in Name /\ q \in Path /\ found \in FileSystem
  BY <1>1, InHand DEF DiskOK
<1>3. EnsureOf(u) # StateOf(u) /\ StateOf(u) # "absent" /\ ~ Refused(u)
  BY <1>1 DEF StageOK, Fits, Working
<1>4. CASE StateOf(u) = "special"
  <2>1. pc' = "returned" /\ outcome' = "refused" /\ UNCHANGED <<fs, chgs>>
    BY <1>4 DEF RemoveOld, Give
  <2>2. DiskOK' /\ BatchOK' /\ NothingPreciousLost' /\ NotesOK'
    BY <1>1, <2>1, BatchSame, PreciousSame DEF DiskOK, NotesOK
  <2>3. StageOK'
    BY <2>1 DEF StageOK, Working, Succeeded
  <2> QED BY <2>2, <2>3 DEF IndInv
<1>5. CASE StateOf(u) # "special"
  <2>1. /\ fs' = [fs EXCEPT ![q] = NoEntry]
        /\ Record(u, Append(Recorded(u), Change("ensure", EnsureOf(u), "absent")))
        /\ pc' = Dispatch(u, "absent") /\ outcome' = outcome
    BY <1>5 DEF RemoveOld
  <2>2. DiskOK'
    BY <1>1, <2>1, EntriesMade DEF DiskOK, FileSystem
  <2>3. NotesOK'
    <3>1. Append(Recorded(u), Change("ensure", EnsureOf(u), "absent")) \in Seq(Noted)
      BY <1>1, <1>2, DiffType DEF NotesOK, Recorded
    <3> QED BY <1>1, <1>2, <2>1, <3>1 DEF NotesOK, Record
  <2>4. StageOK'
    <3>1. Fits(u, pc') /\ pc' \in Working /\ next' \in DOMAIN upds' /\ upds'[next'] = u
      BY <1>1, <1>2, <1>3, <2>1, DispatchFits
    <3> HIDE DEF u
    <3> QED BY <1>1, <2>1, <3>1 DEF StageOK, Working, Succeeded
  <2>5. \A p \in Path : Untaken(p)
    <3> TAKE p \in Path
    <3>1. CASE p # q
      BY <1>1, <2>1, <3>1 DEF Untaken, DiskOK, FileSystem
    <3>2. CASE p = q
      <4>1. StateOf(u) = found[q].type
        BY <1>2, <1>3, UpdateFacts
      <4>2. CASE StateOf(u) = "directory"
        <5>1. u.should.attrs["force"] = "true"
          BY <1>3, <4>2 DEF Refused, Forced
        <5> QED BY <1>1, <3>2, <4>1, <4>2, <5>1 DEF Untaken
      <4>3. CASE StateOf(u) # "directory"
        BY <1>5, <3>2, <4>1, <4>3 DEF Untaken
      <4> QED BY <4>2, <4>3
    <3> QED BY <3>1, <3>2
  <2>6. BatchOK' /\ NothingPreciousLost'
    BY <1>1, <2>5, BatchSame, PreciousKept
  <2> QED BY <2>2, <2>3, <2>4, <2>6 DEF IndInv
<1> QED BY <1>4, <1>5

\* A step that gives one path another entry, of the same type or in the place
\* of one that is not precious.
LEMMA OneEntry ==
  ASSUME IndInv, UNCHANGED <<upds, next, found>>, NEW q \in Path, NEW e \in Entries,
         fs' = [fs EXCEPT ![q] = e],
         \/ e.type = fs[q].type
         \/ fs[q].type \notin {"directory", "special"}
         \/ found[q].type \notin {"directory", "special"}
  PROVE  DiskOK' /\ BatchOK' /\ NothingPreciousLost'
<1>1. DiskOK /\ BatchOK /\ NothingPreciousLost
  BY DEF IndInv
<1>2. DiskOK' /\ BatchOK'
  BY <1>1, BatchSame DEF DiskOK, FileSystem
<1>3. \A p \in Path : Untaken(p)
  BY <1>1 DEF Untaken, DiskOK, FileSystem
<1> QED BY <1>1, <1>2, <1>3, PreciousKept

\* A step that leaves the files and the notes alone.
LEMMA NothingDone ==
  ASSUME IndInv, UNCHANGED <<fs, upds, next, found, chgs>>
  PROVE  DiskOK' /\ BatchOK' /\ NothingPreciousLost' /\ NotesOK'
BY BatchSame, PreciousSame DEF IndInv, DiskOK, NotesOK

\* A step to another stage of the same update, or the end of the call.
LEMMA StageReached ==
  ASSUME StageOK, next \in DOMAIN upds, UNCHANGED <<upds, next, found>>,
         \/ pc' \in Working /\ Fits(upds[next], pc') /\ UNCHANGED outcome
         \/ pc' = "returned" /\ outcome' \in {"refused", "internal", "failed"}
  PROVE  StageOK'
<1> DEFINE u == upds[next]
<1>1. next' \in DOMAIN upds' /\ upds'[next'] = u
  OBVIOUS
<1> HIDE DEF u
<1>2. CASE pc' \in Working /\ Fits(u, pc') /\ UNCHANGED outcome
  BY <1>1, <1>2 DEF StageOK, Working, Succeeded
<1>3. CASE pc' = "returned" /\ outcome' \in {"refused", "internal", "failed"}
  BY <1>3 DEF StageOK, Working, Succeeded
<1> QED BY <1>2, <1>3 DEF u

LEMMA CreateFileStep ==
  ASSUME IndInv, CreateFile
  PROVE  IndInv'
<1> DEFINE u == upds[next]
           q == Deref(fs, PathOf(u))
           e == CASE fs[q].type = "absent" -> Dirent("file", DefaultBits, Me, Empty, None)
                  [] fs[q].type = "file" -> [fs[q] EXCEPT !.content = Empty]
                  [] OTHER -> fs[q]
<1>1. /\ DiskOK /\ BatchOK /\ NotesOK /\ StageOK /\ next \in DOMAIN upds
      /\ UNCHANGED <<upds, next, found, chgs, outcome>> /\ pc = "create" /\ pc' = "owner"
      /\ Reached(fs, PathOf(u)) \in {"absent", "file", "special"}
      /\ fs' = [fs EXCEPT ![q] = e]
  BY DEF IndInv, CreateFile, Updating
<1>2. PathOf(u) \in Path /\ fs \in FileSystem
  BY <1>1, InHand DEF DiskOK
<1>3. q \in Path /\ fs[q].type \in {"absent", "file", "special"}
  BY <1>1, <1>2, ReachedFacts
<1>4. fs[q] \in Entries
  BY <1>2, <1>3 DEF FileSystem
<1>5. e \in Entries /\ (fs[q].type = "special" => e = fs[q])
  BY <1>3, <1>4, EntriesMade, FileAssumption
<1> HIDE DEF e, q
<1>6. DiskOK' /\ BatchOK' /\ NothingPreciousLost'
  BY <1>1, <1>3, <1>5, OneEntry
<1>7. StageOK'
  BY <1>1, StageReached DEF StageOK, Fits, Working
<1> QED BY <1>1, <1>6, <1>7 DEF IndInv, NotesOK

LEMMA CreateDirectoryStep ==
  ASSUME IndInv, CreateDirectory
  PROVE  IndInv'
<1> DEFINE u == upds[next]
           q == PathOf(u)
<1>1. /\ DiskOK /\ BatchOK /\ NotesOK /\ StageOK /\ next \in DOMAIN upds
      /\ UNCHANGED <<upds, next, found, chgs, outcome>> /\ pc = "mkdir" /\ pc' = "owner"
      /\ \/ fs[q].type # "absent" /\ fs' = fs
         \/ fs[q].type = "absent"
            /\ fs' = [fs EXCEPT ![q] = Dirent("directory", DefaultBits, Me, None, None)]
  BY DEF IndInv, CreateDirectory, Updating
<1>2. q \in Path
  BY <1>1, InHand
<1>3. DiskOK' /\ BatchOK' /\ NothingPreciousLost'
  BY <1>1, <1>2, EntriesMade, OneEntry, NothingDone
<1>4. StageOK'
  BY <1>1, StageReached DEF StageOK, Fits, Working
<1> QED BY <1>1, <1>3, <1>4 DEF IndInv, NotesOK

LEMMA UpdateTargetStep ==
  ASSUME IndInv, UpdateTarget
  PROVE  IndInv'
<1> DEFINE u == upds[next]
           q == PathOf(u)
           was == Lookup(u.is, "ensure", "absent")
<1>1. /\ DiskOK /\ BatchOK /\ NotesOK /\ StageOK /\ next \in DOMAIN upds
      /\ UNCHANGED <<upds, next, found, chgs>> /\ pc = "target"
  BY DEF IndInv, UpdateTarget, Updating
<1>2. q \in Path /\ u \in UpdatesOf(found) /\ found \in FileSystem
  BY <1>1, InHand DEF DiskOK
<1>3. CASE pc' = "returned" /\ outcome' = "refused" /\ UNCHANGED fs
  <2>1. DiskOK' /\ BatchOK' /\ NothingPreciousLost' /\ NotesOK'
    BY <1>1, <1>3, NothingDone
  <2>2. StageOK'
    BY <1>1, <1>3, StageReached
  <2> QED BY <2>1, <2>2 DEF IndInv
<1>4. CASE /\ u.should.attrs["target"] # None /\ was \notin {"directory", "present"}
           /\ fs' = IF was = "absent" THEN fs ELSE [fs EXCEPT ![q] = NoEntry]
           /\ pc' = "symlink" /\ UNCHANGED outcome
  <2>1. was # "absent" => found[q].type \notin {"directory", "special"}
    BY <1>2, <1>4, UpdateFacts
  <2>2. DiskOK' /\ BatchOK' /\ NothingPreciousLost'
    <3>1. CASE fs' = fs
      BY <1>1, <3>1, NothingDone
    <3>2. CASE was # "absent"
      BY <1>1, <1>2, <1>4, <2>1, <3>2, EntriesMade, OneEntry
    <3> QED BY <1>4, <3>1, <3>2
  <2>3. StageOK'
    BY <1>1, <1>4, StageReached DEF StageOK, Fits, Working
  <2> QED BY <1>1, <2>2, <2>3 DEF IndInv, NotesOK
<1> QED BY <1>3, <1>4 DEF UpdateTarget, Give

LEMMA SymlinkStep ==
  ASSUME IndInv, Symlink
  PROVE  IndInv'
<1> DEFINE u == upds[next]
           q == PathOf(u)
           e == Dirent("link", LinkBits, Me, None, u.should.attrs["target"])
<1>1. /\ DiskOK /\ BatchOK /\ NotesOK /\ StageOK /\ next \in DOMAIN upds
      /\ UNCHANGED <<upds, next, found, outcome>> /\ pc = "symlink" /\ pc' = "owner"
      /\ fs[q].type = "absent" /\ fs' = [fs EXCEPT ![q] = e]
      /\ Record(u, AddDiff(Recorded(u), "target", u))
  BY DEF IndInv, Symlink, Updating
<1>2. q \in Path /\ UpdateName(u) \in Name /\ u \in UpdatesOf(found) /\ found \in FileSystem
  BY <1>1, InHand DEF DiskOK
<1>3. Fits(u, "symlink") /\ "symlink" \in Working
  BY <1>1 DEF StageOK, Working
<1>4. u.should.attrs["target"] \in Path
  BY <1>2, <1>3, UpdateFacts, ShouldFacts DEF Fits
<1>5. e \in Entries
  BY <1>4, EntriesMade
<1> HIDE DEF e
<1>6. DiskOK' /\ BatchOK' /\ NothingPreciousLost'
  BY <1>1, <1>2, <1>5, OneEntry
<1>7. StageOK'
  BY <1>1, <1>3, StageReached DEF Fits, Working
<1>8. NotesOK'
  <2>1. AddDiff(Recorded(u), "target", u) \in Seq(Noted)
    BY <1>1, <1>2, DiffType DEF NotesOK, Recorded
  <2> QED BY <1>1, <1>2, <2>1 DEF NotesOK, Record
<1> QED BY <1>6, <1>7, <1>8 DEF IndInv

LEMMA UpdateOwnerStep ==
  ASSUME IndInv, UpdateOwner
  PROVE  IndInv'
<1> DEFINE u == upds[next]
           q == PathOf(u)
           o == u.should.attrs["owner"]
           c == AddMetadata(Recorded(u), u)
<1>1. /\ DiskOK /\ BatchOK /\ NotesOK /\ StageOK /\ next \in DOMAIN upds
      /\ UNCHANGED <<upds, next, found>> /\ pc = "owner" /\ Record(u, c)
  BY DEF IndInv, UpdateOwner, Updating
<1>2. /\ q \in Path /\ UpdateName(u) \in Name /\ u \in UpdatesOf(found) /\ found \in FileSystem
      /\ fs[q] \in Entries
  BY <1>1, InHand DEF DiskOK
<1>3. NotesOK'
  <2>1. c \in Seq(Noted)
    BY <1>1, <1>2, DiffType DEF NotesOK, Recorded
  <2> HIDE DEF c
  <2> QED BY <1>1, <1>2, <2>1 DEF NotesOK, Record
<1>4. u.should \in FileShould
  BY <1>2, UpdateFacts
<1>5. o \in {None} \cup Owner \cup OwnerName
  BY <1>4, ShouldFacts
<1>6. /\ UNCHANGED fs \/ (o \in Owner /\ fs[q].type # "absent" /\ fs' = [fs EXCEPT ![q].owner = o])
      /\ \/ pc' = "mode" /\ UNCHANGED outcome
         \/ pc' = "returned" /\ outcome' = "refused"
  BY <1>5 DEF UpdateOwner, Give
<1>7. StageOK'
  BY <1>1, <1>6, StageReached DEF StageOK, Fits, Working
<1>8. DiskOK' /\ BatchOK' /\ NothingPreciousLost'
  <2>1. CASE UNCHANGED fs
    BY <1>1, <2>1, BatchSame, PreciousSame DEF DiskOK, IndInv
  <2>2. CASE o \in Owner /\ fs[q].type # "absent" /\ fs' = [fs EXCEPT ![q].owner = o]
    <3> DEFINE e == [fs[q] EXCEPT !.owner = o]
    <3>1. e \in Entries /\ e.type = fs[q].type /\ fs' = [fs EXCEPT ![q] = e]
      BY <1>2, <2>2, EntriesMade
    <3> HIDE DEF e
    <3> QED BY <1>1, <1>2, <3>1, OneEntry
  <2> QED BY <1>6, <2>1, <2>2
<1> QED BY <1>3, <1>7, <1>8 DEF IndInv

LEMMA UpdateModeStep ==
  ASSUME IndInv, UpdateMode
  PROVE  IndInv'
<1> DEFINE u == upds[next]
           q == Deref(fs, PathOf(u))
           m == u.should.attrs["mode"]
           after == IF EnsureOf(u) = "file" THEN "content" ELSE "done"
<1>1. /\ DiskOK /\ BatchOK /\ NotesOK /\ StageOK /\ next \in DOMAIN upds
      /\ UNCHANGED <<upds, next, found, chgs>> /\ pc = "mode"
  BY DEF IndInv, UpdateMode, Updating
<1>2. /\ PathOf(u) \in Path /\ u \in UpdatesOf(found) /\ found \in FileSystem /\ fs \in FileSystem
  BY <1>1, InHand DEF DiskOK
<1>3. after \in Working /\ Fits(u, after)
  BY <1>1 DEF StageOK, Fits, Working, Makeable
<1>4. /\ \/ UNCHANGED fs
         \/ /\ m # None /\ m.bits # None /\ Reached(fs, PathOf(u)) \notin {"absent", "loop"}
            /\ fs' = [fs EXCEPT ![q].bits = m.bits]
      /\ \/ pc' = after /\ UNCHANGED outcome
         \/ pc' = "returned" /\ outcome' \in {"refused", "internal"}
  BY DEF UpdateMode, Give
<1>5. StageOK'
  BY <1>1, <1>3, <1>4, StageReached
<1>6. DiskOK' /\ BatchOK' /\ NothingPreciousLost'
  <2>1. CASE UNCHANGED fs
    BY <1>1, <2>1, BatchSame, PreciousSame DEF DiskOK, IndInv
  <2>2. CASE /\ m # None /\ m.bits # None /\ Reached(fs, PathOf(u)) \notin {"absent", "loop"}
             /\ fs' = [fs EXCEPT ![q].bits = m.bits]
    <3> DEFINE e == [fs[q] EXCEPT !.bits = m.bits]
    <3>1. m.bits \in Bits
      <4>1. u.should \in FileShould
        BY <1>2, UpdateFacts
      <4>2. m \in {None, BadMode} \/ \E b \in Bits, pd \in BOOLEAN : m = ModeString(b, pd)
        BY <4>1, ShouldFacts
      <4> HIDE DEF m
      <4> QED BY <2>2, <4>2 DEF BadMode, ModeString
    <3>2. q \in Path /\ fs[q].type \in {"file", "directory", "special"}
      BY <1>2, <2>2, ReachedFacts
    <3>3. fs[q] \in Entries
      BY <1>2, <3>2 DEF FileSystem
    <3>4. e \in Entries /\ e.type = fs[q].type /\ fs' = [fs EXCEPT ![q] = e]
      BY <2>2, <3>1, <3>2, <3>3, EntriesMade
    <3> HIDE DEF e, q
    <3> QED BY <1>1, <3>2, <3>4, OneEntry
  <2> QED BY <1>4, <2>1, <2>2
<1> QED BY <1>1, <1>5, <1>6 DEF IndInv, NotesOK

\* The content of the file that is compared with the one wanted.
ContentAt(f, p) == IF Reached(f, p) = "file" THEN f[Deref(f, p)].content ELSE Empty

LEMMA ContentFacts ==
  ASSUME NEW f \in FileSystem, NEW p \in Path
  PROVE  ContentAt(f, p) \in Content
<1>1. CASE Reached(f, p) = "file"
  <2>1. Deref(f, p) \in Path /\ f[Deref(f, p)].type = "file"
    BY <1>1, ReachedFacts
  <2>2. f[Deref(f, p)] \in Entries
    BY <2>1 DEF FileSystem
  <2> QED BY <1>1, <2>1, <2>2, EntryFacts DEF ContentAt
<1>2. CASE Reached(f, p) # "file"
  BY <1>2, FileAssumption DEF ContentAt
<1> QED BY <1>1, <1>2

LEMMA UpdateContentStep ==
  ASSUME IndInv, UpdateContent
  PROVE  IndInv'
<1> DEFINE u == upds[next]
           p == PathOf(u)
           q == Deref(fs, p)
           want == u.should.attrs["content"]
<1>1. /\ DiskOK /\ BatchOK /\ NotesOK /\ StageOK /\ next \in DOMAIN upds
      /\ UNCHANGED <<upds, next, found, outcome>> /\ pc = "content" /\ pc' = "done"
  BY DEF IndInv, UpdateContent, Updating
<1>2. /\ p \in Path /\ u \in UpdatesOf(found) /\ found \in FileSystem /\ fs \in FileSystem
      /\ UpdateName(u) \in Name
  BY <1>1, InHand DEF DiskOK
<1>3. StageOK'
  BY <1>1, StageReached DEF StageOK, Fits, Working, Makeable
<1>4. CASE UNCHANGED <<fs, chgs>>
  BY <1>1, <1>3, <1>4, NothingDone DEF IndInv
<1>5. CASE /\ want # None /\ Reached(fs, p) \in {"file", "special"}
           /\ fs' = [fs EXCEPT ![q].content = IF Reached(fs, p) = "file" THEN want ELSE @]
           /\ Record(u, Append(Recorded(u), Change("content", want, ContentAt(fs, p))))
  <2>1. u.should \in FileShould
    BY <1>2, UpdateFacts
  <2>2. want \in Content
    BY <1>5, <2>1, ShouldFacts
  <2>3. q \in Path /\ fs[q].type = Reached(fs, p)
    BY <1>2, <1>5, ReachedFacts
  <2>4. fs[q] \in Entries
    BY <1>2, <2>3 DEF FileSystem
  <2> DEFINE e == [fs[q] EXCEPT !.content = IF Reached(fs, p) = "file" THEN want ELSE fs[q].content]
  <2>5. e \in Entries /\ e.type = fs[q].type
    <3>1. CASE Reached(fs, p) = "file"
      BY <2>2, <2>3, <2>4, <3>1, EntriesMade
    <3>2. CASE Reached(fs, p) # "file"
      <4>1. PICK k, b, o, c, t : fs[q] = Dirent(k, b, o, c, t)
        BY <2>4 DEF Entries, NoEntry
      <4>2. [fs[q] EXCEPT !.content = fs[q].content] = fs[q]
        BY <4>1 DEF Dirent
      <4> QED BY <2>4, <3>2, <4>2
    <3> QED BY <3>1, <3>2
  <2>6. fs' = [fs EXCEPT ![q] = e]
    BY <1>5
  <2> HIDE DEF e, q
  <2>7. DiskOK' /\ BatchOK' /\ NothingPreciousLost'
    BY <1>1, <2>3, <2>5, <2>6, OneEntry
  <2>8. NotesOK'
    <3>1. Append(Recorded(u), Change("content", want, ContentAt(fs, p))) \in Seq(Noted)
      BY <1>1, <1>2, <2>2, ContentFacts, DiffType DEF NotesOK, Recorded
    <3> QED BY <1>1, <1>2, <1>5, <3>1 DEF NotesOK, Record
  <2> QED BY <1>3, <2>7, <2>8 DEF IndInv
<1> QED BY <1>4, <1>5 DEF UpdateContent, ContentAt

LEMMA IllegalEnsureStep ==
  ASSUME IndInv, IllegalEnsure
  PROVE  IndInv'
<1>1. /\ UNCHANGED <<fs, upds, next, chgs, found>> /\ pc' = "returned" /\ outcome' = "refused"
      /\ StageOK /\ next \in DOMAIN upds
  BY DEF IndInv, IllegalEnsure, Updating, Give
<1> QED BY <1>1, NothingDone, StageReached DEF IndInv

LEMMA SystemCallFailsStep ==
  ASSUME IndInv, SystemCallFails
  PROVE  IndInv'
<1> DEFINE u == upds[next]
           c == AddMetadata(Recorded(u), u)
<1>1. /\ DiskOK /\ BatchOK /\ NotesOK /\ StageOK /\ NothingPreciousLost
      /\ UNCHANGED <<fs, upds, next, found>> /\ pc' = "returned" /\ outcome' = "failed"
      /\ pc \in Working
      /\ UNCHANGED chgs \/ Record(u, c)
  BY DEF IndInv, SystemCallFails, Give, Working
<1>2. next \in DOMAIN upds
  BY <1>1 DEF StageOK
<1>3. StageOK'
  BY <1>1, <1>2, StageReached
<1>4. NotesOK'
  <2>1. CASE UNCHANGED chgs
    BY <1>1, <2>1 DEF NotesOK
  <2>2. CASE Record(u, c)
    <3>1. u \in UpdatesOf(found) /\ UpdateName(u) \in Name /\ found \in FileSystem
      BY <1>1, <1>2, InHand DEF DiskOK
    <3>2. c \in Seq(Noted)
      BY <1>1, <3>1, DiffType DEF NotesOK, Recorded
    <3> HIDE DEF c
    <3> QED BY <1>1, <2>2, <3>1, <3>2 DEF NotesOK, Record
  <2> QED BY <1>1, <2>1, <2>2
<1>5. DiskOK' /\ BatchOK' /\ NothingPreciousLost'
  BY <1>1, BatchSame, PreciousSame DEF DiskOK
<1> QED BY <1>3, <1>4, <1>5 DEF IndInv

LEMMA UpdateDoneStep ==
  ASSUME IndInv, UpdateDone
  PROVE  IndInv'
<1>1. /\ DiskOK /\ BatchOK /\ NotesOK /\ StageOK /\ NothingPreciousLost
      /\ UNCHANGED <<fs, upds, chgs, outcome, found>> /\ next' = next + 1 /\ pc' = "begin"
      /\ next \in DOMAIN upds
  BY DEF IndInv, UpdateDone, Updating
<1>2. DiskOK' /\ NothingPreciousLost' /\ NotesOK'
  BY <1>1, PreciousSame DEF DiskOK, NotesOK
<1>3. BatchOK'
  <2> DEFINE U == UpdatesOf(found)
  <2>1. upds \in Seq(U) /\ UpdatesOf(found') = U
    BY <1>1 DEF BatchOK
  <2> HIDE DEF U
  <2>2. next + 1 \in 1..(Len(upds) + 1)
    BY <1>1, <2>1
  <2> QED BY <1>1, <2>1, <2>2 DEF BatchOK
<1>4. StageOK'
  BY <1>1 DEF StageOK, Working, Succeeded
<1> QED BY <1>2, <1>3, <1>4 DEF IndInv

LEMMA FinishStep ==
  ASSUME IndInv, Finish
  PROVE  IndInv'
<1>1. /\ UNCHANGED <<fs, upds, next, chgs, found>> /\ pc' = "returned" /\ outcome' = "ok"
      /\ next \notin DOMAIN upds
  BY DEF Finish, Give
<1>2. StageOK'
  BY <1>1 DEF StageOK, Working, Succeeded
<1> QED BY <1>1, <1>2, NothingDone DEF IndInv

LEMMA NextIndInv == IndInv /\ [Next]_vars => IndInv'
<1> SUFFICES ASSUME IndInv, [Next]_vars PROVE IndInv'
  OBVIOUS
<1>1. CASE Begin
  BY <1>1, BeginStep
<1>2. CASE RemoveOld
  BY <1>2, RemoveOldStep
<1>3. CASE CreateFile
  BY <1>3, CreateFileStep
<1>4. CASE CreateDirectory
  BY <1>4, CreateDirectoryStep
<1>5. CASE UpdateTarget
  BY <1>5, UpdateTargetStep
<1>6. CASE Symlink
  BY <1>6, SymlinkStep
<1>7. CASE UpdateOwner
  BY <1>7, UpdateOwnerStep
<1>8. CASE UpdateMode
  BY <1>8, UpdateModeStep
<1>9. CASE UpdateContent
  BY <1>9, UpdateContentStep
<1>10. CASE IllegalEnsure
  BY <1>10, IllegalEnsureStep
<1>11. CASE SystemCallFails
  BY <1>11, SystemCallFailsStep
<1>12. CASE UpdateDone
  BY <1>12, UpdateDoneStep
<1>13. CASE Finish
  BY <1>13, FinishStep
<1>14. CASE Release
  BY <1>14, ReleaseStep
<1>15. CASE \E shoulds \in Calls : Call(shoulds)
  BY <1>15, CallStep
<1>16. CASE UNCHANGED vars
  <2>1. StageOK'
    BY <1>16 DEF vars, IndInv, StageOK, Succeeded
  <2> QED BY <1>16, <2>1, NothingDone DEF vars, IndInv
<1> QED BY <1>1, <1>2, <1>3, <1>4, <1>5, <1>6, <1>7, <1>8, <1>9, <1>10, <1>11, <1>12, <1>13,
           <1>14, <1>15, <1>16 DEF Next, FileStep

\* The inductive invariant holds in every state the provider can be in.
THEOREM IndInvHolds == Spec => []IndInv
<1>1. Init => IndInv
  BY InitIndInv
<1>2. IndInv /\ [Next]_vars => IndInv'
  BY NextIndInv
<1> QED BY <1>1, <1>2, PTL DEF Spec

\* The variables have their types, for all paths and batches.
THEOREM TypeCorrect == Spec => []TypeOK
<1>1. IndInv => TypeOK
  <2> SUFFICES ASSUME IndInv PROVE TypeOK
    OBVIOUS
  <2>1. DiskOK /\ BatchOK /\ NotesOK /\ StageOK
    BY DEF IndInv
  <2>2. \A i \in DOMAIN upds : upds[i].should \in FileShould /\ UpdateName(upds[i]) \in Name
    <3>1. \A i \in DOMAIN upds : upds[i] \in UpdatesOf(found)
      BY <2>1 DEF BatchOK
    <3> QED BY <2>1, <3>1, UpdateFacts DEF DiskOK
  <2>3. \A n \in Name : \A k \in DOMAIN chgs[n] : chgs[n][k].attr \in Attr
    <3>1. \A n \in Name : \A k \in DOMAIN chgs[n] : chgs[n][k] \in Noted
      BY <2>1 DEF NotesOK
    <3> QED BY <3>1 DEF Noted
  <2> QED BY <2>1, <2>2, <2>3 DEF TypeOK, DiskOK, BatchOK, StageOK, FileSystem, Working
<1> QED BY <1>1, IndInvHolds, PTL

\* A directory found there is lost only where some should for it has force,
\* and a device never, for every batch, in every state of the call
\* (file.cc 233-241, 251-253, 422-433).
THEOREM NothingPreciousLostHolds == Spec => []NothingPreciousLost
<1>1. IndInv => NothingPreciousLost
  BY DEF IndInv
<1> QED BY <1>1, IndInvHolds, PTL

-----------------------------------------------------------------------------
(* What becomes of one file, for the batches that Plain describes: what entry *)
(* it has and what is recorded of it at each stage of its update.             *)

\* Nothing about e differs from d, except perhaps the mode, which an earlier
\* update of the batch can have changed through a link.
Like(strict, e, d) ==
  /\ e.type = d.type /\ e.owner = d.owner /\ e.content = d.content /\ e.target = d.target
  /\ strict => e = d

\* The entry once the file has its type, then its owner, mode and content.
MadeEntry(f, u) ==
  IF EnsureOf(u) = StateOf(u) /\ EnsureOf(u) # "link" THEN f[PathOf(u)]
  ELSE IF EnsureOf(u) = "file" THEN Dirent("file", DefaultBits, Me, Empty, None)
  ELSE IF EnsureOf(u) = "directory" THEN Dirent("directory", DefaultBits, Me, None, None)
  ELSE IF EnsureOf(u) = "link" THEN Dirent("link", LinkBits, Me, None, u.should.attrs["target"])
  ELSE NoEntry

OwnedEntry(f, u) ==
  IF Changed(u, "owner") THEN [MadeEntry(f, u) EXCEPT !.owner = u.should.attrs["owner"]]
  ELSE MadeEntry(f, u)

ModedEntry(f, u) ==
  IF Changed(u, "mode") /\ EnsureOf(u) # "link"
  THEN [OwnedEntry(f, u) EXCEPT !.bits = u.should.attrs["mode"].bits]
  ELSE OwnedEntry(f, u)

FinalEntry(f, u) ==
  IF EnsureOf(u) = "absent" THEN NoEntry
  ELSE IF EnsureOf(u) = "file" /\ u.should.attrs["content"] # None
  THEN [ModedEntry(f, u) EXCEPT !.content = u.should.attrs["content"]]
  ELSE ModedEntry(f, u)

EntryAt(f, u, stage) ==
  CASE stage \in {"begin", "remove", "illegal"} -> f[PathOf(u)]
    [] stage = "target" -> IF StateOf(u) = "link" THEN f[PathOf(u)] ELSE NoEntry
    [] stage \in {"create", "mkdir", "symlink"} -> NoEntry
    [] stage = "owner" -> MadeEntry(f, u)
    [] stage = "mode" -> OwnedEntry(f, u)
    [] stage = "content" -> ModedEntry(f, u)
    [] stage = "done" -> FinalEntry(f, u)

\* What is recorded by then.
RetypedNotes(u) ==
  IF EnsureOf(u) = StateOf(u) THEN <<>> ELSE <<Change("ensure", EnsureOf(u), "absent")>>

MadeNotes(u) ==
  IF EnsureOf(u) = "link" THEN AddDiff(RetypedNotes(u), "target", u) ELSE RetypedNotes(u)

FinalNotes(f, u) ==
  IF EnsureOf(u) = "absent" THEN RetypedNotes(u)
  ELSE IF /\ EnsureOf(u) = "file" /\ u.should.attrs["content"] # None
          /\ u.should.attrs["content"] # ModedEntry(f, u).content
  THEN Append(AddMetadata(MadeNotes(u), u),
              Change("content", u.should.attrs["content"], ModedEntry(f, u).content))
  ELSE AddMetadata(MadeNotes(u), u)

NotesAt(f, u, stage) ==
  CASE stage \in {"begin", "remove"} -> <<>>
    [] stage \in {"illegal", "target", "create", "mkdir", "symlink"} -> RetypedNotes(u)
    [] stage = "owner" -> MadeNotes(u)
    [] stage \in {"mode", "content"} -> AddMetadata(MadeNotes(u), u)
    [] stage = "done" -> FinalNotes(f, u)

\* The values that have been accepted by then.
Accepted(u, stage) ==
  /\ stage \in {"mode", "content", "done"} /\ EnsureOf(u) # "absent" /\ Changed(u, "owner")
       => u.should.attrs["owner"] \in Owner
  /\ stage \in {"content", "done"} /\ EnsureOf(u) # "absent" /\ Changed(u, "mode")
       => u.should.attrs["mode"].bits \in Bits
  /\ stage = "done" => EnsureOf(u) \in Makeable

Reaches(u, stage) ==
  /\ Like(NoModeOnLinks, fs[PathOf(u)], EntryAt(found, u, stage))
  /\ chgs[PathOf(u)] = NotesAt(found, u, stage)
  /\ Accepted(u, stage)

\* The updates done, the one in hand, and the files of no update begun.
PlainInv ==
  Plain =>
    /\ \A i \in DOMAIN upds : i < next => Reaches(upds[i], "done")
    /\ next \in DOMAIN upds /\ pc # "returned" => Reaches(upds[next], pc)
    /\ \A p \in Path : (\A i \in DOMAIN upds : i <= next => UpdateName(upds[i]) # p) =>
         Like(NoModeOnLinks, fs[p], found[p]) /\ chgs[p] = <<>>
    /\ pc = "idle" => upds = <<>>

LEMMA LikeFacts ==
  /\ \A strict, e : Like(strict, e, e)
  /\ \A strict, a, b, c : Like(strict, a, b) /\ Like(strict, b, c) => Like(strict, a, c)
  /\ \A strict : \A e \in Entries : Like(strict, e, NoEntry) => e = NoEntry
<1>1. \A e \in Entries : e.type = "absent" => e = NoEntry
  BY EntryFacts
<1>2. NoEntry.type = "absent"
  BY DEF NoEntry, Dirent
<1> QED BY <1>1, <1>2 DEF Like

\* In a plain batch every update has its own file, which the lookup has found.
LEMMA PlainFacts ==
  ASSUME DiskOK, BatchOK, Plain, NEW i \in DOMAIN upds
  PROVE  /\ upds[i] \in UpdatesOf(found) /\ found \in FileSystem
         /\ PathOf(upds[i]) = UpdateName(upds[i]) /\ PathOf(upds[i]) \in Path
         /\ upds[i].is = Load(found, PathOf(upds[i]))
         /\ StateOf(upds[i]) = found[PathOf(upds[i])].type
         /\ found[PathOf(upds[i])] \in Entries /\ fs[PathOf(upds[i])] \in Entries
         /\ \A j \in DOMAIN upds : PathOf(upds[j]) = PathOf(upds[i]) => i = j
<1>1. \A j \in DOMAIN upds : upds[j] \in UpdatesOf(found) /\ UpdateName(upds[j]) \in Path
  BY DEF BatchOK, Plain
<1>2. \A j \in DOMAIN upds : PathOf(upds[j]) = UpdateName(upds[j])
  BY <1>1, UpdateFacts DEF DiskOK
<1>3. \A j \in DOMAIN upds : PathOf(upds[j]) = PathOf(upds[i]) => i = j
  BY <1>2 DEF Plain
<1> QED BY <1>1, <1>2, <1>3, UpdateFacts DEF DiskOK, FileSystem

LEMMA PlainSame ==
  ASSUME UNCHANGED upds
  PROVE  Plain' = Plain /\ NoModeOnLinks' = NoModeOnLinks
BY DEF Plain, NoModeOnLinks, ModeOnLink, UpdateName, EnsureOf, StateOf, Lookup

\* A step of the update in hand that leaves the files of the others alone, and
\* its own as the stage it comes to says.
LEMMA PlainStep ==
  ASSUME IndInv, PlainInv, pc \in Working \cup {"begin"}, next \in DOMAIN upds,
         UNCHANGED <<upds, next, found>>, pc' \in Working \cup {"returned"},
         Plain => \A p \in Path :
                    p # PathOf(upds[next]) => Like(NoModeOnLinks, fs'[p], fs[p]) /\ chgs'[p] = chgs[p],
         Plain /\ Reaches(upds[next], pc) /\ pc' # "returned" =>
           /\ Like(NoModeOnLinks, fs'[PathOf(upds[next])], EntryAt(found, upds[next], pc'))
           /\ chgs'[PathOf(upds[next])] = NotesAt(found, upds[next], pc')
           /\ Accepted(upds[next], pc')
  PROVE  PlainInv'
<1> SUFFICES ASSUME Plain PROVE PlainInv'
  BY PlainSame DEF PlainInv
<1> DEFINE s == NoModeOnLinks
           u == upds[next]
<1>1. DiskOK /\ BatchOK /\ s' = s
  BY PlainSame DEF IndInv
<1>2. DOMAIN upds = 1..Len(upds) /\ Len(upds) \in Nat /\ next \in Nat
  BY DEF IndInv, BatchOK
<1>3. pc # "returned" /\ pc # "idle" /\ pc' # "idle"
  BY DEF Working
<1>4. Reaches(u, pc)
  BY <1>3 DEF PlainInv
<1>5. \A i \in DOMAIN upds : i < next => Reaches(upds[i], "done")'
  <2> TAKE i \in DOMAIN upds
  <2> SUFFICES ASSUME i < next PROVE Reaches(upds[i], "done")'
    OBVIOUS
  <2> DEFINE v == upds[i]
  <2>1. Reaches(v, "done")
    BY DEF PlainInv
  <2>2. PathOf(v) \in Path /\ PathOf(v) # PathOf(u)
    <3>1. i # next
      BY <1>2
    <3> QED BY <1>1, <3>1, PlainFacts
  <2>3. Like(s, fs'[PathOf(v)], EntryAt(found, v, "done"))
    BY <2>1, <2>2, LikeFacts DEF Reaches
  <2>4. chgs'[PathOf(v)] = NotesAt(found, v, "done") /\ Accepted(v, "done")
    BY <2>1, <2>2 DEF Reaches
  <2>5. v' = v
    OBVIOUS
  <2> HIDE DEF v
  <2>6. Reaches(v, "done")'
    BY <1>1, <2>3, <2>4, <2>5 DEF Reaches
  <2> QED BY <2>6 DEF v
<1>6. pc' # "returned" => Reaches(u, pc)'
  <2> SUFFICES ASSUME pc' # "returned" PROVE Reaches(u, pc)'
    OBVIOUS
  <2>1. /\ Like(s, fs'[PathOf(u)], EntryAt(found, u, pc'))
        /\ chgs'[PathOf(u)] = NotesAt(found, u, pc')
        /\ Accepted(u, pc')
    BY <1>4
  <2>2. u' = u
    OBVIOUS
  <2> HIDE DEF u
  <2> QED BY <1>1, <2>1, <2>2 DEF Reaches
<1>7. \A p \in Path : (\A i \in DOMAIN upds : i <= next => UpdateName(upds[i]) # p) =>
        Like(s, fs'[p], found[p]) /\ chgs'[p] = <<>>
  <2> TAKE p \in Path
  <2> SUFFICES ASSUME \A i \in DOMAIN upds : i <= next => UpdateName(upds[i]) # p
               PROVE  Like(s, fs'[p], found[p]) /\ chgs'[p] = <<>>
    OBVIOUS
  <2>1. Like(s, fs[p], found[p]) /\ chgs[p] = <<>>
    BY DEF PlainInv
  <2>2. p # PathOf(u)
    <3>1. UpdateName(u) # p
      BY <1>2
    <3> QED BY <1>1, <3>1, PlainFacts
  <2> QED BY <2>1, <2>2, LikeFacts
<1>8. \A p \in Path : (\A i \in DOMAIN upds' : i <= next' => UpdateName(upds[i])' # p) =>
        Like(s, fs[p], found[p])' /\ chgs'[p] = <<>>
  BY <1>1, <1>7 DEF UpdateName
<1> HIDE DEF s, u
<1> QED BY <1>3, <1>5, <1>6, <1>8 DEF PlainInv, s, u

\* What is recorded under the name of the update in hand.
LEMMA RecordFacts ==
  ASSUME IndInv, Plain, next \in DOMAIN upds, NEW c, Record(upds[next], c)
  PROVE  /\ \A p \in Path : p # PathOf(upds[next]) => chgs'[p] = chgs[p]
         /\ chgs'[PathOf(upds[next])] = c
         /\ Recorded(upds[next]) = chgs[PathOf(upds[next])]
<1>1. PathOf(upds[next]) = UpdateName(upds[next]) /\ PathOf(upds[next]) \in Path
  BY PlainFacts DEF IndInv
<1>2. DOMAIN chgs = Name /\ Path \subseteq Name
  BY DEF IndInv, NotesOK, Name
<1> QED BY <1>1, <1>2 DEF Record, Recorded

\* Where the update goes on with the file as it is, the file is as that stage
\* expects it; likewise where the old file has gone.
LEMMA DispatchReaches ==
  ASSUME NEW f \in FileSystem, NEW u \in UpdatesOf(f), PathOf(u) \in Path,
         StateOf(u) = f[PathOf(u)].type
  PROVE  /\ EnsureOf(u) = StateOf(u) \/ StateOf(u) = "absent" =>
              LET stage == Dispatch(u, StateOf(u)) IN
              /\ EntryAt(f, u, stage) = f[PathOf(u)]
              /\ NotesAt(f, u, stage) = RetypedNotes(u) /\ Accepted(u, stage)
         /\ EnsureOf(u) # StateOf(u) /\ StateOf(u) # "absent" =>
              LET stage == Dispatch(u, "absent") IN
              /\ EntryAt(f, u, stage) = NoEntry
              /\ NotesAt(f, u, stage) = RetypedNotes(u) /\ Accepted(u, stage)
<1>1. EnsureOf(u) \in Kinds /\ StateOf(u) \in Kinds
  BY UpdateFacts, EnsureFacts
<1>2. EnsureOf(u) = "special" => StateOf(u) = "special"
  BY EnsureFacts, UpdateFacts, ShouldFacts DEF Makeable
<1>3. StateOf(u) = "absent" => f[PathOf(u)] = NoEntry
  BY EntryFacts DEF FileSystem
<1>4. CASE EnsureOf(u) = "file"
  BY <1>1, <1>3, <1>4 DEF Dispatch, EntryAt, NotesAt, Accepted, MadeEntry, MadeNotes, Kinds
<1>5. CASE EnsureOf(u) = "directory"
  BY <1>1, <1>3, <1>5 DEF Dispatch, EntryAt, NotesAt, Accepted, MadeEntry, MadeNotes, Kinds
<1>6. CASE EnsureOf(u) = "link"
  BY <1>1, <1>3, <1>6 DEF Dispatch, EntryAt, NotesAt, Accepted, Kinds
<1>7. CASE EnsureOf(u) = "absent"
  BY <1>1, <1>3, <1>7 DEF Dispatch, EntryAt, NotesAt, Accepted, FinalEntry, FinalNotes, Kinds, Makeable
<1>8. CASE EnsureOf(u) = "special"
  BY <1>1, <1>2, <1>3, <1>8 DEF Dispatch, EntryAt, NotesAt, Accepted, Kinds
<1> QED BY <1>1, <1>4, <1>5, <1>6, <1>7, <1>8 DEF Kinds

LEMMA BeginPlain ==
  ASSUME IndInv, PlainInv, Begin
  PROVE  PlainInv'
<1> DEFINE u == upds[next]
           q == PathOf(u)
           again == EnsureOf(u) # StateOf(u) /\ StateOf(u) # "absent"
           c == IF EnsureOf(u) = StateOf(u) THEN Recorded(u)
                ELSE Append(Recorded(u), Change("ensure", EnsureOf(u), StateOf(u)))
<1>1. /\ DiskOK /\ BatchOK /\ next \in DOMAIN upds /\ pc = "begin"
      /\ UNCHANGED <<fs, upds, next, found>>
  BY DEF IndInv, Begin, Updating
<1>2. u \in UpdatesOf(found) /\ found \in FileSystem
  BY <1>1, InHand DEF DiskOK
<1>3. \/ pc' = "returned" /\ UNCHANGED chgs
      \/ again /\ pc' = "remove" /\ UNCHANGED chgs
      \/ ~ again /\ pc' = Dispatch(u, StateOf(u)) /\ Record(u, c)
  BY DEF Begin, Give
<1>4. pc' \in Working \cup {"returned"}
  BY <1>2, <1>3, DispatchFits DEF Working
<1>5. Plain => \A p \in Path : p # q => Like(NoModeOnLinks, fs'[p], fs[p]) /\ chgs'[p] = chgs[p]
  BY <1>1, <1>3, LikeFacts, RecordFacts
<1>6. ASSUME Plain, Reaches(u, pc), pc' # "returned"
      PROVE  /\ Like(NoModeOnLinks, fs'[q], EntryAt(found, u, pc'))
             /\ chgs'[q] = NotesAt(found, u, pc') /\ Accepted(u, pc')
  <2>1. Like(NoModeOnLinks, fs'[q], found[q]) /\ chgs[q] = <<>>
    BY <1>1, <1>6 DEF Reaches, EntryAt, NotesAt
  <2>2. PathOf(u) \in Path /\ StateOf(u) = found[PathOf(u)].type
    BY <1>1, <1>6, PlainFacts
  <2>3. CASE again /\ pc' = "remove" /\ UNCHANGED chgs
    BY <2>1, <2>3 DEF EntryAt, NotesAt, Accepted
  <2>4. CASE ~ again /\ pc' = Dispatch(u, StateOf(u)) /\ Record(u, c)
    <3>1. chgs'[q] = c /\ Recorded(u) = <<>>
      BY <1>1, <1>6, <2>1, <2>4, RecordFacts
    <3>2. c = RetypedNotes(u)
      <4>1. \A x : Append(<<>>, x) = <<x>>
        OBVIOUS
      <4> QED BY <2>4, <3>1, <4>1 DEF RetypedNotes
    <3> HIDE DEF c, u
    <3>3. /\ EntryAt(found, u, pc') = found[q] /\ NotesAt(found, u, pc') = RetypedNotes(u)
          /\ Accepted(u, pc')
      BY <1>2, <2>2, <2>4, DispatchReaches
    <3> QED BY <2>1, <3>1, <3>2, <3>3
  <2> QED BY <1>3, <1>6, <2>3, <2>4
<1> QED BY <1>1, <1>4, <1>5, <1>6, PlainStep

LEMMA RemoveOldPlain ==
  ASSUME IndInv, PlainInv, RemoveOld
  PROVE  PlainInv'
<1> DEFINE u == upds[next]
           q == PathOf(u)
           c == Append(Recorded(u), Change("ensure", EnsureOf(u), "absent"))
<1>1. /\ DiskOK /\ BatchOK /\ StageOK /\ next \in DOMAIN upds /\ pc = "remove"
      /\ UNCHANGED <<upds, next, found>>
  BY DEF IndInv, RemoveOld, Updating
<1>2. u \in UpdatesOf(found) /\ found \in FileSystem /\ q \in Path
  BY <1>1, InHand DEF DiskOK
<1>3. \/ pc' = "returned" /\ UNCHANGED <<fs, chgs>>
      \/ pc' = Dispatch(u, "absent") /\ Record(u, c) /\ fs' = [fs EXCEPT ![q] = NoEntry]
  BY DEF RemoveOld, Give
<1>4. pc' \in Working \cup {"returned"}
  BY <1>2, <1>3, DispatchFits
<1>5. Plain => \A p \in Path : p # q => Like(NoModeOnLinks, fs'[p], fs[p]) /\ chgs'[p] = chgs[p]
  BY <1>1, <1>3, LikeFacts, RecordFacts DEF DiskOK, FileSystem
<1>6. ASSUME Plain, Reaches(u, pc), pc' # "returned"
      PROVE  /\ Like(NoModeOnLinks, fs'[q], EntryAt(found, u, pc'))
             /\ chgs'[q] = NotesAt(found, u, pc') /\ Accepted(u, pc')
  <2>1. chgs[q] = <<>>
    BY <1>1, <1>6 DEF Reaches, NotesAt
  <2>2. StateOf(u) = found[q].type
    BY <1>1, <1>6, PlainFacts
  <2>3. EnsureOf(u) # StateOf(u) /\ StateOf(u) # "absent"
    BY <1>1 DEF StageOK, Fits, Working
  <2>4. chgs'[q] = c /\ Recorded(u) = <<>>
    BY <1>1, <1>3, <1>6, <2>1, RecordFacts
  <2>5. c = RetypedNotes(u)
    <3>1. \A x : Append(<<>>, x) = <<x>>
      OBVIOUS
    <3> QED BY <2>3, <2>4, <3>1 DEF RetypedNotes
  <2>6. fs'[q] = NoEntry
    BY <1>1, <1>2, <1>3, <1>6 DEF DiskOK, FileSystem
  <2> HIDE DEF c, u
  <2>7. /\ EntryAt(found, u, pc') = NoEntry /\ NotesAt(found, u, pc') = RetypedNotes(u)
        /\ Accepted(u, pc')
    BY <1>2, <1>3, <1>6, <2>2, <2>3, DispatchReaches
  <2> QED BY <2>4, <2>5, <2>6, <2>7, LikeFacts
<1> QED BY <1>1, <1>4, <1>5, <1>6, PlainStep DEF Working

LEMMA CreateFilePlain ==
  ASSUME IndInv, PlainInv, CreateFile
  PROVE  PlainInv'
<1> DEFINE u == upds[next]
           q == PathOf(u)
           new == Dirent("file", DefaultBits, Me, Empty, None)
<1>1. /\ DiskOK /\ BatchOK /\ StageOK /\ next \in DOMAIN upds /\ pc = "create" /\ pc' = "owner"
      /\ UNCHANGED <<upds, next, chgs, found>>
  BY DEF IndInv, CreateFile, Updating
<1>2. q \in Path /\ fs \in FileSystem /\ fs[q] \in Entries
  BY <1>1, InHand DEF DiskOK
<1>3. EnsureOf(u) = "file" /\ EnsureOf(u) # StateOf(u)
  BY <1>1 DEF StageOK, Fits, Working
<1>4. ASSUME Plain PROVE Reaches(u, pc) /\ fs[q] = NoEntry
  <2>1. Reaches(u, pc)
    BY <1>1, <1>4 DEF PlainInv
  <2>2. EntryAt(found, u, "create") = NoEntry
    BY DEF EntryAt
  <2> QED BY <1>1, <1>2, <2>1, <2>2, LikeFacts DEF Reaches
<1>5. ASSUME Plain PROVE fs' = [fs EXCEPT ![q] = new]
  <2>1. fs[q].type = "absent" /\ Deref(fs, q) = q
    BY <1>2, <1>4, <1>5, ReachedFacts DEF NoEntry, Dirent
  <2> QED BY <2>1 DEF CreateFile
<1>6. Plain => \A p \in Path : p # q => Like(NoModeOnLinks, fs'[p], fs[p]) /\ chgs'[p] = chgs[p]
  BY <1>1, <1>2, <1>5, LikeFacts DEF FileSystem
<1>7. ASSUME Plain, Reaches(u, pc)
      PROVE  /\ Like(NoModeOnLinks, fs'[q], EntryAt(found, u, pc'))
             /\ chgs'[q] = NotesAt(found, u, pc') /\ Accepted(u, pc')
  <2>1. fs'[q] = new
    BY <1>2, <1>5, <1>7 DEF FileSystem
  <2>2. EntryAt(found, u, pc') = new
    BY <1>1, <1>3 DEF EntryAt, MadeEntry
  <2>3. NotesAt(found, u, pc') = RetypedNotes(u) /\ NotesAt(found, u, pc) = RetypedNotes(u)
    BY <1>1, <1>3 DEF NotesAt, MadeNotes
  <2>4. chgs[q] = NotesAt(found, u, pc)
    BY <1>7 DEF Reaches
  <2>5. Accepted(u, pc')
    BY <1>1 DEF Accepted
  <2> HIDE DEF u
  <2> QED BY <1>1, <2>1, <2>2, <2>3, <2>4, <2>5, LikeFacts
<1> QED BY <1>1, <1>6, <1>7, PlainStep DEF Working

LEMMA CreateDirectoryPlain ==
  ASSUME IndInv, PlainInv, CreateDirectory
  PROVE  PlainInv'
<1> DEFINE u == upds[next]
           q == PathOf(u)
           new == Dirent("directory", DefaultBits, Me, None, None)
<1>1. /\ DiskOK /\ BatchOK /\ StageOK /\ next \in DOMAIN upds /\ pc = "mkdir" /\ pc' = "owner"
      /\ UNCHANGED <<upds, next, chgs, found>>
      /\ fs' = fs \/ fs' = [fs EXCEPT ![q] = new]
      /\ fs[q].type = "absent" => fs' = [fs EXCEPT ![q] = new]
  BY DEF IndInv, CreateDirectory, Updating
<1>2. q \in Path /\ fs \in FileSystem /\ fs[q] \in Entries
  BY <1>1, InHand DEF DiskOK
<1>3. EnsureOf(u) = "directory" /\ EnsureOf(u) # StateOf(u)
  BY <1>1 DEF StageOK, Fits, Working
<1>4. ASSUME Reaches(u, pc) PROVE fs[q].type = "absent"
  <2>1. EntryAt(found, u, "mkdir") = NoEntry
    BY DEF EntryAt
  <2>2. fs[q] = NoEntry
    BY <1>1, <1>2, <1>4, <2>1, LikeFacts DEF Reaches
  <2> QED BY <2>2 DEF NoEntry, Dirent
<1>6. Plain => \A p \in Path : p # q => Like(NoModeOnLinks, fs'[p], fs[p]) /\ chgs'[p] = chgs[p]
  BY <1>1, <1>2, LikeFacts DEF FileSystem
<1>7. ASSUME Plain, Reaches(u, pc)
      PROVE  /\ Like(NoModeOnLinks, fs'[q], EntryAt(found, u, pc'))
             /\ chgs'[q] = NotesAt(found, u, pc') /\ Accepted(u, pc')
  <2>1. fs'[q] = new
    BY <1>1, <1>2, <1>4, <1>7 DEF FileSystem
  <2>2. EntryAt(found, u, pc') = new
    BY <1>1, <1>3 DEF EntryAt, MadeEntry
  <2>3. NotesAt(found, u, pc') = RetypedNotes(u) /\ NotesAt(found, u, pc) = RetypedNotes(u)
    BY <1>1, <1>3 DEF NotesAt, MadeNotes
  <2>4. chgs[q] = NotesAt(found, u, pc)
    BY <1>7 DEF Reaches
  <2>5. Accepted(u, pc')
    BY <1>1 DEF Accepted
  <2> HIDE DEF u
  <2> QED BY <1>1, <2>1, <2>2, <2>3, <2>4, <2>5, LikeFacts
<1> QED BY <1>1, <1>6, <1>7, PlainStep DEF Working

LEMMA UpdateTargetPlain ==
  ASSUME IndInv, PlainInv, UpdateTarget
  PROVE  PlainInv'
<1> DEFINE u == upds[next]
           q == PathOf(u)
           was == Lookup(u.is, "ensure", "absent")
<1>1. /\ DiskOK /\ BatchOK /\ StageOK /\ next \in DOMAIN upds /\ pc = "target"
      /\ UNCHANGED <<upds, next, chgs, found>>
  BY DEF IndInv, UpdateTarget, Updating
<1>2. /\ q \in Path /\ fs \in FileSystem /\ fs[q] \in Entries
      /\ u \in UpdatesOf(found) /\ found \in FileSystem
  BY <1>1, InHand DEF DiskOK
<1>3. \/ pc' = "returned" /\ fs' = fs
      \/ pc' = "symlink" /\ fs' = IF was = "absent" THEN fs ELSE [fs EXCEPT ![q] = NoEntry]
  BY DEF UpdateTarget, Give
<1>4. Plain => \A p \in Path : p # q => Like(NoModeOnLinks, fs'[p], fs[p]) /\ chgs'[p] = chgs[p]
  BY <1>1, <1>2, <1>3, LikeFacts DEF FileSystem
<1>5. ASSUME Plain, Reaches(u, pc), pc' # "returned"
      PROVE  /\ Like(NoModeOnLinks, fs'[q], EntryAt(found, u, pc'))
             /\ chgs'[q] = NotesAt(found, u, pc') /\ Accepted(u, pc')
  <2>1. fs'[q] = NoEntry
    <3>1. CASE was = "absent"
      <4>1. StateOf(u) = "absent"
        BY <1>2, <3>1, UpdateFacts
      <4>2. EntryAt(found, u, "target") = NoEntry
        BY <4>1 DEF EntryAt
      <4>3. fs[q] = NoEntry
        BY <1>1, <1>2, <1>5, <4>2, LikeFacts DEF Reaches
      <4> QED BY <1>3, <1>5, <3>1, <4>3
    <3>2. CASE was # "absent"
      BY <1>2, <1>3, <1>5, <3>2 DEF FileSystem
    <3> QED BY <3>1, <3>2
  <2>2. EntryAt(found, u, pc') = NoEntry /\ Accepted(u, pc')
    BY <1>3, <1>5 DEF EntryAt, Accepted
  <2>3. NotesAt(found, u, pc') = RetypedNotes(u) /\ NotesAt(found, u, pc) = RetypedNotes(u)
    BY <1>1, <1>3, <1>5 DEF NotesAt
  <2>4. chgs[q] = NotesAt(found, u, pc)
    BY <1>5 DEF Reaches
  <2> HIDE DEF u
  <2> QED BY <1>1, <2>1, <2>2, <2>3, <2>4, LikeFacts
<1> QED BY <1>1, <1>3, <1>4, <1>5, PlainStep DEF Working

LEMMA SymlinkPlain ==
  ASSUME IndInv, PlainInv, Symlink
  PROVE  PlainInv'
<1> DEFINE u == upds[next]
           q == PathOf(u)
           new == Dirent("link", LinkBits, Me, None, u.should.attrs["target"])
           c == AddDiff(Recorded(u), "target", u)
<1>1. /\ DiskOK /\ BatchOK /\ StageOK /\ next \in DOMAIN upds /\ pc = "symlink" /\ pc' = "owner"
      /\ UNCHANGED <<upds, next, found>>
      /\ fs' = [fs EXCEPT ![q] = new] /\ Record(u, c)
  BY DEF IndInv, Symlink, Updating
<1>2. q \in Path /\ fs \in FileSystem
  BY <1>1, InHand DEF DiskOK
<1>3. EnsureOf(u) = "link"
  BY <1>1 DEF StageOK, Fits, Working
<1>4. Plain => \A p \in Path : p # q => Like(NoModeOnLinks, fs'[p], fs[p]) /\ chgs'[p] = chgs[p]
  BY <1>1, <1>2, LikeFacts, RecordFacts DEF FileSystem
<1>5. ASSUME Plain, Reaches(u, pc)
      PROVE  /\ Like(NoModeOnLinks, fs'[q], EntryAt(found, u, pc'))
             /\ chgs'[q] = NotesAt(found, u, pc') /\ Accepted(u, pc')
  <2>1. fs'[q] = new
    BY <1>1, <1>2 DEF FileSystem
  <2>2. EntryAt(found, u, pc') = new /\ Accepted(u, pc')
    BY <1>1, <1>3 DEF EntryAt, MadeEntry, Accepted
  <2>3. chgs'[q] = c /\ Recorded(u) = chgs[q]
    BY <1>1, <1>5, RecordFacts
  <2>4. chgs[q] = RetypedNotes(u)
    BY <1>1, <1>5 DEF Reaches, NotesAt
  <2>5. NotesAt(found, u, pc') = AddDiff(RetypedNotes(u), "target", u)
    BY <1>1, <1>3 DEF NotesAt, MadeNotes
  <2> QED BY <2>1, <2>2, <2>3, <2>4, <2>5, LikeFacts
<1> QED BY <1>1, <1>4, <1>5, PlainStep DEF Working

\* Which attributes a list of changes tells of.
LEMMA DiffExists ==
  ASSUME NEW f \in FileSystem, NEW u \in UpdatesOf(f), NEW c \in Seq(Noted),
         NEW a \in {"owner", "mode", "target"}, NEW b
  PROVE  Exists(AddDiff(c, a, u), b) <=> Exists(c, b) \/ (a = b /\ Changed(u, a))
<1> DEFINE x == Change(a, u.should.attrs[a], u.is.attrs[a])
<1>1. CASE Changed(u, a)
  <2>1. AddDiff(c, a, u) = Append(c, x) /\ x.attr = a
    BY <1>1 DEF AddDiff, Change
  <2> HIDE DEF x
  <2>2. DOMAIN c = 1..Len(c) /\ Len(c) \in Nat /\ DOMAIN Append(c, x) = 1..(Len(c) + 1)
        /\ Append(c, x)[Len(c) + 1] = x /\ \A i \in 1..Len(c) : Append(c, x)[i] = c[i]
    OBVIOUS
  <2>3. \A i \in 1..(Len(c) + 1) : i \in 1..Len(c) \/ i = Len(c) + 1
    BY <2>2
  <2>4. Len(c) + 1 \in 1..(Len(c) + 1) /\ \A i \in 1..Len(c) : i \in 1..(Len(c) + 1)
    BY <2>2
  <2> QED BY <1>1, <2>1, <2>2, <2>3, <2>4 DEF Exists
<1>2. CASE ~ Changed(u, a)
  BY <1>2 DEF AddDiff
<1> QED BY <1>1, <1>2

LEMMA MadeNotesFacts ==
  ASSUME NEW f \in FileSystem, NEW u \in UpdatesOf(f)
  PROVE  /\ RetypedNotes(u) \in Seq(Noted) /\ MadeNotes(u) \in Seq(Noted)
         /\ AddMetadata(MadeNotes(u), u) \in Seq(Noted)
         /\ \A b \in {"owner", "mode"} : ~ Exists(MadeNotes(u), b)
         /\ Exists(AddMetadata(MadeNotes(u), u), "owner") <=> Changed(u, "owner")
         /\ Exists(AddMetadata(MadeNotes(u), u), "mode") <=> Changed(u, "mode")
<1>1. RetypedNotes(u) \in Seq(Noted) /\ \A b \in {"owner", "mode"} : ~ Exists(RetypedNotes(u), b)
  <2>1. <<>> \in Seq(Noted) /\ \A b : ~ Exists(<<>>, b)
    BY DEF Exists
  <2> DEFINE x == Change("ensure", EnsureOf(u), "absent")
  <2>2. Append(<<>>, x) \in Seq(Noted)
    BY <2>1, DiffType
  <2>3. Append(<<>>, x) = <<x>> /\ x.attr = "ensure"
    BY DEF Change
  <2> HIDE DEF x
  <2>4. \A b \in {"owner", "mode"} : ~ Exists(<<x>>, b)
    BY <2>3 DEF Exists
  <2> QED BY <2>1, <2>2, <2>3, <2>4 DEF RetypedNotes, x
<1>2. MadeNotes(u) \in Seq(Noted)
  BY <1>1, DiffType DEF MadeNotes
<1>3. \A b \in {"owner", "mode"} : ~ Exists(MadeNotes(u), b)
  BY <1>1, DiffExists DEF MadeNotes
<1>4. AddDiff(MadeNotes(u), "owner", u) \in Seq(Noted) /\ AddMetadata(MadeNotes(u), u) \in Seq(Noted)
  BY <1>2, DiffType
<1> DEFINE c == AddDiff(MadeNotes(u), "owner", u)
<1>5. \A b : Exists(c, b) <=> Exists(MadeNotes(u), b) \/ ("owner" = b /\ Changed(u, "owner"))
  BY <1>2, DiffExists
<1> HIDE DEF c
<1>6. \A b : Exists(AddDiff(c, "mode", u), b) <=> Exists(c, b) \/ ("mode" = b /\ Changed(u, "mode"))
  BY <1>4, DiffExists DEF c
<1>7. AddMetadata(MadeNotes(u), u) = AddDiff(c, "mode", u)
  BY DEF AddMetadata, c
<1> QED BY <1>1, <1>2, <1>3, <1>4, <1>5, <1>6, <1>7

\* The entries of the stages are records with the fields of an entry.
Shaped(e) == \E k, b, o, c, t : e = Dirent(k, b, o, c, t)

LEMMA EntryShapes ==
  ASSUME NEW f \in FileSystem, NEW u, PathOf(u) \in Path
  PROVE  /\ Shaped(MadeEntry(f, u)) /\ Shaped(OwnedEntry(f, u)) /\ Shaped(ModedEntry(f, u))
<1>1. \A e \in Entries : Shaped(e)
  BY DEF Entries, NoEntry, Shaped
<1>2. Shaped(MadeEntry(f, u))
  <2>1. f[PathOf(u)] \in Entries
    BY DEF FileSystem
  <2>2. /\ Shaped(Dirent("file", DefaultBits, Me, Empty, None))
        /\ Shaped(Dirent("directory", DefaultBits, Me, None, None))
        /\ Shaped(Dirent("link", LinkBits, Me, None, u.should.attrs["target"]))
    BY DEF Shaped
  <2> QED BY <1>1, <2>1, <2>2, EntriesMade DEF MadeEntry
<1>3. \A e, v : Shaped(e) => Shaped([e EXCEPT !.owner = v]) /\ Shaped([e EXCEPT !.bits = v])
  <2> SUFFICES ASSUME NEW e, NEW v, Shaped(e)
               PROVE  Shaped([e EXCEPT !.owner = v]) /\ Shaped([e EXCEPT !.bits = v])
    OBVIOUS
  <2>1. PICK k, b, o, c, t : e = Dirent(k, b, o, c, t)
    BY DEF Shaped
  <2>2. [e EXCEPT !.owner = v] = Dirent(k, b, v, c, t) /\ [e EXCEPT !.bits = v] = Dirent(k, v, o, c, t)
    BY <2>1 DEF Dirent
  <2> QED BY <2>2 DEF Shaped
<1>4. Shaped(OwnedEntry(f, u))
  BY <1>2, <1>3 DEF OwnedEntry
<1>5. Shaped(ModedEntry(f, u))
  BY <1>3, <1>4 DEF ModedEntry
<1> QED BY <1>2, <1>4, <1>5

LEMMA UpdateOwnerPlain ==
  ASSUME IndInv, PlainInv, UpdateOwner
  PROVE  PlainInv'
<1> DEFINE u == upds[next]
           q == PathOf(u)
           o == u.should.attrs["owner"]
           c == AddMetadata(Recorded(u), u)
<1>1. /\ DiskOK /\ BatchOK /\ StageOK /\ next \in DOMAIN upds /\ pc = "owner"
      /\ UNCHANGED <<upds, next, found>> /\ Record(u, c)
  BY DEF IndInv, UpdateOwner, Updating
<1>2. /\ q \in Path /\ fs \in FileSystem /\ u \in UpdatesOf(found) /\ found \in FileSystem
  BY <1>1, InHand DEF DiskOK
<1>3. o \in {None} \cup Owner \cup OwnerName
  <2>1. u.should \in FileShould
    BY <1>2, UpdateFacts
  <2> QED BY <2>1, ShouldFacts
<1>4. EnsureOf(u) \in {"file", "directory", "link"}
  BY <1>1 DEF StageOK, Fits, Working
<1>5. \/ ~ Exists(c, "owner") /\ pc' = "mode" /\ fs' = fs
      \/ pc' = "returned" /\ fs' = fs
      \/ /\ Exists(c, "owner") /\ o \notin OwnerName /\ pc' = "mode"
         /\ fs' = IF o = None THEN fs ELSE [fs EXCEPT ![q].owner = o]
  BY DEF UpdateOwner, Give
<1>6. Plain => \A p \in Path : p # q => Like(NoModeOnLinks, fs'[p], fs[p]) /\ chgs'[p] = chgs[p]
  BY <1>1, <1>2, <1>5, LikeFacts, RecordFacts DEF FileSystem
<1>7. ASSUME Plain, Reaches(u, pc), pc' # "returned"
      PROVE  /\ Like(NoModeOnLinks, fs'[q], EntryAt(found, u, pc'))
             /\ chgs'[q] = NotesAt(found, u, pc') /\ Accepted(u, pc')
  <2>0. pc' = "mode"
    BY <1>5, <1>7
  <2>1. Like(NoModeOnLinks, fs[q], MadeEntry(found, u)) /\ chgs[q] = MadeNotes(u)
    BY <1>1, <1>7 DEF Reaches, EntryAt, NotesAt
  <2>2. chgs'[q] = c /\ c = AddMetadata(MadeNotes(u), u)
    BY <1>1, <1>7, <2>1, RecordFacts
  <2>3. Exists(c, "owner") <=> Changed(u, "owner")
    BY <1>2, <2>2, MadeNotesFacts
  <2>4. NotesAt(found, u, pc') = AddMetadata(MadeNotes(u), u)
    BY <2>0 DEF NotesAt
  <2>5. EntryAt(found, u, pc') = OwnedEntry(found, u)
    BY <2>0 DEF EntryAt
  <2>6. CASE Changed(u, "owner")
    <3>1. o # None
      BY <2>6 DEF Changed
    <3>2. o \in Owner /\ fs' = [fs EXCEPT ![q].owner = o]
      BY <1>3, <1>5, <1>7, <2>3, <2>6, <3>1
    <3>3. Accepted(u, pc')
      BY <2>0, <3>2 DEF Accepted
    <3> DEFINE d == MadeEntry(found, u)
    <3>4. fs'[q] = [fs[q] EXCEPT !.owner = o]
      BY <1>2, <3>2 DEF FileSystem
    <3>5. OwnedEntry(found, u) = [d EXCEPT !.owner = o]
      BY <2>6 DEF OwnedEntry
    <3>6. Like(NoModeOnLinks, [fs[q] EXCEPT !.owner = o], [d EXCEPT !.owner = o])
      <4>1. fs[q] \in Entries
        BY <1>2 DEF FileSystem
      <4>2. PICK k1, b1, o1, c1, t1 : fs[q] = Dirent(k1, b1, o1, c1, t1)
        BY <4>1 DEF Entries, NoEntry
      <4>3. PICK k2, b2, o2, c2, t2 : d = Dirent(k2, b2, o2, c2, t2)
        BY <1>2, EntryShapes DEF Shaped
      <4> HIDE DEF d
      <4> QED BY <2>1, <4>2, <4>3 DEF Like, Dirent, d
    <3> QED BY <2>2, <2>4, <2>5, <3>3, <3>4, <3>5, <3>6
  <2>7. CASE ~ Changed(u, "owner")
    <3>1. fs' = fs
      BY <1>5, <1>7, <2>3, <2>7
    <3>2. OwnedEntry(found, u) = MadeEntry(found, u)
      BY <2>7 DEF OwnedEntry
    <3>3. Accepted(u, pc')
      BY <2>0, <2>7 DEF Accepted
    <3> QED BY <2>1, <2>2, <2>4, <2>5, <3>1, <3>2, <3>3
  <2> QED BY <2>6, <2>7
<1> QED BY <1>1, <1>5, <1>6, <1>7, PlainStep DEF Working

\* The three types whose metadata is given are kept by what is given to them.
LEMMA EntryTypes ==
  ASSUME NEW f \in FileSystem, NEW u, PathOf(u) \in Path, StateOf(u) = f[PathOf(u)].type,
         EnsureOf(u) \in {"file", "directory", "link"}
  PROVE  /\ MadeEntry(f, u).type = EnsureOf(u) /\ OwnedEntry(f, u).type = EnsureOf(u)
         /\ ModedEntry(f, u).type = EnsureOf(u)
<1>1. MadeEntry(f, u).type = EnsureOf(u)
  BY DEF MadeEntry, Dirent
<1>2. \A e, v : Shaped(e) => [e EXCEPT !.owner = v].type = e.type /\ [e EXCEPT !.bits = v].type = e.type
  BY DEF Shaped, Dirent
<1>3. OwnedEntry(f, u).type = EnsureOf(u)
  BY <1>1, <1>2, EntryShapes DEF OwnedEntry
<1>4. ModedEntry(f, u).type = EnsureOf(u)
  BY <1>2, <1>3, EntryShapes DEF ModedEntry
<1> QED BY <1>1, <1>3, <1>4

LEMMA UpdateModePlain ==
  ASSUME IndInv, PlainInv, UpdateMode
  PROVE  PlainInv'
<1> DEFINE u == upds[next]
           q == PathOf(u)
           r == Deref(fs, q)
           m == u.should.attrs["mode"]
           after == IF EnsureOf(u) = "file" THEN "content" ELSE "done"
           s == NoModeOnLinks
           d == OwnedEntry(found, u)
<1>1. /\ DiskOK /\ BatchOK /\ StageOK /\ next \in DOMAIN upds /\ pc = "mode"
      /\ UNCHANGED <<upds, next, found, chgs>>
  BY DEF IndInv, UpdateMode, Updating
<1>2. /\ q \in Path /\ fs \in FileSystem /\ u \in UpdatesOf(found) /\ found \in FileSystem
      /\ fs[q] \in Entries
  BY <1>1, InHand DEF DiskOK
<1>3. m \in {None, BadMode} \/ \E b \in Bits, pd \in BOOLEAN : m = ModeString(b, pd)
  <2>1. u.should \in FileShould
    BY <1>2, UpdateFacts
  <2> QED BY <2>1, ShouldFacts
<1>4. EnsureOf(u) \in {"file", "directory", "link"}
  BY <1>1 DEF StageOK, Fits, Working
<1>5. \/ ~ Exists(Recorded(u), "mode") /\ pc' = after /\ fs' = fs
      \/ pc' = "returned" /\ fs' = fs
      \/ /\ Exists(Recorded(u), "mode") /\ m # None /\ m.bits # None /\ pc' = after
         /\ Reached(fs, q) \notin {"absent", "loop"}
         /\ fs' = [fs EXCEPT ![r].bits = m.bits]
  BY DEF UpdateMode, Give
<1>6. m # None /\ m.bits # None => m.bits \in Bits
  <2> HIDE DEF m
  <2> QED BY <1>3 DEF BadMode, ModeString
<1>7. ASSUME Plain
      PROVE  /\ Like(s, fs[q], d) /\ chgs[q] = AddMetadata(MadeNotes(u), u) /\ Recorded(u) = chgs[q]
             /\ fs[q].type = EnsureOf(u) /\ Accepted(u, "mode") /\ StateOf(u) = found[q].type
  <2>1. Reaches(u, "mode")
    BY <1>1, <1>7 DEF PlainInv
  <2>2. Like(s, fs[q], d) /\ chgs[q] = AddMetadata(MadeNotes(u), u) /\ Accepted(u, "mode")
    BY <2>1 DEF Reaches, EntryAt, NotesAt
  <2>3. q = UpdateName(u) /\ StateOf(u) = found[q].type
    BY <1>1, <1>7, PlainFacts
  <2>4. fs[q].type = EnsureOf(u)
    BY <1>2, <1>4, <2>2, <2>3, EntryTypes DEF Like
  <2> QED BY <2>2, <2>3, <2>4 DEF Recorded
<1>8. after \in {"content", "done"} /\ (after = "content" <=> EnsureOf(u) = "file")
  OBVIOUS
<1>9. \A p \in Path : fs[p] \in Entries
  BY <1>2 DEF FileSystem
<1>10. Plain => \A p \in Path : p # q => Like(s, fs'[p], fs[p]) /\ chgs'[p] = chgs[p]
  <2> SUFFICES ASSUME Plain, NEW p \in Path, p # q PROVE Like(s, fs'[p], fs[p])
    BY <1>1
  <2>1. CASE fs' = fs
    BY <2>1, LikeFacts
  <2>2. CASE m # None /\ fs' = [fs EXCEPT ![r].bits = m.bits]
    <3>1. CASE EnsureOf(u) = "link"
      <4>1. ~ s
        BY <1>1, <2>2, <3>1 DEF NoModeOnLinks, ModeOnLink
      <4>2. fs'[p] = fs[p] \/ fs'[p] = [fs[p] EXCEPT !.bits = m.bits]
        BY <1>2, <2>2 DEF FileSystem
      <4>3. PICK k, b, o, c, t : fs[p] = Dirent(k, b, o, c, t)
        BY <1>9 DEF Entries, NoEntry
      <4> HIDE DEF s
      <4> QED BY <4>1, <4>2, <4>3 DEF Like, Dirent
    <3>2. CASE EnsureOf(u) # "link"
      <4>1. r = q
        BY <1>2, <1>7, <3>2, DerefFacts
      <4>2. fs'[p] = fs[p]
        BY <1>2, <2>2, <4>1 DEF FileSystem
      <4> QED BY <4>2, LikeFacts
    <3> QED BY <3>1, <3>2
  <2> QED BY <1>5, <2>1, <2>2
<1>11. ASSUME Plain, pc' # "returned"
       PROVE  /\ Like(s, fs'[q], ModedEntry(found, u)) /\ Accepted(u, "content")
  <2>1. Exists(Recorded(u), "mode") <=> Changed(u, "mode")
    BY <1>2, <1>7, <1>11, MadeNotesFacts
  <2>2. CASE ~ Changed(u, "mode")
    <3>1. fs' = fs
      BY <1>5, <1>11, <2>1, <2>2
    <3> QED BY <1>7, <1>11, <2>2, <3>1 DEF ModedEntry, Accepted
  <2>3. CASE Changed(u, "mode")
    <3>1. m # None
      BY <2>3 DEF Changed
    <3>2. m.bits \in Bits /\ Reached(fs, q) \notin {"absent", "loop"} /\ fs' = [fs EXCEPT ![r].bits = m.bits]
      BY <1>5, <1>6, <1>11, <2>1, <2>3, <3>1
    <3>3. Accepted(u, "content")
      BY <1>7, <1>11, <3>2 DEF Accepted
    <3>4. CASE EnsureOf(u) = "link"
      <4>1. r # q
        BY <1>2, <1>7, <1>11, <3>2, <3>4, ReachedFacts, DerefFacts
      <4>2. fs'[q] = fs[q]
        BY <1>2, <3>2, <4>1 DEF FileSystem
      <4>3. ModedEntry(found, u) = d
        BY <3>4 DEF ModedEntry
      <4> QED BY <1>7, <1>11, <3>3, <4>2, <4>3
    <3>5. CASE EnsureOf(u) # "link"
      <4>1. r = q
        BY <1>2, <1>7, <1>11, <3>5, DerefFacts
      <4>2. fs'[q] = [fs[q] EXCEPT !.bits = m.bits]
        BY <1>2, <3>2, <4>1 DEF FileSystem
      <4>3. ModedEntry(found, u) = [d EXCEPT !.bits = m.bits]
        BY <2>3, <3>5 DEF ModedEntry
      <4>4. PICK k1, b1, o1, c1, t1 : fs[q] = Dirent(k1, b1, o1, c1, t1)
        BY <1>2 DEF Entries, NoEntry
      <4>5. PICK k2, b2, o2, c2, t2 : d = Dirent(k2, b2, o2, c2, t2)
        BY <1>2, EntryShapes DEF Shaped
      <4>6. Like(s, fs[q], d)
        BY <1>7, <1>11
      <4> HIDE DEF d, s, m
      <4>7. Like(s, [fs[q] EXCEPT !.bits = m.bits], [d EXCEPT !.bits = m.bits])
        BY <4>4, <4>5, <4>6 DEF Like, Dirent
      <4> QED BY <3>3, <4>2, <4>3, <4>7
    <3> QED BY <3>4, <3>5
  <2> QED BY <2>2, <2>3
<1>12. ASSUME Plain, Reaches(u, pc), pc' # "returned"
       PROVE  /\ Like(s, fs'[q], EntryAt(found, u, pc'))
              /\ chgs'[q] = NotesAt(found, u, pc') /\ Accepted(u, pc')
  <2>1. pc' = after
    BY <1>5, <1>12
  <2>2. EntryAt(found, u, pc') = ModedEntry(found, u)
    BY <1>4, <1>8, <2>1 DEF EntryAt, FinalEntry
  <2>3. NotesAt(found, u, pc') = AddMetadata(MadeNotes(u), u)
    BY <1>4, <1>8, <2>1 DEF NotesAt, FinalNotes
  <2>4. Like(s, fs'[q], ModedEntry(found, u)) /\ Accepted(u, "content")
    BY <1>11, <1>12
  <2>5. Accepted(u, pc')
    BY <1>4, <1>8, <2>1, <2>4 DEF Accepted, Makeable
  <2> QED BY <1>1, <1>7, <1>12, <2>2, <2>3, <2>4, <2>5
<1>13. pc' \in Working \cup {"returned"}
  BY <1>5, <1>8 DEF Working
<1> HIDE DEF s
<1> QED BY <1>1, <1>10, <1>12, <1>13, PlainStep DEF Working, s

LEMMA UpdateContentPlain ==
  ASSUME IndInv, PlainInv, UpdateContent
  PROVE  PlainInv'
<1> DEFINE u == upds[next]
           q == PathOf(u)
           want == u.should.attrs["content"]
           was == ContentAt(fs, q)
           s == NoModeOnLinks
           d == ModedEntry(found, u)
           c == Append(Recorded(u), Change("content", want, was))
<1>1. /\ DiskOK /\ BatchOK /\ StageOK /\ next \in DOMAIN upds /\ pc = "content" /\ pc' = "done"
      /\ UNCHANGED <<upds, next, found>>
  BY DEF IndInv, UpdateContent, Updating
<1>2. /\ q \in Path /\ fs \in FileSystem /\ u \in UpdatesOf(found) /\ found \in FileSystem
      /\ fs[q] \in Entries
  BY <1>1, InHand DEF DiskOK
<1>3. EnsureOf(u) = "file"
  BY <1>1 DEF StageOK, Fits, Working
<1>4. ASSUME Plain
      PROVE  /\ Like(s, fs[q], d) /\ chgs[q] = AddMetadata(MadeNotes(u), u) /\ Recorded(u) = chgs[q]
             /\ Reached(fs, q) = "file" /\ Deref(fs, q) = q /\ was = d.content
             /\ Accepted(u, "content")
  <2>1. Reaches(u, "content")
    BY <1>1, <1>4 DEF PlainInv
  <2>2. Like(s, fs[q], d) /\ chgs[q] = AddMetadata(MadeNotes(u), u) /\ Accepted(u, "content")
    BY <2>1 DEF Reaches, EntryAt, NotesAt
  <2>3. q = UpdateName(u) /\ StateOf(u) = found[q].type
    BY <1>1, <1>4, PlainFacts
  <2>4. fs[q].type = "file"
    BY <1>2, <1>3, <2>2, <2>3, EntryTypes DEF Like
  <2>5. Reached(fs, q) = "file" /\ Deref(fs, q) = q
    BY <1>2, <2>4, ReachedFacts
  <2>6. was = d.content
    BY <2>2, <2>5 DEF ContentAt, Like
  <2> QED BY <2>2, <2>3, <2>5, <2>6 DEF Recorded
<1>5. \/ want = None /\ UNCHANGED <<fs, chgs>>
      \/ want # None /\ want = was /\ UNCHANGED <<fs, chgs>>
      \/ /\ want # None /\ want # was /\ Record(u, c)
         /\ fs' = [fs EXCEPT ![Deref(fs, q)].content = IF Reached(fs, q) = "file" THEN want ELSE @]
  BY DEF UpdateContent, ContentAt
<1>6. Plain => \A p \in Path : p # q => Like(s, fs'[p], fs[p]) /\ chgs'[p] = chgs[p]
  <2> SUFFICES ASSUME Plain, NEW p \in Path, p # q PROVE Like(s, fs'[p], fs[p]) /\ chgs'[p] = chgs[p]
    OBVIOUS
  <2>1. CASE UNCHANGED <<fs, chgs>>
    BY <2>1, LikeFacts
  <2>2. CASE ~ UNCHANGED <<fs, chgs>>
    <3>1. fs'[p] = fs[p]
      BY <1>2, <1>4, <1>5, <2>2 DEF FileSystem
    <3>2. chgs'[p] = chgs[p]
      BY <1>1, <1>5, <2>2, RecordFacts
    <3> QED BY <3>1, <3>2, LikeFacts
  <2> QED BY <2>1, <2>2
<1>7. ASSUME Plain
      PROVE  /\ Like(s, fs'[q], FinalEntry(found, u)) /\ chgs'[q] = FinalNotes(found, u)
  <2>1. Shaped(d) /\ Shaped(fs[q])
    BY <1>2, EntryShapes DEF Shaped, Entries, NoEntry
  <2>2. CASE want = None
    BY <1>3, <1>4, <1>5, <1>7, <2>2 DEF FinalEntry, FinalNotes
  <2>3. CASE want # None /\ want = was
    <3>1. FinalEntry(found, u) = [d EXCEPT !.content = want] /\ want = d.content
      BY <1>3, <1>4, <1>7, <2>3 DEF FinalEntry
    <3>2. FinalNotes(found, u) = AddMetadata(MadeNotes(u), u)
      BY <1>3, <2>3, <3>1 DEF FinalNotes
    <3>3. [d EXCEPT !.content = d.content] = d
      <4> HIDE DEF d
      <4> QED BY <2>1 DEF Shaped, Dirent
    <3> QED BY <1>4, <1>5, <1>7, <2>3, <3>1, <3>2, <3>3
  <2>4. CASE want # None /\ want # was
    <3>1. FinalEntry(found, u) = [d EXCEPT !.content = want]
      BY <1>3, <2>4 DEF FinalEntry
    <3>2. FinalNotes(found, u) = c
      BY <1>3, <1>4, <1>7, <2>4 DEF FinalNotes
    <3>3. fs'[q] = [fs[q] EXCEPT !.content = want]
      BY <1>2, <1>4, <1>5, <1>7, <2>4 DEF FileSystem
    <3>4. chgs'[q] = c
      BY <1>1, <1>5, <1>7, <2>4, RecordFacts
    <3>5. Like(s, [fs[q] EXCEPT !.content = want], [d EXCEPT !.content = want])
      <4>1. Like(s, fs[q], d)
        BY <1>4, <1>7
      <4>2. PICK k1, b1, o1, c1, t1 : fs[q] = Dirent(k1, b1, o1, c1, t1)
        BY <2>1 DEF Shaped
      <4>3. PICK k2, b2, o2, c2, t2 : d = Dirent(k2, b2, o2, c2, t2)
        BY <2>1 DEF Shaped
      <4> HIDE DEF d, s, want
      <4> QED BY <4>1, <4>2, <4>3 DEF Like, Dirent
    <3> QED BY <3>1, <3>2, <3>3, <3>4, <3>5
  <2> QED BY <2>2, <2>3, <2>4
<1>8. ASSUME Plain
      PROVE  /\ Like(s, fs'[q], EntryAt(found, u, pc'))
             /\ chgs'[q] = NotesAt(found, u, pc') /\ Accepted(u, pc')
  <2>1. EntryAt(found, u, pc') = FinalEntry(found, u) /\ NotesAt(found, u, pc') = FinalNotes(found, u)
    BY <1>1 DEF EntryAt, NotesAt
  <2>2. Accepted(u, pc')
    BY <1>1, <1>3, <1>4, <1>8 DEF Accepted, Makeable
  <2> QED BY <1>7, <1>8, <2>1, <2>2
<1> HIDE DEF s
<1> QED BY <1>1, <1>6, <1>8, PlainStep DEF Working, s

\* A step that ends the call leaves the files alone.
LEMMA EndPlain ==
  ASSUME IndInv, PlainInv, IllegalEnsure \/ SystemCallFails
  PROVE  PlainInv'
<1> DEFINE u == upds[next]
           c == AddMetadata(Recorded(u), u)
<1>1. /\ UNCHANGED <<fs, upds, next, found>> /\ pc' = "returned" /\ pc \in Working
      /\ UNCHANGED chgs \/ Record(u, c)
  BY DEF IllegalEnsure, SystemCallFails, Give, Updating, Working
<1>2. next \in DOMAIN upds
  BY <1>1 DEF IndInv, StageOK
<1>3. Plain => \A p \in Path : p # PathOf(u) => Like(NoModeOnLinks, fs'[p], fs[p]) /\ chgs'[p] = chgs[p]
  BY <1>1, <1>2, LikeFacts, RecordFacts
<1> QED BY <1>1, <1>2, <1>3, PlainStep

LEMMA UpdateDonePlain ==
  ASSUME IndInv, PlainInv, UpdateDone
  PROVE  PlainInv'
<1> SUFFICES ASSUME Plain PROVE PlainInv'
  BY PlainSame DEF UpdateDone, PlainInv
<1>0. PICK k : k = next + 1
  OBVIOUS
<1> DEFINE s == NoModeOnLinks
           u == upds[k]
<1>1. /\ DiskOK /\ BatchOK /\ s' = s /\ next \in DOMAIN upds
      /\ UNCHANGED <<fs, upds, chgs, found>> /\ next' = k /\ pc = "done" /\ pc' = "begin"
  BY <1>0, PlainSame DEF IndInv, UpdateDone, Updating
<1>2. DOMAIN upds = 1..Len(upds) /\ Len(upds) \in Nat /\ next \in Nat
  BY <1>1 DEF BatchOK
<1>3. \A i \in DOMAIN upds : i < k => Reaches(upds[i], "done")
  BY <1>0, <1>1, <1>2 DEF PlainInv
<1>4. k \in DOMAIN upds => Reaches(u, "begin")
  <2> SUFFICES ASSUME k \in DOMAIN upds PROVE Reaches(u, "begin")
    OBVIOUS
  <2>1. \A i \in DOMAIN upds : i <= next => UpdateName(upds[i]) # PathOf(u)
    <3>1. \A i \in DOMAIN upds : i <= next => i # k
      BY <1>0, <1>2
    <3>2. \A i \in DOMAIN upds : PathOf(upds[i]) = UpdateName(upds[i])
      BY <1>1, PlainFacts
    <3> QED BY <1>1, <3>1, <3>2, PlainFacts
  <2>2. PathOf(u) \in Path
    BY <1>1, PlainFacts
  <2>3. Like(s, fs[PathOf(u)], found[PathOf(u)]) /\ chgs[PathOf(u)] = <<>>
    BY <2>1, <2>2 DEF PlainInv
  <2> QED BY <2>3 DEF Reaches, EntryAt, NotesAt, Accepted
<1>5. \A p \in Path : (\A i \in DOMAIN upds : i <= k => UpdateName(upds[i]) # p) =>
        Like(s, fs[p], found[p]) /\ chgs[p] = <<>>
  BY <1>0, <1>2 DEF PlainInv
<1>6. \A i \in DOMAIN upds : i < k => Reaches(upds[i], "done")'
  <2> TAKE i \in DOMAIN upds
  <2> DEFINE v == upds[i]
  <2>1. v' = v /\ (i < k => Reaches(v, "done"))
    BY <1>1, <1>3
  <2> HIDE DEF v
  <2>2. i < k => Reaches(v, "done")'
    BY <1>1, <2>1 DEF Reaches
  <2> QED BY <2>2 DEF v
<1>7. k \in DOMAIN upds => Reaches(u, "begin")'
  <2>1. u' = u
    BY <1>1
  <2> HIDE DEF u
  <2> QED BY <1>1, <1>4, <2>1 DEF Reaches
<1>8. \A p \in Path : (\A i \in DOMAIN upds : i <= k => UpdateName(upds[i]) # p) =>
        Like(s, fs[p], found[p])' /\ chgs'[p] = <<>>
  BY <1>1, <1>5
<1>9. u' = upds'[k] /\ DOMAIN upds' = DOMAIN upds /\ \A i : upds'[i] = upds[i]
  BY <1>1
<1> HIDE DEF s
<1> QED BY <1>1, <1>6, <1>7, <1>8, <1>9 DEF PlainInv, UpdateName, s

\* Steps that are of no update.
LEMMA IdlePlain ==
  ASSUME upds = <<>>, next = 1, found = fs, chgs = [n \in Name |-> <<>>]
  PROVE  PlainInv
<1>1. DOMAIN upds = {} /\ \A p \in Path : chgs[p] = <<>>
  BY DEF Name
<1> QED BY <1>1, LikeFacts DEF PlainInv

LEMMA ReleasePlain ==
  ASSUME Release
  PROVE  PlainInv'
<1>1. DOMAIN upds' = {} /\ upds' = <<>> /\ found' = fs' /\ \A p \in Path : chgs'[p] = <<>>
  BY DEF Release, Name
<1> QED BY <1>1, LikeFacts DEF PlainInv

LEMMA CallPlain ==
  ASSUME IndInv', NEW shoulds, Call(shoulds)
  PROVE  PlainInv'
<1>1. /\ found' = fs' /\ next' = 1 /\ \A p \in Path : chgs'[p] = <<>>
      /\ pc' \in {"begin", "returned"}
  BY DEF Call, Name, Give
<1>2. DOMAIN upds' = 1..Len(upds') /\ Len(upds') \in Nat /\ DiskOK' /\ BatchOK'
  BY DEF IndInv, BatchOK
<1>3. ASSUME Plain', pc' = "begin", 1 \in DOMAIN upds' PROVE Reaches(upds[next], "begin")'
  <2>1. PathOf(upds[next])' \in Path
    BY <1>1, <1>2, <1>3, UpdateFacts DEF BatchOK, DiskOK, PathOf, UpdateName, UpdatesOf
  <2> QED BY <1>1, <2>1, LikeFacts DEF Reaches, EntryAt, NotesAt, Accepted
<1> QED BY <1>1, <1>2, <1>3, LikeFacts DEF PlainInv

LEMMA NextPlain == IndInv /\ IndInv' /\ PlainInv /\ [Next]_vars => PlainInv'
<1> SUFFICES ASSUME IndInv, IndInv', PlainInv, [Next]_vars PROVE PlainInv'
  OBVIOUS
<1>1. CASE Begin
  BY <1>1, BeginPlain
<1>2. CASE RemoveOld
  BY <1>2, RemoveOldPlain
<1>3. CASE CreateFile
  BY <1>3, CreateFilePlain
<1>4. CASE CreateDirectory
  BY <1>4, CreateDirectoryPlain
<1>5. CASE UpdateTarget
  BY <1>5, UpdateTargetPlain
<1>6. CASE Symlink
  BY <1>6, SymlinkPlain
<1>7. CASE UpdateOwner
  BY <1>7, UpdateOwnerPlain
<1>8. CASE UpdateMode
  BY <1>8, UpdateModePlain
<1>9. CASE UpdateContent
  BY <1>9, UpdateContentPlain
<1>10. CASE IllegalEnsure \/ SystemCallFails
  BY <1>10, EndPlain
<1>11. CASE UpdateDone
  BY <1>11, UpdateDonePlain
<1>12. CASE Finish
  <2>1. UNCHANGED <<fs, upds, next, chgs, found>> /\ pc' = "returned" /\ next \notin DOMAIN upds
    BY <1>12 DEF Finish, Give
  <2> QED BY <2>1, PlainSame DEF PlainInv, Reaches, UpdateName
<1>13. CASE Release
  BY <1>13, ReleasePlain
<1>14. CASE \E shoulds \in Calls : Call(shoulds)
  BY <1>14, CallPlain
<1>15. CASE UNCHANGED vars
  BY <1>15, PlainSame DEF vars, PlainInv, Reaches, UpdateName
<1> QED BY <1>1, <1>2, <1>3, <1>4, <1>5, <1>6, <1>7, <1>8, <1>9, <1>10, <1>11, <1>12, <1>13,
           <1>14, <1>15 DEF Next, FileStep

\* In a plain batch every file is, at each stage, as the update says it is.
THEOREM PlainInvHolds == Spec => []PlainInv
<1>1. Init => PlainInv
  BY IdlePlain DEF Init
<1>2. IndInv /\ IndInv' /\ PlainInv /\ [Next]_vars => PlainInv'
  BY NextPlain
<1> QED BY <1>1, <1>2, IndInvHolds, PTL DEF Spec

-----------------------------------------------------------------------------
(* What follows from it. *)

\* Nothing but the files of the updates begun has changed, whatever has failed
\* and wherever (file.cc 208-290 works on one path at a time).
THEOREM RestUntouchedHolds == Spec => []RestUntouched
<1>1. IndInv /\ PlainInv => RestUntouched
  <2> SUFFICES ASSUME IndInv, PlainInv, Plain, NEW p \in Path,
                      \A i \in DOMAIN upds : i <= next => UpdateName(upds[i]) # p
               PROVE  /\ [fs[p] EXCEPT !.bits = found[p].bits] = found[p]
                      /\ NoModeOnLinks => fs[p] = found[p]
    BY DEF RestUntouched
  <2>1. Like(NoModeOnLinks, fs[p], found[p])
    BY DEF PlainInv
  <2>2. fs[p] \in Entries /\ found[p] \in Entries
    BY DEF IndInv, DiskOK, FileSystem
  <2>3. PICK k1, b1, o1, c1, t1 : fs[p] = Dirent(k1, b1, o1, c1, t1)
    BY <2>2 DEF Entries, NoEntry
  <2>4. PICK k2, b2, o2, c2, t2 : found[p] = Dirent(k2, b2, o2, c2, t2)
    BY <2>2 DEF Entries, NoEntry
  <2> QED BY <2>1, <2>3, <2>4 DEF Like, Dirent
<1> QED BY <1>1, IndInvHolds, PlainInvHolds, PTL

\* What the finished entry holds, field by field.
LEMMA FinalFacts ==
  ASSUME NEW f \in FileSystem, NEW u, PathOf(u) \in Path, StateOf(u) = f[PathOf(u)].type,
         EnsureOf(u) \in Makeable
  PROVE  /\ FinalEntry(f, u).type = EnsureOf(u)
         /\ EnsureOf(u) # "absent" =>
              /\ FinalEntry(f, u).owner = IF Changed(u, "owner") THEN u.should.attrs["owner"]
                                          ELSE MadeEntry(f, u).owner
              /\ FinalEntry(f, u).bits = IF Changed(u, "mode") /\ EnsureOf(u) # "link"
                                         THEN u.should.attrs["mode"].bits
                                         ELSE MadeEntry(f, u).bits
              /\ FinalEntry(f, u).target = MadeEntry(f, u).target
              /\ FinalEntry(f, u).content =
                   IF EnsureOf(u) = "file" /\ u.should.attrs["content"] # None
                   THEN u.should.attrs["content"] ELSE MadeEntry(f, u).content
              /\ ModedEntry(f, u).content = MadeEntry(f, u).content
<1>1. CASE EnsureOf(u) = "absent"
  BY <1>1 DEF FinalEntry, NoEntry, Dirent
<1>2. CASE EnsureOf(u) # "absent"
  <2> DEFINE d == MadeEntry(f, u)
             o == OwnedEntry(f, u)
             m == ModedEntry(f, u)
             e == FinalEntry(f, u)
  <2>1. Shaped(d) /\ Shaped(o) /\ Shaped(m) /\ m.type = EnsureOf(u)
    BY <1>2, EntryShapes, EntryTypes DEF Makeable
  <2>2. \/ Changed(u, "owner") /\ o = [d EXCEPT !.owner = u.should.attrs["owner"]]
        \/ ~ Changed(u, "owner") /\ o = d
    BY DEF OwnedEntry
  <2>3. \/ Changed(u, "mode") /\ EnsureOf(u) # "link" /\ m = [o EXCEPT !.bits = u.should.attrs["mode"].bits]
        \/ ~ (Changed(u, "mode") /\ EnsureOf(u) # "link") /\ m = o
    BY DEF ModedEntry
  <2>4. \/ /\ EnsureOf(u) = "file" /\ u.should.attrs["content"] # None
           /\ e = [m EXCEPT !.content = u.should.attrs["content"]]
        \/ ~ (EnsureOf(u) = "file" /\ u.should.attrs["content"] # None) /\ e = m
    BY <1>2 DEF FinalEntry
  <2>5. PICK k1, b1, o1, c1, t1 : d = Dirent(k1, b1, o1, c1, t1)
    BY <2>1 DEF Shaped
  <2>6. PICK k2, b2, o2, c2, t2 : o = Dirent(k2, b2, o2, c2, t2)
    BY <2>1 DEF Shaped
  <2>7. PICK k3, b3, o3, c3, t3 : m = Dirent(k3, b3, o3, c3, t3)
    BY <2>1 DEF Shaped
  <2> HIDE DEF d, o, m, e
  <2>8. /\ o.owner = IF Changed(u, "owner") THEN u.should.attrs["owner"] ELSE d.owner
        /\ o.bits = d.bits /\ o.target = d.target /\ o.content = d.content
    BY <2>2, <2>5, <2>6 DEF Dirent
  <2>9. /\ m.bits = IF Changed(u, "mode") /\ EnsureOf(u) # "link" THEN u.should.attrs["mode"].bits ELSE o.bits
        /\ m.owner = o.owner /\ m.target = o.target /\ m.content = o.content
    BY <2>3, <2>6, <2>7 DEF Dirent
  <2>10. /\ e.content = IF EnsureOf(u) = "file" /\ u.should.attrs["content"] # None
                         THEN u.should.attrs["content"] ELSE m.content
         /\ e.owner = m.owner /\ e.target = m.target /\ e.bits = m.bits /\ e.type = m.type
    BY <2>4, <2>7 DEF Dirent
  <2> QED BY <2>1, <2>8, <2>9, <2>10 DEF d, m, e
<1> QED BY <1>1, <1>2

\* An update done, in a plain batch.
LEMMA DoneFacts ==
  ASSUME IndInv, PlainInv, Plain, NEW i \in DOMAIN upds, i < next
  PROVE  LET u == upds[i]
             q == PathOf(u)
         IN  /\ u \in UpdatesOf(found) /\ u.should \in FileShould /\ q \in Path /\ found \in FileSystem
             /\ u.is = Load(found, q) /\ StateOf(u) = found[q].type
             /\ found[q] \in Entries /\ EnsureOf(u) \in Makeable
             /\ Like(NoModeOnLinks, fs[q], FinalEntry(found, u))
             /\ Recorded(u) = FinalNotes(found, u) /\ Accepted(u, "done")
<1> DEFINE u == upds[i]
<1>1. DiskOK /\ BatchOK
  BY DEF IndInv
<1>2. Reaches(u, "done")
  BY DEF PlainInv
<1>3. /\ Like(NoModeOnLinks, fs[PathOf(u)], FinalEntry(found, u)) /\ Accepted(u, "done")
      /\ chgs[PathOf(u)] = FinalNotes(found, u) /\ EnsureOf(u) \in Makeable
  BY <1>2 DEF Reaches, EntryAt, NotesAt, Accepted
<1>4. /\ u \in UpdatesOf(found) /\ PathOf(u) \in Path /\ found \in FileSystem
      /\ PathOf(u) = UpdateName(u) /\ u.is = Load(found, PathOf(u))
      /\ StateOf(u) = found[PathOf(u)].type /\ found[PathOf(u)] \in Entries
  BY <1>1, PlainFacts
<1>5. u.should \in FileShould
  BY <1>4, UpdateFacts
<1> HIDE DEF u
<1> QED BY <1>3, <1>4, <1>5 DEF Recorded, u

\* A finished entry is as the should asks.
LEMMA FinalAsAsked ==
  ASSUME NEW f \in FileSystem, NEW u \in UpdatesOf(f), PathOf(u) \in Path,
         StateOf(u) = f[PathOf(u)].type, u.is = Load(f, PathOf(u)), EnsureOf(u) \in Makeable,
         NEW strict, NEW e, Like(strict, e, FinalEntry(f, u))
  PROVE  /\ KindAsAsked(e, u)
         /\ Applied(u, "owner") => OwnerAsAsked(e, u)
         /\ Applied(u, "mode") /\ strict => ModeAsAsked(e, u)
<1> DEFINE s == u.should.attrs
           d == FinalEntry(f, u)
           m == MadeEntry(f, u)
           g == f[PathOf(u)]
<1>1. s["ensure"] \in {None, "present"} \cup Makeable /\ g \in Entries
  <2>1. u.should \in FileShould
    BY UpdateFacts
  <2> QED BY <2>1, ShouldFacts DEF FileSystem
<1>2. d.type = EnsureOf(u) /\ e.type = d.type /\ e.owner = d.owner /\ e.content = d.content
      /\ e.target = d.target /\ (strict => e = d)
  BY FinalFacts DEF Like
<1>3. /\ s["ensure"] = "present" => EnsureOf(u) # "absent"
      /\ s["ensure"] \notin {None, "present"} => EnsureOf(u) = s["ensure"]
  BY EnsureFacts
<1>4. EnsureOf(u) # "absent" =>
        /\ d.owner = IF Changed(u, "owner") THEN s["owner"] ELSE m.owner
        /\ d.bits = IF Changed(u, "mode") /\ EnsureOf(u) # "link" THEN s["mode"].bits ELSE m.bits
        /\ d.target = m.target
        /\ EnsureOf(u) = "file" /\ s["content"] # None => d.content = s["content"]
  BY FinalFacts
<1>5. EnsureOf(u) = "link" => m.target = s["target"]
  BY DEF MadeEntry, Dirent
<1>6. KindAsAsked(e, u)
  <2>1. CASE s["ensure"] = None \/ s["ensure"] = "present"
    <3>1. None # "present"
      BY FileAssumption
    <3> HIDE DEF d, m
    <3> QED BY <1>2, <1>3, <1>4, <1>5, <2>1, <3>1 DEF KindAsAsked
  <2>2. CASE s["ensure"] \notin {None, "present"}
    <3> HIDE DEF d, m
    <3> QED BY <1>2, <1>3, <1>4, <1>5, <2>2 DEF KindAsAsked
  <2> QED BY <2>1, <2>2
<1>7. \A a : s[a] # None /\ ~ Changed(u, a) => u.is.attrs[a] = s[a]
  BY DEF Changed
<1>8. EnsureOf(u) = StateOf(u) /\ EnsureOf(u) # "link" => m = g
  BY DEF MadeEntry
<1>9. u.is.attrs["owner"] = g.owner
  BY LoadOwner
<1>10. StateOf(u) = "absent" => g.owner = None /\ u.is.attrs["mode"] = None
  <2>1. g.type = "absent" => g.owner = None
    BY <1>1, EntryFacts DEF NoEntry, Dirent
  <2> QED BY <2>1, LoadMode
<1>11. Applied(u, "owner") => OwnerAsAsked(e, u)
  <2> SUFFICES ASSUME Applied(u, "owner"), s["owner"] # None, EnsureOf(u) # "absent"
               PROVE  e.owner = s["owner"]
    BY DEF OwnerAsAsked
  <2>1. CASE Changed(u, "owner")
    BY <1>2, <1>4, <2>1
  <2>2. CASE ~ Changed(u, "owner")
    <3>1. g.owner = s["owner"] /\ m = g
      BY <1>7, <1>8, <1>9, <1>10, <2>2 DEF Applied
    <3> QED BY <1>2, <1>4, <2>2, <3>1
  <2> QED BY <2>1, <2>2
<1>12. Applied(u, "mode") /\ strict => ModeAsAsked(e, u)
  <2> SUFFICES ASSUME Applied(u, "mode"), strict, s["mode"] # None, EnsureOf(u) \notin {"absent", "link"}
               PROVE  e.bits = s["mode"].bits
    BY DEF ModeAsAsked
  <2>1. CASE Changed(u, "mode")
    BY <1>2, <1>4, <2>1
  <2>2. CASE ~ Changed(u, "mode")
    <3>1. u.is.attrs["mode"] = s["mode"] /\ m = g
      BY <1>7, <1>8, <1>10, <2>2 DEF Applied
    <3>2. g.type # "absent"
      BY <1>10, <3>1
    <3>3. u.is.attrs["mode"] = ModeString(g.bits, TRUE)
      BY <3>2, LoadMode
    <3>4. s["mode"].bits = g.bits
      BY <3>1, <3>3 DEF ModeString
    <3> QED BY <1>2, <1>4, <2>2, <3>1, <3>4
  <2> QED BY <2>1, <2>2
<1> QED BY <1>6, <1>11, <1>12

\* Every update processed has brought its file to the state asked for, and no
\* later one has undone it, whatever becomes of the call (provider.hpp 79).
THEOREM ConvergedHolds == Spec => []Converged
<1>1. IndInv /\ PlainInv => Converged
  <2> SUFFICES ASSUME IndInv, PlainInv, Plain, NEW i \in DOMAIN upds, i < next
               PROVE  LET u == upds[i]
                          e == fs[PathOf(u)]
                      IN  /\ KindAsAsked(e, u)
                          /\ Applied(u, "owner") => OwnerAsAsked(e, u)
                          /\ Applied(u, "mode") /\ NoModeOnLinks => ModeAsAsked(e, u)
    BY DEF Converged
  <2> DEFINE u == upds[i]
  <2>1. /\ u \in UpdatesOf(found) /\ PathOf(u) \in Path /\ found \in FileSystem
        /\ u.is = Load(found, PathOf(u)) /\ StateOf(u) = found[PathOf(u)].type
        /\ EnsureOf(u) \in Makeable /\ Like(NoModeOnLinks, fs[PathOf(u)], FinalEntry(found, u))
    BY DoneFacts
  <2> HIDE DEF u
  <2>2. /\ KindAsAsked(fs[PathOf(u)], u)
        /\ Applied(u, "owner") => OwnerAsAsked(fs[PathOf(u)], u)
        /\ Applied(u, "mode") /\ NoModeOnLinks => ModeAsAsked(fs[PathOf(u)], u)
    BY <2>1, FinalAsAsked
  <2> QED BY <2>2 DEF u
<1> QED BY <1>1, IndInvHolds, PlainInvHolds, PTL

\* The changes a list tells.
Told(c) == {c[k] : k \in DOMAIN c}

LEMMA ToldAppend ==
  ASSUME NEW S, NEW c \in Seq(S), NEW x
  PROVE  Told(Append(c, x)) = Told(c) \cup {x} /\ Append(c, x) # <<>>
<1>1. DOMAIN c = 1..Len(c) /\ Len(c) \in Nat /\ DOMAIN Append(c, x) = 1..(Len(c) + 1)
      /\ Append(c, x)[Len(c) + 1] = x /\ \A i \in 1..Len(c) : Append(c, x)[i] = c[i]
  OBVIOUS
<1>2. \A i \in 1..(Len(c) + 1) : i \in 1..Len(c) \/ i = Len(c) + 1
  BY <1>1
<1>3. Len(c) + 1 \in 1..(Len(c) + 1) /\ \A i \in 1..Len(c) : i \in 1..(Len(c) + 1)
  BY <1>1
<1>4. Told(Append(c, x)) = Told(c) \cup {x}
  <2>1. \A y : y \in Told(Append(c, x)) <=> \E i \in 1..(Len(c) + 1) : y = Append(c, x)[i]
    BY <1>1 DEF Told
  <2>2. \A y : y \in Told(c) <=> \E i \in 1..Len(c) : y = c[i]
    BY <1>1 DEF Told
  <2>3. \A y \in Told(Append(c, x)) : y \in Told(c) \cup {x}
    BY <1>1, <1>2, <2>1, <2>2
  <2>4. \A y \in Told(c) : y \in Told(Append(c, x))
    BY <1>1, <1>3, <2>1, <2>2
  <2>5. x \in Told(Append(c, x))
    BY <1>1, <1>3, <2>1
  <2> QED BY <2>3, <2>4, <2>5
<1>5. DOMAIN <<>> = {}
  OBVIOUS
<1>6. Append(c, x) # <<>>
  BY <1>1, <1>3, <1>5
<1> QED BY <1>4, <1>6

LEMMA ToldDiff ==
  ASSUME NEW f \in FileSystem, NEW u \in UpdatesOf(f), NEW c \in Seq(Noted),
         NEW a \in {"owner", "mode", "target"}
  PROVE  /\ Changed(u, a) => /\ Told(AddDiff(c, a, u)) =
                                 Told(c) \cup {Change(a, u.should.attrs[a], u.is.attrs[a])}
                             /\ AddDiff(c, a, u) # <<>>
         /\ ~ Changed(u, a) => AddDiff(c, a, u) = c
BY ToldAppend DEF AddDiff

\* Every change that the finished list tells, and why; and an empty list.
LEMMA FinalTold ==
  ASSUME NEW f \in FileSystem, NEW u \in UpdatesOf(f), EnsureOf(u) \in Makeable
  PROVE  /\ \A x \in Told(FinalNotes(f, u)) :
              \/ x = Change("ensure", EnsureOf(u), "absent") /\ EnsureOf(u) # StateOf(u)
              \/ /\ EnsureOf(u) # "absent"
                 /\ \/ /\ EnsureOf(u) = "link" /\ Changed(u, "target")
                       /\ x = Change("target", u.should.attrs["target"], u.is.attrs["target"])
                    \/ \E a \in {"owner", "mode"} :
                         Changed(u, a) /\ x = Change(a, u.should.attrs[a], u.is.attrs[a])
                    \/ /\ EnsureOf(u) = "file" /\ u.should.attrs["content"] # None
                       /\ u.should.attrs["content"] # ModedEntry(f, u).content
                       /\ x = Change("content", u.should.attrs["content"], ModedEntry(f, u).content)
         /\ FinalNotes(f, u) = <<>> =>
              /\ EnsureOf(u) = StateOf(u)
              /\ EnsureOf(u) # "absent" =>
                   /\ ~ Changed(u, "owner") /\ ~ Changed(u, "mode")
                   /\ \/ EnsureOf(u) # "file" \/ u.should.attrs["content"] = None
                      \/ u.should.attrs["content"] = ModedEntry(f, u).content
<1> DEFINE rt == RetypedNotes(u)
           md == MadeNotes(u)
           ow == AddDiff(md, "owner", u)
           me == AddMetadata(md, u)
           fn == FinalNotes(f, u)
           diff(a) == Change(a, u.should.attrs[a], u.is.attrs[a])
           en == Change("ensure", EnsureOf(u), "absent")
           co == Change("content", u.should.attrs["content"], ModedEntry(f, u).content)
<1>1. rt \in Seq(Noted) /\ md \in Seq(Noted) /\ ow \in Seq(Noted) /\ me \in Seq(Noted)
  BY MadeNotesFacts, DiffType
<1>2. (Told(rt) \subseteq {en}) /\ (EnsureOf(u) = StateOf(u) => Told(rt) = {} /\ rt = <<>>)
      /\ (rt = <<>> => EnsureOf(u) = StateOf(u))
  <2>1. Told(<<>>) = {} /\ Told(<<en>>) = {en} /\ <<en>> # <<>>
    BY DEF Told
  <2> QED BY <2>1 DEF RetypedNotes
<1>3. \/ md = rt
      \/ /\ EnsureOf(u) = "link" /\ Changed(u, "target") /\ md # <<>>
         /\ Told(md) = Told(rt) \cup {diff("target")}
  BY <1>1, ToldDiff DEF MadeNotes
<1>4. \/ ~ Changed(u, "owner") /\ ow = md
      \/ Changed(u, "owner") /\ Told(ow) = Told(md) \cup {diff("owner")} /\ ow # <<>>
  BY <1>1, ToldDiff
<1>5. \/ ~ Changed(u, "mode") /\ me = ow
      \/ Changed(u, "mode") /\ Told(me) = Told(ow) \cup {diff("mode")} /\ me # <<>>
  BY <1>1, ToldDiff DEF AddMetadata
<1>6. \/ EnsureOf(u) = "absent" /\ fn = rt
      \/ /\ EnsureOf(u) = "file" /\ u.should.attrs["content"] # None
         /\ u.should.attrs["content"] # ModedEntry(f, u).content
         /\ Told(fn) = Told(me) \cup {co} /\ fn # <<>>
      \/ /\ EnsureOf(u) # "absent" /\ fn = me
         /\ \/ EnsureOf(u) # "file" \/ u.should.attrs["content"] = None
            \/ u.should.attrs["content"] = ModedEntry(f, u).content
  BY <1>1, ToldAppend DEF FinalNotes
<1> HIDE DEF rt, md, ow, me, fn, diff, en, co
<1>7. \A x \in Told(rt) : x = en /\ EnsureOf(u) # StateOf(u)
  BY <1>2
<1>8. \A x \in Told(md) : x \in Told(rt)
                       \/ (EnsureOf(u) = "link" /\ Changed(u, "target") /\ x = diff("target"))
  BY <1>3
<1>9. \A x \in Told(me) : x \in Told(md) \/ (Changed(u, "owner") /\ x = diff("owner"))
                       \/ (Changed(u, "mode") /\ x = diff("mode"))
  BY <1>4, <1>5
<1>10. \A x \in Told(fn) :
         \/ x = en /\ EnsureOf(u) # StateOf(u)
         \/ /\ EnsureOf(u) # "absent"
            /\ \/ EnsureOf(u) = "link" /\ Changed(u, "target") /\ x = diff("target")
               \/ Changed(u, "owner") /\ x = diff("owner")
               \/ Changed(u, "mode") /\ x = diff("mode")
               \/ /\ EnsureOf(u) = "file" /\ u.should.attrs["content"] # None
                  /\ u.should.attrs["content"] # ModedEntry(f, u).content /\ x = co
  BY <1>6, <1>7, <1>8, <1>9
<1>11. fn = <<>> => EnsureOf(u) = StateOf(u)
         /\ (EnsureOf(u) # "absent" => ~ Changed(u, "owner") /\ ~ Changed(u, "mode")
              /\ (\/ EnsureOf(u) # "file" \/ u.should.attrs["content"] = None
                  \/ u.should.attrs["content"] = ModedEntry(f, u).content))
  BY <1>2, <1>3, <1>4, <1>5, <1>6
<1> QED BY <1>10, <1>11 DEF fn, diff, en, co

\* A change that is told is real.
LEMMA FinalReal ==
  ASSUME NEW f \in FileSystem, NEW g \in FileSystem, NEW u \in UpdatesOf(f), PathOf(u) \in Path,
         StateOf(u) = f[PathOf(u)].type, u.is = Load(f, PathOf(u)), EnsureOf(u) \in Makeable,
         g[PathOf(u)] = FinalEntry(f, u), Accepted(u, "done"), ~ ModeOnLink(u),
         u.should.attrs["mode"] \in {None, BadMode} \/ u.should.attrs["mode"].padded,
         NEW x \in Told(FinalNotes(f, u))
  PROVE  Shown(g, PathOf(u), x.attr) = x.is /\ Shown(f, PathOf(u), x.attr) # x.is
<1> DEFINE s == u.should.attrs
           q == PathOf(u)
           d == f[q]
           e == FinalEntry(f, u)
           m == MadeEntry(f, u)
<1>1. d \in Entries /\ d.type \in Kinds /\ u.should \in FileShould
  BY EntryFacts, UpdateFacts DEF FileSystem
<1>2. e.type = EnsureOf(u)
  BY FinalFacts
<1>3. EnsureOf(u) # "absent" =>
        /\ e.owner = IF Changed(u, "owner") THEN s["owner"] ELSE m.owner
        /\ e.bits = IF Changed(u, "mode") /\ EnsureOf(u) # "link" THEN s["mode"].bits ELSE m.bits
        /\ e.target = m.target
        /\ EnsureOf(u) = "file" /\ s["content"] # None => e.content = s["content"]
        /\ ModedEntry(f, u).content = m.content
  BY FinalFacts
<1>4. /\ \A h : /\ Shown(h, q, "owner") = h[q].owner /\ Shown(h, q, "target") = h[q].target
                /\ Shown(h, q, "content") = h[q].content
                /\ h[q].type # "absent" => Shown(h, q, "mode") = ModeString(h[q].bits, TRUE)
                /\ h[q].type # "special" => Shown(h, q, "ensure") = h[q].type
                /\ h[q].type = "special" => Shown(h, q, "ensure") = "present"
  BY LoadOwner, LoadTarget, LoadMode, LoadEnsure DEF Shown
<1>5. \A a \in {"owner", "target", "mode"} : u.is.attrs[a] = Shown(f, q, a)
  BY DEF Shown
<1>6. \A a : Changed(u, a) => s[a] # None /\ u.is.attrs[a] # s[a]
  BY DEF Changed
<1>7. CASE x = Change("ensure", EnsureOf(u), "absent") /\ EnsureOf(u) # StateOf(u)
  <2>1. Shown(g, q, "ensure") = EnsureOf(u)
    BY <1>2, <1>4 DEF Makeable
  <2>2. Shown(f, q, "ensure") # EnsureOf(u)
    BY <1>4, <1>7 DEF Makeable
  <2> QED BY <1>7, <2>1, <2>2 DEF Change
<1>8. CASE EnsureOf(u) # "absent" /\ EnsureOf(u) = "link" /\ Changed(u, "target")
           /\ x = Change("target", s["target"], u.is.attrs["target"])
  <2>1. m.target = s["target"]
    BY <1>8 DEF MadeEntry, Dirent
  <2>2. Shown(g, q, "target") = s["target"]
    BY <1>3, <1>4, <1>8, <2>1
  <2>3. Shown(f, q, "target") # s["target"]
    BY <1>5, <1>6, <1>8
  <2> QED BY <1>8, <2>2, <2>3 DEF Change
<1>9. CASE EnsureOf(u) # "absent" /\ Changed(u, "owner")
           /\ x = Change("owner", s["owner"], u.is.attrs["owner"])
  <2>1. Shown(g, q, "owner") = s["owner"] /\ Shown(f, q, "owner") # s["owner"]
    BY <1>3, <1>4, <1>5, <1>6, <1>9
  <2> QED BY <1>9, <2>1 DEF Change
<1>10. CASE EnsureOf(u) # "absent" /\ Changed(u, "mode")
            /\ x = Change("mode", s["mode"], u.is.attrs["mode"])
  <2>1. s["mode"] # None /\ EnsureOf(u) # "link" /\ s["mode"].bits \in Bits
    BY <1>6, <1>10 DEF ModeOnLink, Accepted
  <2>2. s["mode"] # BadMode
    BY <2>1, FileAssumption DEF BadMode, ModeString
  <2>3. s["mode"] = ModeString(s["mode"].bits, TRUE)
    <3>1. s["mode"] \in {None, BadMode} \/ \E b \in Bits, pd \in BOOLEAN : s["mode"] = ModeString(b, pd)
      BY <1>1, ShouldFacts
    <3>2. PICK b \in Bits, pd \in BOOLEAN : s["mode"] = ModeString(b, pd)
      BY <2>1, <2>2, <3>1
    <3>3. s["mode"].padded
      BY <2>1, <2>2
    <3>4. s["mode"].padded = pd /\ s["mode"].bits = b
      BY <3>2 DEF ModeString
    <3>5. pd = TRUE
      BY <3>3, <3>4
    <3> QED BY <3>2, <3>4, <3>5
  <2>4. g[q].bits = s["mode"].bits /\ g[q].type # "absent"
    BY <1>2, <1>3, <1>10, <2>1
  <2>5. Shown(g, q, "mode") = s["mode"] /\ Shown(f, q, "mode") # s["mode"]
    BY <1>4, <1>5, <1>6, <1>10, <2>3, <2>4
  <2> QED BY <1>10, <2>5 DEF Change
<1>11. CASE /\ EnsureOf(u) # "absent" /\ EnsureOf(u) = "file" /\ s["content"] # None
            /\ s["content"] # ModedEntry(f, u).content
            /\ x = Change("content", s["content"], ModedEntry(f, u).content)
  <2>1. Shown(g, q, "content") = s["content"]
    BY <1>3, <1>4, <1>11
  <2>2. d.content # s["content"]
    <3>1. CASE EnsureOf(u) = StateOf(u)
      <4>1. m = d
        BY <1>11, <3>1 DEF MadeEntry
      <4> QED BY <1>3, <1>11, <4>1
    <3>2. CASE EnsureOf(u) # StateOf(u)
      BY <1>1, <1>11, <3>2, EntryFacts
    <3> QED BY <3>1, <3>2
  <2> QED BY <1>4, <1>11, <2>1, <2>2 DEF Change
<1> HIDE DEF s, e, m
<1> QED BY <1>7, <1>8, <1>9, <1>10, <1>11, FinalTold DEF s

\* Nothing told, nothing changed.
LEMMA FinalSilent ==
  ASSUME NEW f \in FileSystem, NEW u \in UpdatesOf(f), PathOf(u) \in Path,
         StateOf(u) = f[PathOf(u)].type, EnsureOf(u) \in Makeable, EnsureOf(u) # "link",
         FinalNotes(f, u) = <<>>
  PROVE  FinalEntry(f, u) = f[PathOf(u)]
<1> DEFINE d == f[PathOf(u)]
<1>1. d \in Entries /\ EnsureOf(u) = StateOf(u)
  BY FinalTold DEF FileSystem
<1>2. CASE EnsureOf(u) = "absent"
  BY <1>1, <1>2, EntryFacts DEF FinalEntry
<1>3. CASE EnsureOf(u) # "absent"
  <2>1. ~ Changed(u, "owner") /\ ~ Changed(u, "mode")
        /\ (\/ EnsureOf(u) # "file" \/ u.should.attrs["content"] = None
            \/ u.should.attrs["content"] = ModedEntry(f, u).content)
    BY <1>3, FinalTold
  <2>2. ModedEntry(f, u) = d
    BY <1>1, <2>1 DEF ModedEntry, OwnedEntry, MadeEntry
  <2>3. [d EXCEPT !.content = d.content] = d
    <3>1. PICK k, b, o, c, t : d = Dirent(k, b, o, c, t)
      BY <1>1 DEF Entries, NoEntry
    <3> QED BY <3>1 DEF Dirent
  <2> QED BY <1>3, <2>1, <2>2, <2>3 DEF FinalEntry
<1> QED BY <1>2, <1>3

\* After a successful call of a plain batch, every change it reports is real,
\* and a file it reports nothing of is as it was.
THEOREM ChangesTruthfulHolds == Spec => []ChangesTruthful
<1>1. IndInv /\ PlainInv => ChangesTruthful
  <2> SUFFICES ASSUME IndInv, PlainInv, Succeeded, Plain, NoModeOnLinks, NEW i \in DOMAIN upds
               PROVE  LET u == upds[i]
                          p == PathOf(u)
                      IN  /\ \A k \in DOMAIN Recorded(u) :
                               LET c == Recorded(u)[k]
                               IN  Shown(fs, p, c.attr) = c.is /\ Shown(found, p, c.attr) # c.is
                          /\ Recorded(u) = <<>> /\ EnsureOf(u) # "link" => fs[p] = found[p]
    BY DEF ChangesTruthful
  <2> DEFINE u == upds[i]
             p == PathOf(u)
  <2>1. i < next
    BY DEF IndInv, BatchOK, StageOK
  <2>2. /\ u \in UpdatesOf(found) /\ p \in Path /\ found \in FileSystem /\ u.is = Load(found, p)
        /\ StateOf(u) = found[p].type /\ EnsureOf(u) \in Makeable
        /\ Like(NoModeOnLinks, fs[p], FinalEntry(found, u))
        /\ Recorded(u) = FinalNotes(found, u) /\ Accepted(u, "done")
    BY <2>1, DoneFacts
  <2>3. fs \in FileSystem /\ fs[p] = FinalEntry(found, u)
    BY <2>2 DEF Like, IndInv, DiskOK
  <2>4. /\ ~ ModeOnLink(u)
        /\ u.should.attrs["mode"] \in {None, BadMode} \/ u.should.attrs["mode"].padded
    BY DEF NoModeOnLinks, Plain
  <2> HIDE DEF u
  <2>5. \A x \in Told(FinalNotes(found, u)) : Shown(fs, p, x.attr) = x.is /\ Shown(found, p, x.attr) # x.is
    BY <2>2, <2>3, <2>4, FinalReal
  <2>6. \A k \in DOMAIN Recorded(u) : Recorded(u)[k] \in Told(FinalNotes(found, u))
    BY <2>2 DEF Told
  <2>7. Recorded(u) = <<>> /\ EnsureOf(u) # "link" => fs[p] = found[p]
    BY <2>2, <2>3, FinalSilent
  <2> QED BY <2>5, <2>6, <2>7 DEF u
<1> QED BY <1>1, IndInvHolds, PlainInvHolds, PTL

-----------------------------------------------------------------------------
(* A call with nothing to do. *)

AllAsAsked ==
  \A i \in DOMAIN upds : EnsureOf(upds[i]) # "link" /\ AsAsked(found[PathOf(upds[i])], upds[i])

\* Idempotent, in every state of the call.
CalmInv ==
  Plain /\ AllAsAsked => fs = found /\ \A i \in DOMAIN upds : Recorded(upds[i]) = <<>>

\* An update whose file is as asked asks for no change.
LEMMA CalmUpdate ==
  ASSUME NEW f \in FileSystem, NEW u \in UpdatesOf(f), PathOf(u) \in Path,
         StateOf(u) = f[PathOf(u)].type, u.is = Load(f, PathOf(u)),
         EnsureOf(u) # "link", AsAsked(f[PathOf(u)], u),
         u.should.attrs["mode"] \in {None, BadMode} \/ u.should.attrs["mode"].padded
  PROVE  /\ EnsureOf(u) = StateOf(u)
         /\ EnsureOf(u) # "absent" => ~ Changed(u, "owner") /\ ~ Changed(u, "mode")
         /\ EnsureOf(u) = "file" /\ u.should.attrs["content"] # None =>
              f[PathOf(u)].content = u.should.attrs["content"]
<1> DEFINE s == u.should.attrs
           d == f[PathOf(u)]
<1>1. d \in Entries /\ u.should \in FileShould
  BY UpdateFacts DEF FileSystem
<1>2. s["ensure"] \in {None, "present"} \cup Makeable
  BY <1>1, ShouldFacts
<1>3. KindAsAsked(d, u) /\ OwnerAsAsked(d, u) /\ ModeAsAsked(d, u)
  BY DEF AsAsked
<1>4. EnsureOf(u) = StateOf(u)
  <2>1. CASE s["ensure"] = None
    BY <2>1, EnsureFacts
  <2>2. CASE s["ensure"] = "present" /\ s["ensure"] # None
    <3>1. d.type # "absent"
      BY <1>3, <2>2 DEF KindAsAsked
    <3> QED BY <2>2, <3>1, EnsureFacts
  <2>3. CASE s["ensure"] \notin {None, "present"}
    <3>1. d.type = s["ensure"]
      BY <1>3, <2>3 DEF KindAsAsked
    <3> QED BY <2>3, <3>1, EnsureFacts
  <2> QED BY <2>1, <2>2, <2>3
<1>5. EnsureOf(u) # "absent" => ~ Changed(u, "owner")
  <2>1. u.is.attrs["owner"] = d.owner
    BY LoadOwner
  <2> QED BY <1>3, <2>1 DEF OwnerAsAsked, Changed
<1>6. ASSUME EnsureOf(u) # "absent" PROVE ~ Changed(u, "mode")
  <2> SUFFICES ASSUME s["mode"] # None PROVE u.is.attrs["mode"] = s["mode"]
    BY DEF Changed
  <2>1. u.is.attrs["mode"] = ModeString(d.bits, TRUE)
    BY <1>4, <1>6, LoadMode
  <2>2. d.bits = s["mode"].bits
    BY <1>3, <1>6 DEF ModeAsAsked
  <2>3. d.bits \in Bits
    <3>1. d.type \in {"file", "directory", "special"}
      BY <1>1, <1>4, <1>6, EntryFacts DEF Kinds
    <3> QED BY <1>1, <3>1, EntryFacts
  <2>4. s["mode"] # BadMode
    BY <2>2, <2>3, FileAssumption DEF BadMode, ModeString
  <2>5. PICK b \in Bits, pd \in BOOLEAN : s["mode"] = ModeString(b, pd)
    BY <1>1, <2>4, ShouldFacts
  <2>6. s["mode"].padded = pd /\ s["mode"].bits = b
    BY <2>5 DEF ModeString
  <2>7. pd = TRUE
    BY <2>4, <2>6
  <2> QED BY <2>1, <2>2, <2>5, <2>6, <2>7
<1>7. EnsureOf(u) = "file" /\ s["content"] # None => d.content = s["content"]
  BY <1>3 DEF KindAsAsked
<1> QED BY <1>4, <1>5, <1>6, <1>7

\* The update in hand of such a call.
LEMMA CalmInHand ==
  ASSUME IndInv, Plain, AllAsAsked, next \in DOMAIN upds
  PROVE  LET u == upds[next] IN
         /\ EnsureOf(u) = StateOf(u) /\ EnsureOf(u) # "link"
         /\ EnsureOf(u) # "absent" => AddMetadata(<<>>, u) = <<>>
         /\ EnsureOf(u) = "file" =>
              /\ found[PathOf(u)].type = "file"
              /\ u.should.attrs["content"] # None =>
                   found[PathOf(u)].content = u.should.attrs["content"]
<1> DEFINE u == upds[next]
<1>1. DiskOK /\ BatchOK
  BY DEF IndInv
<1>2. /\ u \in UpdatesOf(found) /\ found \in FileSystem /\ PathOf(u) \in Path
      /\ u.is = Load(found, PathOf(u)) /\ StateOf(u) = found[PathOf(u)].type
  BY <1>1, PlainFacts
<1>3. EnsureOf(u) # "link" /\ AsAsked(found[PathOf(u)], u)
  BY DEF AllAsAsked
<1>4. u.should.attrs["mode"] \in {None, BadMode} \/ u.should.attrs["mode"].padded
  BY DEF Plain
<1> HIDE DEF u
<1>5. /\ EnsureOf(u) = StateOf(u)
      /\ EnsureOf(u) # "absent" => ~ Changed(u, "owner") /\ ~ Changed(u, "mode")
      /\ EnsureOf(u) = "file" /\ u.should.attrs["content"] # None =>
           found[PathOf(u)].content = u.should.attrs["content"]
  BY <1>2, <1>3, <1>4, CalmUpdate
<1> QED BY <1>2, <1>3, <1>5 DEF AddMetadata, AddDiff, u

LEMMA AskedSame ==
  ASSUME UNCHANGED <<upds, found>>
  PROVE  AllAsAsked' = AllAsAsked
BY DEF AllAsAsked, AsAsked, KindAsAsked, OwnerAsAsked, ModeAsAsked, EnsureOf, StateOf, Lookup,
       PathOf, UpdateName

LEMMA NextCalm ==
  ASSUME IndInv, CalmInv, FileStep, Plain', AllAsAsked'
  PROVE  fs' = found' /\ \A i \in DOMAIN upds' : Recorded(upds[i])' = <<>>
<1> DEFINE u == upds[next]
<1>1. UNCHANGED <<upds, found>> /\ StageOK /\ DiskOK /\ BatchOK
  BY DEF IndInv, FileStep, Begin, RemoveOld, CreateFile, CreateDirectory, UpdateTarget, Symlink,
         UpdateOwner, UpdateMode, UpdateContent, IllegalEnsure, SystemCallFails, UpdateDone, Finish
<1>2. Plain /\ AllAsAsked
  <2> QED BY <1>1, PlainSame, AskedSame
<1>3. fs = found /\ \A i \in DOMAIN upds : Recorded(upds[i]) = <<>>
  BY <1>2 DEF CalmInv
<1>4. next \in DOMAIN upds =>
        /\ EnsureOf(u) = StateOf(u) /\ EnsureOf(u) # "link"
        /\ EnsureOf(u) # "absent" => AddMetadata(<<>>, u) = <<>>
        /\ EnsureOf(u) = "file" =>
             /\ found[PathOf(u)].type = "file"
             /\ u.should.attrs["content"] # None => found[PathOf(u)].content = u.should.attrs["content"]
  BY <1>2, CalmInHand
<1>5. pc \in Working => next \in DOMAIN upds /\ Fits(u, pc)
  BY <1>1 DEF StageOK
<1>6. ~ RemoveOld /\ ~ CreateFile /\ ~ CreateDirectory /\ ~ UpdateTarget /\ ~ Symlink
  BY <1>4, <1>5 DEF RemoveOld, CreateFile, CreateDirectory, UpdateTarget, Symlink, Updating, Fits, Working
<1>7. Exists(<<>>, "owner") = FALSE /\ Exists(<<>>, "mode") = FALSE
  BY DEF Exists
<1>8. fs' = fs /\ (UNCHANGED chgs \/ (next \in DOMAIN upds /\ Record(u, <<>>)))
  <2>1. CASE Begin
    <3>1. next \in DOMAIN upds /\ EnsureOf(u) = StateOf(u) /\ Recorded(u) = <<>> /\ fs' = fs
      BY <1>3, <1>4, <2>1 DEF Begin, Updating
    <3> QED BY <2>1, <3>1 DEF Begin
  <2>2. CASE UpdateOwner
    <3>1. next \in DOMAIN upds /\ pc = "owner" /\ Recorded(u) = <<>>
      BY <1>3, <2>2 DEF UpdateOwner, Updating
    <3>2. EnsureOf(u) # "absent"
      BY <1>5, <3>1 DEF Fits, Working
    <3>3. AddMetadata(Recorded(u), u) = <<>>
      BY <1>4, <3>1, <3>2
    <3> QED BY <1>7, <2>2, <3>1, <3>3 DEF UpdateOwner
  <2>3. CASE UpdateMode
    <3>1. Recorded(u) = <<>>
      BY <1>3, <2>3 DEF UpdateMode, Updating
    <3> QED BY <1>7, <2>3, <3>1 DEF UpdateMode
  <2>4. CASE UpdateContent
    <3>1. next \in DOMAIN upds /\ pc = "content" /\ EnsureOf(u) = "file"
      BY <1>5, <2>4 DEF UpdateContent, Updating, Fits, Working
    <3>2. PathOf(u) \in Path /\ fs \in FileSystem
      BY <1>1, <3>1, InHand DEF DiskOK
    <3>3. Reached(fs, PathOf(u)) = "file" /\ Deref(fs, PathOf(u)) = PathOf(u)
      BY <1>3, <1>4, <3>1, <3>2, ReachedFacts
    <3> QED BY <1>3, <1>4, <2>4, <3>1, <3>3 DEF UpdateContent
  <2>5. CASE SystemCallFails
    <3>1. fs' = fs /\ (UNCHANGED chgs \/ (pc = "owner" /\ Record(u, AddMetadata(Recorded(u), u))))
      BY <2>5 DEF SystemCallFails
    <3>2. pc = "owner" => next \in DOMAIN upds /\ EnsureOf(u) # "absent"
      BY <1>5 DEF Fits, Working
    <3>3. pc = "owner" => AddMetadata(Recorded(u), u) = <<>>
      BY <1>3, <1>4, <3>2
    <3> QED BY <3>1, <3>2, <3>3
  <2>6. CASE IllegalEnsure \/ UpdateDone \/ Finish
    BY <2>6 DEF IllegalEnsure, UpdateDone, Finish
  <2> QED BY <1>6, <2>1, <2>2, <2>3, <2>4, <2>5, <2>6 DEF FileStep
<1>9. \A i \in DOMAIN upds : chgs'[UpdateName(upds[i])] = <<>>
  <2>1. \A i \in DOMAIN upds : chgs[UpdateName(upds[i])] = <<>> /\ UpdateName(upds[i]) \in Name
    BY <1>2, <1>3 DEF Recorded, Plain, Name
  <2>2. DOMAIN chgs = Name
    BY DEF IndInv, NotesOK
  <2>3. CASE UNCHANGED chgs
    BY <2>1, <2>3
  <2>4. CASE next \in DOMAIN upds /\ Record(u, <<>>)
    BY <2>1, <2>2, <2>4 DEF Record
  <2> QED BY <1>8, <2>3, <2>4
<1> QED BY <1>1, <1>3, <1>8, <1>9 DEF Recorded, UpdateName

\* A call all of whose files are as asked changes and reports nothing
\* (README 16-17), for every batch Plain describes without links.
THEOREM IdempotentHolds == Spec => []Idempotent
<1>1. Init => CalmInv
  BY DEF Init, CalmInv
<1>2. IndInv /\ CalmInv /\ [Next]_vars => CalmInv'
  <2> SUFFICES ASSUME IndInv, CalmInv, [Next]_vars PROVE CalmInv'
    OBVIOUS
  <2>1. CASE FileStep
    BY <2>1, NextCalm DEF CalmInv
  <2>2. CASE Release
    BY <2>2 DEF Release, CalmInv
  <2>3. CASE \E shoulds \in Calls : Call(shoulds)
    <3> SUFFICES ASSUME NEW shoulds \in Calls, Call(shoulds), Plain'
                 PROVE  fs' = found' /\ \A i \in DOMAIN upds' : Recorded(upds[i])' = <<>>
      BY <2>3 DEF CalmInv
    <3>1. fs' = found' /\ chgs' = [n \in Name |-> <<>>]
      BY DEF Call
    <3>2. \A i \in DOMAIN upds' : UpdateName(upds[i])' \in Name
      BY DEF Plain, Name
    <3> QED BY <3>1, <3>2 DEF Recorded
  <2>4. CASE UNCHANGED vars
    <3>1. /\ UNCHANGED <<fs, upds, chgs, found>> /\ Plain' = Plain /\ AllAsAsked' = AllAsAsked
      BY <2>4, PlainSame, AskedSame DEF vars
    <3>2. (\A i \in DOMAIN upds : Recorded(upds[i]) = <<>>)' = (\A i \in DOMAIN upds : Recorded(upds[i]) = <<>>)
      BY <3>1 DEF Recorded, UpdateName
    <3> QED BY <3>1, <3>2 DEF CalmInv
  <2> QED BY <2>1, <2>2, <2>3, <2>4 DEF Next
<1>3. CalmInv => Idempotent
  BY DEF CalmInv, Idempotent, AllAsAsked
<1> QED BY <1>1, <1>2, <1>3, IndInvHolds, PTL DEF Spec
=============================================================================
