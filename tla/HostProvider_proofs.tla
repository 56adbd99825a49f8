------------------------- MODULE HostProvider_proofs -------------------------
(* Proofs about HostProvider, for all hosts, addresses, aliases and batches.  *)
EXTENDS HostProvider, Lists_proofs

-----------------------------------------------------------------------------
(* The inductive invariant. *)

HostNode ==
  [name: Host, numbered: BOOLEAN,
   data: [ip: Ip \cup {None}, aliases: Alias \cup {None}]]

\* The updates a call can make: get() and create() know each attribute of a host.
HostUpdate ==
  {u \in [is: [name: Host, attrs: [Attr -> {None, "present", "absent"} \cup Ip \cup Alias]],
          should: HostShould] :
     /\ u.is.attrs["ensure"] \in {None, "present", "absent"}
     /\ u.is.attrs["ip"] \in Ip \cup {None}
     /\ u.is.attrs["aliases"] \in Alias \cup {None}}

UpdsOK == upds \in Seq(HostUpdate)

\* The lines of a host in the tree, and in the tree as the call found it.
Read(n) == Lines(Text(tree), n)

Was(n) == Lines(Text(found.tree), n)

\* A host that is dealt with has the line the update asks for, or none.
AsAsked(u) ==
  Read(UpdateName(u)) = IF EnsureOf(u) = "absent" THEN <<>>
                        ELSE <<Entry(UpdateName(u), DataOf(u))>>

Made ==
  Distinct => \A i \in DOMAIN upds : i < next => AsAsked(upds[i])

\* No other host is touched.
Untouched ==
  pc # "idle" =>
    \A n \in Host : (\A i \in DOMAIN upds : UpdateName(upds[i]) # n) => Read(n) = Was(n)

\* The file is as the call found it until the tree is saved.
Saved ==
  /\ pc # "returned" => outcome = "none" /\ hosts = found.hosts
  /\ pc = "returned" => outcome # "none"
  /\ outcome \in {"error", "exception"} => hosts = found.hosts
  /\ Succeeded => hosts = Text(tree) /\ next \notin DOMAIN upds

Fresh == pc = "idle" => upds = <<>> /\ next = 1

IndInv == TypeOK /\ UpdsOK /\ Made /\ Untouched /\ Saved /\ Fresh

-----------------------------------------------------------------------------
(* What an update asks for. *)

LEMMA UpdateFacts ==
  ASSUME NEW u \in HostUpdate
  PROVE  /\ UpdateName(u) \in Host /\ UpdateName(u) # None
         /\ EnsureOf(u) \in {"present", "absent"}
         /\ DataOf(u) \in [ip: Ip \cup {None}, aliases: Alias \cup {None}]
         /\ \A numbered \in BOOLEAN : Node(UpdateName(u), DataOf(u), numbered) \in HostNode
<1>1. /\ u.is.name \in Host /\ u.should.attrs["ensure"] \in {None, "present", "absent"}
      /\ u.should.attrs["ip"] \in {None} \cup Ip
      /\ u.should.attrs["aliases"] \in {None} \cup Alias
      /\ u.is.attrs["ensure"] \in {None, "present", "absent"}
      /\ u.is.attrs["ip"] \in Ip \cup {None}
      /\ u.is.attrs["aliases"] \in Alias \cup {None}
  BY DEF HostUpdate, HostShould
<1>2. EnsureOf(u) \in {"present", "absent"}
  BY <1>1 DEF EnsureOf, StateOf, Lookup
<1>3. DataOf(u) \in [ip: Ip \cup {None}, aliases: Alias \cup {None}]
  BY <1>1 DEF DataOf, Desired, Lookup
<1> QED BY <1>1, <1>2, <1>3, HostAssumption DEF UpdateName, Node, HostNode

\* The updates that provider::set makes.
LEMMA CallUpdates ==
  ASSUME TypeOK, NEW shoulds \in Calls
  PROVE  Pair(shoulds, Resources([i \in DOMAIN shoulds |-> shoulds[i].name]), Attr) \in Seq(HostUpdate)
<1> DEFINE V == {None, "present", "absent"} \cup Ip \cup Alias
           R == {r \in [name: Host, attrs: [Attr -> V]] :
                   /\ r.attrs["ensure"] \in {None, "present", "absent"}
                   /\ r.attrs["ip"] \in Ip \cup {None}
                   /\ r.attrs["aliases"] \in Alias \cup {None}}
           names == [i \in DOMAIN shoulds |-> shoulds[i].name]
           lines == [i \in DOMAIN tree |->
                       Resource(tree[i].name, [ensure |-> "present", ip |-> tree[i].data.ip,
                                               aliases |-> tree[i].data.aliases])]
<1>1. shoulds \in Seq(HostShould)
  BY HostAssumption
<1>2. \A w \in HostShould : w.name \in Host
  BY DEF HostShould
<1>3. names \in Seq(Host)
  BY <1>1, <1>2
<1>4. lines \in Seq(R)
  <2>1. tree \in Seq(HostNode)
    BY DEF TypeOK, HostNode
  <2>2. \A x \in HostNode : Resource(x.name, [ensure |-> "present", ip |-> x.data.ip,
                                              aliases |-> x.data.aliases]) \in R
    BY DEF HostNode, Resource, Attr
  <2> HIDE DEF R
  <2>3. DOMAIN tree = 1..Len(tree) /\ Len(tree) \in Nat /\ \A i \in 1..Len(tree) : tree[i] \in HostNode
    BY <2>1
  <2> DEFINE rsrc(i) == Resource(tree[i].name, [ensure |-> "present", ip |-> tree[i].data.ip,
                                                aliases |-> tree[i].data.aliases])
  <2>4. \A i \in 1..Len(tree) : rsrc(i) \in R
    BY <2>2, <2>3
  <2> HIDE DEF rsrc
  <2>5. [i \in 1..Len(tree) |-> rsrc(i)] \in Seq(R)
    BY <2>3, <2>4
  <2> QED BY <2>3, <2>5 DEF rsrc
<1>5. \A n \in Host : Resource(n, [Blank(n, Attr).attrs EXCEPT !["ensure"] = "absent"]) \in R
  BY DEF Resource, Blank, Attr
<1>6. \A w \in HostShould : Update(Blank(w.name, Attr), w) \in HostUpdate
  BY <1>2 DEF Update, Blank, Resource, HostUpdate, Attr
<1>7. \A w \in HostShould, r \in R : Update(r, w) \in HostUpdate
  BY DEF Update, HostUpdate
<1> HIDE DEF R, lines, names
<1>8. AddAbsent(lines, names, Attr) \in Seq(R)
  BY <1>3, <1>4, <1>5, AddAbsentType
<1>9. Pair(shoulds, AddAbsent(lines, names, Attr), Attr) \in Seq(HostUpdate)
  BY <1>1, <1>6, <1>7, <1>8, PairType
<1> QED BY <1>9 DEF Resources, lines, names

-----------------------------------------------------------------------------
(* What each action does. *)

\* The update in hand, and the lines of its host.
LEMMA InHand ==
  ASSUME IndInv, Processing
  PROVE  /\ upds[next] \in HostUpdate /\ tree \in Seq(HostNode) /\ next \in Nat
         /\ Len(upds) \in Nat /\ DOMAIN upds = 1..Len(upds) /\ next + 1 \in 1..(Len(upds) + 1)
         /\ IsFiniteSet(Here) /\ (Here = {} <=> Read(UpdateName(upds[next])) = <<>>)
<1>1. upds \in Seq(HostUpdate) /\ next \in DOMAIN upds /\ tree \in Seq(HostNode)
  BY DEF IndInv, UpdsOK, TypeOK, HostNode, Processing
<1>2. /\ upds[next] \in HostUpdate /\ next \in Nat /\ Len(upds) \in Nat /\ DOMAIN upds = 1..Len(upds)
      /\ next + 1 \in 1..(Len(upds) + 1)
  BY <1>1
<1>3. /\ IsFiniteSet(Matches(tree, UpdateName(upds[next])))
      /\ Under(Text(tree), UpdateName(upds[next])) = <<>> <=> Matches(tree, UpdateName(upds[next])) = {}
  BY <1>1, TextMatches
<1> QED BY <1>1, <1>2, <1>3 DEF Here, Read, Lines

\* update_base leaves one line, as asked, and the other hosts alone.
LEMMA SetEffect ==
  ASSUME IndInv, SetHost, NEW u, u = upds[next], NEW n, n = UpdateName(u)
  PROVE  /\ tree' \in Seq(HostNode) /\ AsAsked(u)'
         /\ \A m \in Host : m # n => Read(m)' = Read(m)
<1>1. Processing /\ EnsureOf(u) = "present" /\ Cardinality(Here) <= 1 /\ Here = Matches(tree, n)
  BY DEF SetHost, Here
<1>2. u \in HostUpdate /\ tree \in Seq(HostNode) /\ IsFiniteSet(Here) /\ (Here = {} <=> Read(n) = <<>>)
  BY <1>1, InHand
<1>3. \A numbered \in BOOLEAN : Node(n, DataOf(u), numbered) \in HostNode
  BY <1>2, UpdateFacts
<1>4. tree' = IF Here = {} THEN AppendNode(tree, n, DataOf(u), garbage)
              ELSE Rewrite(tree, CHOOSE i \in Here : TRUE, n, DataOf(u))
  BY DEF SetHost
<1>5. CASE Here = {}
  <2> DEFINE w == AppendNode(tree, n, DataOf(u), garbage)
  <2>1. Node(n, DataOf(u), ~ garbage) \in HostNode
    BY <1>3
  <2>2. /\ w \in Seq(HostNode)
        /\ Under(Text(w), n) = Append(Under(Text(tree), n), Entry(n, DataOf(u)))
    BY <1>2, <2>1, TextAppend
  <2>3. \A m : m # n => Under(Text(w), m) = Under(Text(tree), m)
    BY <1>2, <2>1, TextAppend
  <2>4. Under(Text(tree), n) = <<>>
    BY <1>2, <1>5 DEF Read, Lines
  <2>5. tree' = w
    BY <1>4, <1>5
  <2> HIDE DEF w
  <2>6. \A x : Append(<<>>, x) = <<x>>
    OBVIOUS
  <2>7. Under(Text(w), n) = <<Entry(n, DataOf(u))>>
    BY <2>2, <2>4, <2>6
  <2> QED BY <1>1, <2>2, <2>3, <2>5, <2>7 DEF AsAsked, Read, Lines
<1>6. CASE Here # {}
  <2>1. PICK i : Here = {i}
    <3>1. Cardinality(Here) \in Nat /\ Cardinality(Here) # 0
      BY <1>2, <1>6, FS_CardinalityType, FS_EmptySet
    <3>2. Cardinality(Here) = 1
      BY <1>1, <3>1
    <3> QED BY <1>2, <3>2, FS_Singleton
  <2> DEFINE w == Rewrite(tree, i, n, DataOf(u))
  <2>2. tree' = w
    <3>1. (CHOOSE j \in Here : TRUE) = i
      BY <2>1
    <3> QED BY <1>4, <1>6, <3>1
  <2>3. i \in Matches(tree, n) /\ \A j \in Matches(tree, n) : j = i
    BY <1>1, <2>1
  <2>4. \A x \in HostNode : Node(n, DataOf(u), x.numbered) \in HostNode
    BY <1>3 DEF HostNode
  <2>5. w \in Seq(HostNode) /\ Under(Text(w), n) = <<Entry(n, DataOf(u))>>
    BY <1>2, <2>3, <2>4, LinesAfterRewrite
  <2>6. \A m : m # n => Under(Text(w), m) = Under(Text(tree), m)
    BY <1>2, <2>3, <2>4, LinesAfterRewrite
  <2> HIDE DEF w
  <2> QED BY <1>1, <2>2, <2>5, <2>6 DEF AsAsked, Read, Lines
<1> QED BY <1>5, <1>6

\* The removal leaves no line, and the other hosts alone.
LEMMA RemoveEffect ==
  ASSUME IndInv, RemoveHost, NEW u, u = upds[next], NEW n, n = UpdateName(u)
  PROVE  /\ tree' \in Seq(HostNode) /\ AsAsked(u)'
         /\ \A m \in Host : m # n => Read(m)' = Read(m)
<1>1. Processing /\ EnsureOf(u) = "absent" /\ tree' = Rm(tree, n)
  BY DEF RemoveHost
<1>2. tree \in Seq(HostNode)
  BY <1>1, InHand
<1> DEFINE w == Rm(tree, n)
<1>3. w \in Seq(HostNode) /\ Under(Text(w), n) = <<>>
  BY <1>2, LinesAfterRm
<1>4. \A m : m # n => Under(Text(w), m) = Under(Text(tree), m)
  BY <1>2, LinesAfterRm
<1> HIDE DEF w
<1>5. tree' = w
  BY <1>1 DEF w
<1> QED BY <1>1, <1>3, <1>4, <1>5 DEF AsAsked, Read, Lines

-----------------------------------------------------------------------------
(* The inductive invariant is kept. *)

\* An update that is made.
LEMMA UpdateStep ==
  ASSUME IndInv, SetHost \/ RemoveHost
  PROVE  IndInv'
<1>1. PICK u : u = upds[next]
  OBVIOUS
<1>2. PICK n : n = UpdateName(u)
  OBVIOUS
<1>3. /\ Processing /\ next' = next + 1 /\ UNCHANGED <<hosts, garbage, pc, upds, outcome, found>>
  BY DEF SetHost, RemoveHost
<1>4. /\ tree' \in Seq(HostNode) /\ AsAsked(u)' /\ \A m \in Host : m # n => Read(m)' = Read(m)
  BY <1>1, <1>2, SetEffect, RemoveEffect
<1>5. /\ next \in DOMAIN upds /\ next \in Nat /\ next + 1 \in 1..(Len(upds) + 1)
      /\ DOMAIN upds = 1..Len(upds) /\ Len(upds) \in Nat /\ upds \in Seq(HostUpdate)
  BY <1>3, InHand DEF Processing, IndInv, UpdsOK
<1>6. \A i \in DOMAIN upds : upds[i] \in HostUpdate /\ UpdateName(upds[i]) \in Host
  BY <1>5, UpdateFacts
<1>7. TypeOK' /\ UpdsOK'
  BY <1>3, <1>4, <1>5 DEF IndInv, TypeOK, UpdsOK, HostNode
<1>8. Made'
  <2> SUFFICES ASSUME Distinct, NEW i \in DOMAIN upds, i < next + 1 PROVE AsAsked(upds[i])'
    BY <1>3 DEF Made, Distinct
  <2>1. CASE i = next
    BY <1>1, <1>3, <1>4, <2>1
  <2>2. CASE i # next
    <3>1. i < next /\ AsAsked(upds[i])
      BY <1>5, <2>2 DEF IndInv, Made
    <3>2. UpdateName(upds[i]) # n /\ UpdateName(upds[i]) \in Host
      BY <1>1, <1>2, <1>5, <1>6, <2>2 DEF Distinct
    <3>3. PICK v : v = upds[i]
      OBVIOUS
    <3>4. Read(UpdateName(v))' = Read(UpdateName(v))
      BY <1>4, <3>2, <3>3
    <3>5. AsAsked(v)'
      BY <3>1, <3>3, <3>4 DEF AsAsked
    <3> QED BY <1>3, <3>3, <3>5
  <2> QED BY <2>1, <2>2
<1>9. Untouched'
  <2> SUFFICES ASSUME pc # "idle", NEW m \in Host, \A i \in DOMAIN upds : UpdateName(upds[i]) # m
               PROVE  Read(m)' = Was(m)'
    BY <1>3 DEF Untouched
  <2>1. Read(m) = Was(m) /\ m # n
    BY <1>1, <1>2, <1>5 DEF IndInv, Untouched
  <2> QED BY <1>3, <1>4, <2>1 DEF Was
<1>10. Saved' /\ Fresh'
  BY <1>3 DEF IndInv, Saved, Fresh, Processing, Succeeded
<1> QED BY <1>7, <1>8, <1>9, <1>10 DEF IndInv

\* A call that ends, well or not.
LEMMA EndStep ==
  ASSUME IndInv, SeveralLines \/ Finish \/ SaveFails
  PROVE  IndInv'
<1>1. /\ pc = "set" /\ pc' = "returned" /\ UNCHANGED <<tree, garbage, upds, next, found>>
      /\ \/ outcome' \in {"error", "exception"} /\ hosts' = hosts
         \/ outcome' = "ok" /\ hosts' = Text(tree) /\ next \notin DOMAIN upds /\ Puttable(tree, Data)
  BY DEF SeveralLines, Finish, SaveFails, Give, Processing
<1>2. hosts' \in Seq([name: Host, data: Data])
  <2>1. CASE hosts' = hosts
    BY <2>1 DEF IndInv, TypeOK
  <2>2. CASE hosts' = Text(tree) /\ Puttable(tree, Data)
    <3>1. tree \in Seq(HostNode)
      BY DEF IndInv, TypeOK, HostNode
    <3>2. DOMAIN tree = 1..Len(tree) /\ Len(tree) \in Nat /\ \A i \in 1..Len(tree) : tree[i] \in HostNode
      BY <3>1
    <3>3. \A i \in 1..Len(tree) : tree[i].name \in Host /\ tree[i].data \in Data
      BY <2>2, <3>2 DEF HostNode, Puttable
    <3> DEFINE line(i) == Entry(tree[i].name, tree[i].data)
    <3>4. \A i \in 1..Len(tree) : line(i) \in [name: Host, data: Data]
      BY <3>3 DEF Entry
    <3> HIDE DEF line
    <3>5. [i \in 1..Len(tree) |-> line(i)] \in Seq([name: Host, data: Data])
      BY <3>2, <3>4
    <3> QED BY <2>2, <3>2, <3>5 DEF Text, line
  <2> QED BY <1>1, <2>1, <2>2
<1>3. TypeOK' /\ UpdsOK'
  BY <1>1, <1>2 DEF IndInv, TypeOK, UpdsOK
<1>4. Made' /\ Untouched'
  BY <1>1 DEF IndInv, Made, Untouched, AsAsked, Read, Was, Distinct
<1>5. Saved' /\ Fresh'
  BY <1>1 DEF IndInv, Saved, Fresh, Succeeded
<1> QED BY <1>3, <1>4, <1>5 DEF IndInv

LEMMA CallStep ==
  ASSUME IndInv, NEW shoulds \in Calls, Call(shoulds)
  PROVE  IndInv'
<1>1. /\ pc = "idle" /\ pc' = "set" /\ UNCHANGED <<hosts, tree, garbage, next, chgs, outcome>>
      /\ upds' = Pair(shoulds, Resources([i \in DOMAIN shoulds |-> shoulds[i].name]), Attr)
      /\ found' = [hosts |-> hosts, tree |-> tree]
  BY DEF Call
<1>2. next = 1 /\ outcome = "none"
  BY <1>1 DEF IndInv, Fresh, Saved
<1>3. UpdsOK'
  BY <1>1, CallUpdates DEF UpdsOK, IndInv
<1>4. Len(upds') \in Nat /\ DOMAIN upds' = 1..Len(upds')
  BY <1>3 DEF UpdsOK
<1>5. TypeOK'
  BY <1>1, <1>2, <1>4 DEF IndInv, TypeOK
<1>6. Made'
  BY <1>1, <1>2, <1>4 DEF Made
<1>7. Untouched' /\ Saved' /\ Fresh'
  BY <1>1, <1>2 DEF Untouched, Saved, Fresh, Read, Was, Lines, Succeeded
<1> QED BY <1>3, <1>5, <1>6, <1>7 DEF IndInv

\* The tree a provider starts with is made of nodes.
LEMMA LoadedNodes ==
  ASSUME hosts \in Seq([name: Host, data: Data])
  PROVE  Loaded(hosts) \in Seq(HostNode)
<1>1. \A e \in [name: Host, data: Data] :
        Node(e.name, e.data, TRUE) \in HostNode /\ Entry(e.name, e.data) = e
  BY DEF Data, Node, HostNode, Entry
<1> QED BY <1>1, TextLoaded

LEMMA IdleStep ==
  ASSUME IndInv, Release \/ Restart
  PROVE  IndInv'
<1>1. /\ pc' = "idle" /\ upds' = <<>> /\ next' = 1 /\ outcome' = "none" /\ hosts' = hosts
      /\ found'.hosts = hosts
  BY DEF Release, Restart, IndInv, Fresh, Saved
<1>2. Len(upds') = 0 /\ DOMAIN upds' = {} /\ upds' \in Seq(HostUpdate)
  BY <1>1
<1>3. tree' \in Seq(HostNode)
  BY LoadedNodes DEF Release, Restart, IndInv, TypeOK, HostNode
<1>4. TypeOK' /\ UpdsOK'
  BY <1>1, <1>2, <1>3 DEF IndInv, TypeOK, UpdsOK, HostNode
<1>5. Made' /\ Untouched' /\ Saved' /\ Fresh'
  BY <1>1, <1>2 DEF Made, Untouched, Saved, Fresh, Succeeded
<1> QED BY <1>4, <1>5 DEF IndInv

LEMMA InitInv == Init => IndInv
<1> SUFFICES ASSUME Init PROVE IndInv
  OBVIOUS
<1>1. hosts \in Seq([name: Host, data: Data])
  <2> DEFINE L == [name: Host, data: Data]
  <2>1. PICK m \in 0..2 : hosts \in [1..m -> L]
    BY DEF Init, BoundedSeq, SeqOf
  <2> HIDE DEF L
  <2>2. hosts \in Seq(L)
    BY <2>1
  <2> QED BY <2>2 DEF L
<1>2. tree \in Seq(HostNode)
  BY <1>1, LoadedNodes DEF Init
<1>3. Len(upds) = 0 /\ DOMAIN upds = {} /\ upds \in Seq(HostUpdate)
  BY DEF Init
<1>4. TypeOK /\ UpdsOK
  BY <1>1, <1>2, <1>3 DEF Init, TypeOK, UpdsOK, HostNode
<1>5. Made /\ Untouched /\ Saved /\ Fresh
  BY <1>3 DEF Init, Made, Untouched, Saved, Fresh, Succeeded
<1> QED BY <1>4, <1>5 DEF IndInv

-----------------------------------------------------------------------------
(* The theorems. *)

\* Every reachable state satisfies the inductive invariant.
THEOREM IndInvHolds == Spec => []IndInv
<1>1. IndInv /\ [Next]_vars => IndInv'
  <2> SUFFICES ASSUME IndInv, [Next]_vars PROVE IndInv'
    OBVIOUS
  <2>1. CASE SetHost \/ RemoveHost
    BY <2>1, UpdateStep
  <2>2. CASE SeveralLines \/ Finish \/ SaveFails
    BY <2>2, EndStep
  <2>3. CASE Release \/ Restart
    BY <2>3, IdleStep
  <2>4. ASSUME NEW shoulds \in Calls, Call(shoulds) PROVE IndInv'
    BY <2>4, CallStep
  <2>5. CASE UNCHANGED vars
    BY <2>5 DEF vars, IndInv, TypeOK, UpdsOK, Made, Untouched, Saved, Fresh, AsAsked, Read, Was,
       Distinct, Succeeded
  <2> QED BY <2>1, <2>2, <2>3, <2>4, <2>5 DEF Next, HostStep
<1> QED BY <1>1, InitInv, PTL DEF Spec

\* The variables keep to their types, in calls on any file and any batch: every
\* node of the tree has the name of a host, erased or garbled by no call.
THEOREM TypeCorrect == Spec => []TypeOK
BY IndInvHolds, PTL DEF IndInv

\* A batch is written whole or not at all (set, host.cc 113-142).
THEOREM AllOrNothingHolds == Spec => []AllOrNothing
<1>1. IndInv => AllOrNothing
  BY DEF IndInv, Saved, AllOrNothing
<1> QED BY <1>1, IndInvHolds, PTL

\* The hosts a call does not name keep their lines: in the tree on every step,
\* and on disk when the tree is saved.
OthersKept ==
  pc # "idle" =>
    \A n \in Host : (\A i \in DOMAIN upds : UpdateName(upds[i]) # n) =>
      /\ Lines(Text(tree), n) = Lines(Text(found.tree), n)
      /\ Succeeded => Lines(hosts, n) = Lines(Text(found.tree), n)

\* On every step of every call the hosts it does not name keep their lines.
THEOREM OthersKeptHolds == Spec => []OthersKept
<1>1. IndInv => OthersKept
  BY DEF IndInv, Untouched, Saved, OthersKept, Read, Was
<1> QED BY <1>1, IndInvHolds, PTL

\* After a successful call each host is on disk as asked, on one line, whatever
\* calls failed before it.
THEOREM ConvergedHolds == Spec => []Converged
<1>1. IndInv => Converged
  <2> SUFFICES ASSUME IndInv, Succeeded, Distinct, NEW i \in DOMAIN upds
               PROVE  Lines(hosts, UpdateName(upds[i])) =
                        IF EnsureOf(upds[i]) = "absent" THEN <<>>
                        ELSE <<Entry(UpdateName(upds[i]), [ip |-> Desired(upds[i], "ip"),
                                                           aliases |-> Desired(upds[i], "aliases")])>>
    BY DEF Converged
  <2>1. hosts = Text(tree) /\ next \notin DOMAIN upds
    BY DEF IndInv, Saved
  <2>2. i < next
    <3>1. DOMAIN upds = 1..Len(upds) /\ Len(upds) \in Nat /\ next \in 1..(Len(upds) + 1)
      BY DEF IndInv, UpdsOK, TypeOK
    <3> QED BY <2>1, <3>1
  <2>3. AsAsked(upds[i])
    BY <2>2 DEF IndInv, Made
  <2> QED BY <2>1, <2>3 DEF AsAsked, Read, DataOf
<1> QED BY <1>1, IndInvHolds, PTL
=============================================================================
