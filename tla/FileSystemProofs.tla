-------------------------- MODULE FileSystemProofs --------------------------
(***************************************************************************)
(* Proofs of the invariants of FileSystem.                                  *)
(***************************************************************************)

EXTENDS FileSystem, SequenceTheorems, NaturalFacts

-----------------------------------------------------------------------------
(* The invariant *)

Names == {"root"} \cup UNION {Range(Disk[d]) : d \in Directories}

NodeRecords ==
  [name : Names, parent : Nat, childrenCreated : BOOLEAN, children : Seq(Nat),
   openFileDescriptors : Seq(Nat), fileBuffers : Seq({"data", "null"}), lost : Nat]

DescriptorRecords == [node : Nat, lost : BOOLEAN]

CallRecords == Lookups \cup {[op |-> "none"], [op |-> "read"], [op |-> "close"]}

ClientRecords ==
  [pc : {"idle", "walking", "listing", "reading"}, node : Nat, done : Nat, slept : BOOLEAN,
   fd : Nat, request : Requests \cup {NoRequest}, call : CallRecords,
   status : Statuses \cup {"none"}, held : SUBSET Nat, closed : SUBSET Nat, calls : Nat]

Failures == {"no", "not_implemented", "null_buffer", "beyond_buffer"}

\* The children of directory n are what is on the medium.
Lists(ns, n) ==
  /\ ns[n].name \in Directories
  /\ DOMAIN ns[n].children = DOMAIN Disk[ns[n].name]
  /\ \A i \in DOMAIN ns[n].children :
       /\ ns[ns[n].children[i]].name = Disk[ns[n].name][i]
       /\ ns[ns[n].children[i]].parent = n

\* Every node but the root was created with the other children of its parent.
Tree(ns) ==
  /\ 1 \in DOMAIN ns /\ ns[1].name = "root" /\ ns[1].parent = 1
  /\ \A n \in DOMAIN ns :
       /\ ns[n].parent \in DOMAIN ns
       /\ \A i \in DOMAIN ns[n].children : ns[n].children[i] \in DOMAIN ns
       /\ ns[n].childrenCreated => Lists(ns, n)
       /\ n # 1 =>
            /\ ns[ns[n].parent].name \in Directories
            /\ Contains(Disk[ns[ns[n].parent].name], ns[n].name)
            /\ ns[ns[n].parent].childrenCreated

\* A node lists descriptors of its own, each once.
Opened(ns, ds) ==
  /\ \A fd \in DOMAIN ds : ds[fd].node \in DOMAIN ns
  /\ \A n \in DOMAIN ns :
       /\ IsInjective(ns[n].openFileDescriptors)
       /\ \A i \in DOMAIN ns[n].openFileDescriptors :
            LET fd == ns[n].openFileDescriptors[i] IN fd \in DOMAIN ds /\ ds[fd].node = n

\* A client has descriptors, and those that it has not closed are listed.
Holds(me, ns, ds) ==
  /\ me.held \subseteq DOMAIN ds
  /\ \A fd \in me.held \ me.closed : Contains(ns[ds[fd].node].openFileDescriptors, fd)

Waits(me) == me.pc \in {"walking", "listing"}

\* getInfo is where the medium says, for as many names as it has followed.
OnItsWay(me, ns) ==
  /\ me.call \in Lookups /\ me.call.valid /\ me.call.slash = (me.call.op = "list")
  /\ ns[me.node].name \in Directories
  /\ me.done <= Len(Path(me.call))
  /\ LET k == IF me.pc = "walking" THEN me.done ELSE Len(Path(me.call))
     IN  Resolve(Path(me.call))[k] = [status |-> "Ok", name |-> ns[me.node].name]

\* A call that has returned from a lookup has told the truth.
Truthful(me) ==
  me.pc = "idle" /\ me.call \in Lookups => me.status \in {"IOError", Promised(me.call)}

Client(me, ns, ds) ==
  /\ me.node \in DOMAIN ns
  /\ Holds(me, ns, ds)
  /\ Waits(me) => OnItsWay(me, ns)
  /\ me.pc = "idle" => me.node = 1 /\ me.done = 0
  /\ me.pc = "reading" => me.fd \in DOMAIN ds /\ me.call = [op |-> "read"]

Unique(ns) == \A m, n \in DOMAIN ns : ns[m].name = ns[n].name => m = n

\* As long as no directory is read by two calls at a time.
NoneTwice ==
  /\ Unique(nodes)
  /\ \A c \in Clients : Waits(clients[c]) => ~ nodes[clients[c].node].childrenCreated
  /\ \A c, d \in Clients :
       Waits(clients[c]) /\ Waits(clients[d]) /\ clients[c].node = clients[d].node => c = d

TypeInv ==
  /\ nodes \in Seq(NodeRecords) /\ descriptors \in Seq(DescriptorRecords)
  /\ clients \in [Clients -> ClientRecords]
  /\ failed \in Failures /\ overlapped \in BOOLEAN
  /\ \A c \in Clients : clients[c].calls <= Calls

IInv ==
  /\ TypeInv
  /\ Tree(nodes) /\ Opened(nodes, descriptors)
  /\ \A c \in Clients : Client(clients[c], nodes, descriptors)
  /\ \A c, d \in Clients : clients[c].held \cap clients[d].held # {} => c = d
  /\ failed = "no" => \A c \in Clients : Truthful(clients[c])
  /\ ~ overlapped => NoneTwice

\* A client waits for the device exactly while its call is not finished.  This is
\* apart because the clients of a larger system may use the device otherwise too.
PhaseInv ==
  /\ phase \in [Clients -> {"idle", "waiting", "executed", "answered"}]
  /\ \A c \in Clients : clients[c].pc # "idle" <=> phase[c] # "idle"

-----------------------------------------------------------------------------
(* What a call works on: the world of client c *)

Worlds ==
  [nodes : Seq(NodeRecords), descriptors : Seq(DescriptorRecords), failed : Failures,
   me : ClientRecords]

\* The other clients do not notice.
Others(w, c) ==
  \A d \in Clients \ {c} :
    /\ clients[d] \in ClientRecords
    /\ Client(clients[d], w.nodes, w.descriptors)
    /\ clients[d].held \cap w.me.held = {}
    /\ ~ overlapped /\ Waits(clients[d]) => ~ w.nodes[clients[d].node].childrenCreated

Good(w, c) ==
  /\ w \in Worlds
  /\ Tree(w.nodes) /\ Opened(w.nodes, w.descriptors)
  /\ w.me.node \in DOMAIN w.nodes
  /\ Holds(w.me, w.nodes, w.descriptors)
  /\ Others(w, c)
  /\ ~ overlapped => Unique(w.nodes)

\* A call waits, or has returned.
Ready(w) ==
  /\ Waits(w.me) => OnItsWay(w.me, w.nodes) /\ ~ w.nodes[w.me.node].childrenCreated
  /\ w.me.pc = "idle" => w.me.node = 1 /\ w.me.done = 0
  /\ w.me.pc = "reading" => w.me.fd \in DOMAIN w.descriptors /\ w.me.call = [op |-> "read"]
  /\ w.failed = "no" => Truthful(w.me)

-----------------------------------------------------------------------------
(* Types *)

\* The fields of every node have their types.
LEMMA NodeTypes ==
  ASSUME NEW ns \in Seq(NodeRecords)
  PROVE  /\ Len(ns) \in Nat /\ DOMAIN ns = 1 .. Len(ns)
         /\ \A n \in DOMAIN ns :
              /\ ns[n] \in NodeRecords
              /\ ns[n].name \in Names /\ ns[n].parent \in Nat
              /\ ns[n].childrenCreated \in BOOLEAN
              /\ ns[n].children \in Seq(Nat) /\ ns[n].openFileDescriptors \in Seq(Nat)
              /\ ns[n].fileBuffers \in Seq({"data", "null"}) /\ ns[n].lost \in Nat
<1>1. \A n \in DOMAIN ns : ns[n] \in NodeRecords
  OBVIOUS
<1>2. \A x \in NodeRecords :
        /\ x.name \in Names /\ x.parent \in Nat /\ x.childrenCreated \in BOOLEAN
        /\ x.children \in Seq(Nat) /\ x.openFileDescriptors \in Seq(Nat)
        /\ x.fileBuffers \in Seq({"data", "null"}) /\ x.lost \in Nat
  BY DEF NodeRecords
<1> QED
  BY <1>1, <1>2

\* So have a client's.
LEMMA ClientTypes ==
  ASSUME NEW me \in ClientRecords
  PROVE  /\ me.pc \in {"idle", "walking", "listing", "reading"}
         /\ me.node \in Nat /\ me.done \in Nat /\ me.slept \in BOOLEAN /\ me.fd \in Nat
         /\ me.request \in Requests \cup {NoRequest} /\ me.call \in CallRecords
         /\ me.status \in Statuses \cup {"none"}
         /\ me.held \subseteq Nat /\ me.closed \subseteq Nat /\ me.calls \in Nat
BY DEF ClientRecords

\* And those of what a call works on.
LEMMA WorldTypes ==
  ASSUME NEW w \in Worlds
  PROVE  /\ w.nodes \in Seq(NodeRecords) /\ w.descriptors \in Seq(DescriptorRecords)
         /\ w.failed \in Failures /\ w.me \in ClientRecords
         /\ Len(w.descriptors) \in Nat /\ DOMAIN w.descriptors = 1 .. Len(w.descriptors)
BY DEF Worlds

\* What a directory lists.
LEMMA Entries ==
  ASSUME NEW d \in Directories
  PROVE  /\ Disk[d] \in Seq(Names) /\ Len(Disk[d]) \in Nat
         /\ DOMAIN Disk[d] = 1 .. Len(Disk[d])
         /\ \A i \in DOMAIN Disk[d] :
              Disk[d][i] \in Names /\ Disk[d][i] \notin {"root", ".", ".."}
         /\ \A i, j \in DOMAIN Disk[d] : Disk[d][i] = Disk[d][j] => i = j
<1>1. /\ Disk[d] \in Seq(Range(Disk[d])) /\ IsInjective(Disk[d])
      /\ Range(Disk[d]) \cap {"root", ".", ".."} = {}
  BY DiskAssumption
<1>2. Range(Disk[d]) \subseteq Names
  BY DEF Names
<1>3. Disk[d] \in Seq(Names)
  BY <1>1, <1>2, SeqMonotonic
<1>4. \A i \in DOMAIN Disk[d] : Disk[d][i] \in Range(Disk[d])
  BY DEF Range
<1> QED
  BY <1>1, <1>2, <1>3, <1>4 DEF IsInjective

\* The medium has an entry in one directory only, so ".." has one meaning there.
LEMMA ParentOfEntry ==
  ASSUME NEW d \in Directories, NEW name, Contains(Disk[d], name)
  PROVE  ParentOf(name) = d /\ name \notin {"root", ".", ".."}
<1>1. \A e \in Directories : \A x : Contains(Disk[e], x) => x \in Range(Disk[e])
  <2> SUFFICES ASSUME NEW e \in Directories, NEW x, Contains(Disk[e], x)
               PROVE  x \in Range(Disk[e])
    OBVIOUS
  <2> QED BY Entries DEF Contains, Range
<1>2. \A e \in Directories : Contains(Disk[e], name) => e = d
  BY <1>1, DiskAssumption
<1>3. name \notin {"root", ".", ".."}
  BY <1>1, DiskAssumption
<1> QED
  BY <1>2, <1>3 DEF ParentOf

\* What a lookup is made of; the path that getInfo follows has a length.
LEMMA LookupTypes ==
  ASSUME NEW l \in Lookups
  PROVE  /\ l.op \in {"open", "list"}
         /\ l.slash \in BOOLEAN /\ l.valid \in BOOLEAN /\ l.create \in BOOLEAN
         /\ Len(Path(l)) \in Nat
         /\ l.slash \/ l.parts # <<>>
<1>1. /\ l.op \in {"open", "list"} /\ l.parts \in Seq(Range(l.parts))
      /\ l.slash \in BOOLEAN /\ l.valid \in BOOLEAN /\ l.create \in BOOLEAN
      /\ l.slash \/ l.parts # <<>>
  BY CallsAssumption
<1>2. Len(l.parts) \in Nat
  BY <1>1
<1>3. Len(Front(l.parts)) \in Nat
  <2>1. \A i \in 1 .. Len(l.parts) - 1 : l.parts[i] \in Range(l.parts)
    BY <1>1, <1>2
  <2>2. 1 \in Int /\ Len(l.parts) - 1 \in Int
    BY <1>2
  <2>3. SubSeq(l.parts, 1, Len(l.parts) - 1) \in Seq(Range(l.parts))
    BY <2>1, <2>2, SubSeqProperties
  <2> QED BY <2>3 DEF Front
<1> QED
  BY <1>1, <1>2, <1>3 DEF Path

-----------------------------------------------------------------------------
(* The loops along a path *)

\* Resolve is a recursive function, and is what its definition says.
LEMMA ResolveDefined ==
  ASSUME NEW path, Len(path) \in Nat, NEW g, g = Resolve(path)
  PROVE  /\ g[0] = [status |-> "Ok", name |-> "root"]
         /\ \A i \in 1 .. Len(path) : g[i] = Follow(g[i - 1], path[i])
<1> DEFINE start == [status |-> "Ok", name |-> "root"]
           Upto(h, n) == h = [i \in 0 .. n |-> IF i = 0 THEN start ELSE Follow(h[i - 1], path[i])]
           Missing == {n \in Nat : ~ \E h : Upto(h, n)}
<1> HIDE DEF start
<1>1. Missing = {}
  <2> SUFFICES ASSUME Missing # {}
               PROVE  FALSE
    OBVIOUS
  <2>1. PICK n \in Missing : \A m \in Missing : n <= m
    <3>1. Missing \in SUBSET Nat
      OBVIOUS
    <3> HIDE DEF Missing
    <3> QED BY <3>1, LeastNatural
  <2>2. n \in Nat
    OBVIOUS
  <2>3. CASE n = 0
    <3>1. Upto([i \in 0 .. 0 |-> start], 0)
      OBVIOUS
    <3> QED BY <3>1, <2>3
  <2>4. CASE n > 0
    <3>1. n - 1 \in Nat /\ ~ (n <= n - 1)
      BY <2>2, <2>4
    <3>2. \E h : Upto(h, n - 1)
      BY <3>1, <2>1 DEF Missing
    <3>3. PICK h : Upto(h, n - 1)
      BY <3>2
    <3> DEFINE k == [i \in 0 .. n |-> IF i = 0 THEN start ELSE Follow(h[i - 1], path[i])]
    <3>4. \A i \in 0 .. n : i # 0 => k[i - 1] = h[i - 1]
      <4> SUFFICES ASSUME NEW i \in 0 .. n, i # 0
                   PROVE  k[i - 1] = h[i - 1]
        OBVIOUS
      <4>1. i - 1 \in 0 .. n /\ i - 1 \in 0 .. n - 1
        BY <2>2
      <4> QED BY <4>1, <3>3
    <3>5. Upto(k, n)
      <4>1. \A i \in 0 .. n : (IF i = 0 THEN start ELSE Follow(h[i - 1], path[i]))
                              = (IF i = 0 THEN start ELSE Follow(k[i - 1], path[i]))
        <5> HIDE DEF k
        <5> QED BY <3>4
      <4> QED BY <4>1
    <3> HIDE DEF k
    <3> QED BY <3>5, <2>2
  <2> QED BY <2>2, <2>3, <2>4
<1>2. \E h : Upto(h, Len(path))
  BY <1>1 DEF Missing
<1>3. g = CHOOSE h : Upto(h, Len(path))
  BY DEF Resolve, start
<1>4. Upto(g, Len(path))
  BY <1>2, <1>3, Zenon
<1>5. g[0] = start
  BY <1>4
<1>6. \A i \in 1 .. Len(path) : g[i] = Follow(g[i - 1], path[i])
  BY <1>4
<1> QED
  BY <1>5, <1>6 DEF start

\* Walk is a recursive function, and is what its definition says.
LEMMA WalkDefined ==
  ASSUME NEW ns, NEW at, NEW path, at.done \in Nat, Len(path) \in Nat,
         at.done <= Len(path), NEW g, g = Walk(ns, at, path)
  PROVE  /\ g[at.done] = at
         /\ \A i \in at.done + 1 .. Len(path) : g[i] = Enter(ns, g[i - 1], path[i])
<1> DEFINE from == at.done
           Upto(h, n) == h = [i \in 0 .. n |-> IF i <= from THEN at ELSE Enter(ns, h[i - 1], path[i])]
           Missing == {n \in Nat : ~ \E h : Upto(h, n)}
<1>1. from \in Nat /\ from <= Len(path)
  OBVIOUS
<1> HIDE DEF from
<1>2. Missing = {}
  <2> SUFFICES ASSUME Missing # {}
               PROVE  FALSE
    OBVIOUS
  <2>1. PICK n \in Missing : \A m \in Missing : n <= m
    <3>1. Missing \in SUBSET Nat
      OBVIOUS
    <3> HIDE DEF Missing
    <3> QED BY <3>1, LeastNatural
  <2>2. n \in Nat
    OBVIOUS
  <2>3. CASE n <= from
    <3>1. \A i \in 0 .. n : i <= from
      BY <2>2, <2>3, <1>1
    <3>2. Upto([i \in 0 .. n |-> at], n)
      BY <3>1
    <3> QED BY <3>2, <2>2
  <2>4. CASE n > from
    <3>1. n - 1 \in Nat /\ ~ (n <= n - 1)
      BY <2>2, <2>4, <1>1
    <3>2. \E h : Upto(h, n - 1)
      BY <3>1, <2>1 DEF Missing
    <3>3. PICK h : Upto(h, n - 1)
      BY <3>2
    <3> DEFINE k == [i \in 0 .. n |-> IF i <= from THEN at ELSE Enter(ns, h[i - 1], path[i])]
    <3>4. \A i \in 0 .. n : ~ (i <= from) => k[i - 1] = h[i - 1]
      <4> SUFFICES ASSUME NEW i \in 0 .. n, ~ (i <= from)
                   PROVE  k[i - 1] = h[i - 1]
        OBVIOUS
      <4>1. i - 1 \in 0 .. n /\ i - 1 \in 0 .. n - 1
        BY <2>2, <1>1
      <4> QED BY <4>1, <3>3
    <3>5. Upto(k, n)
      <4>1. \A i \in 0 .. n : (IF i <= from THEN at ELSE Enter(ns, h[i - 1], path[i]))
                              = (IF i <= from THEN at ELSE Enter(ns, k[i - 1], path[i]))
        <5> HIDE DEF k
        <5> QED BY <3>4
      <4> QED BY <4>1
    <3> HIDE DEF k
    <3> QED BY <3>5, <2>2
  <2> QED BY <2>2, <2>3, <2>4, <1>1
<1>3. \E h : Upto(h, Len(path))
  BY <1>2 DEF Missing
<1>4. g = CHOOSE h : Upto(h, Len(path))
  BY DEF Walk, from
<1>5. Upto(g, Len(path))
  BY <1>3, <1>4, Zenon
<1>6. g[from] = at
  BY <1>1, <1>5
<1>7. \A i \in from + 1 .. Len(path) : g[i] = Enter(ns, g[i - 1], path[i])
  BY <1>1, <1>5
<1> QED
  BY <1>6, <1>7 DEF from

-----------------------------------------------------------------------------
(* What the steps of a call leave as it was *)

\* What is known of a client stays true when nodes and descriptors are added and
\* its own descriptors stay listed.
LEMMA ClientStays ==
  ASSUME NEW ns, NEW ds, NEW ms, NEW es, NEW me \in ClientRecords, Client(me, ns, ds),
         DOMAIN ns \subseteq DOMAIN ms, \A n \in DOMAIN ns : ms[n].name = ns[n].name,
         DOMAIN ds \subseteq DOMAIN es, \A fd \in DOMAIN ds : es[fd].node = ds[fd].node,
         \A fd \in me.held \ me.closed :
           Contains(ns[ds[fd].node].openFileDescriptors, fd)
             => Contains(ms[ds[fd].node].openFileDescriptors, fd)
  PROVE  Client(me, ms, es)
<1>1. me.node \in DOMAIN ns /\ Holds(me, ns, ds) /\ me.held \subseteq DOMAIN ds
  BY DEF Client, Holds
<1>2. Holds(me, ms, es)
  BY <1>1 DEF Holds
<1>3. Waits(me) => OnItsWay(me, ms)
  BY <1>1 DEF Client, OnItsWay
<1> QED
  BY <1>1, <1>2, <1>3 DEF Client

SameTree(ns, ms) ==
  /\ DOMAIN ms = DOMAIN ns
  /\ \A n \in DOMAIN ns :
       /\ ms[n].name = ns[n].name /\ ms[n].parent = ns[n].parent
       /\ ms[n].childrenCreated = ns[n].childrenCreated /\ ms[n].children = ns[n].children

\* A change of what is not about the tree keeps the tree.
LEMMA TreeStays ==
  ASSUME NEW ns, NEW ms, Tree(ns), SameTree(ns, ms)
  PROVE  Tree(ms) /\ (Unique(ns) => Unique(ms))
<1>1. \A n \in DOMAIN ns :
        Lists(ns, n) /\ (\A i \in DOMAIN ns[n].children : ns[n].children[i] \in DOMAIN ns)
          => Lists(ms, n)
  BY DEF SameTree, Lists
<1>2. 1 \in DOMAIN ms /\ ms[1].name = "root" /\ ms[1].parent = 1
  BY DEF Tree, SameTree
<1>3. ASSUME NEW n \in DOMAIN ms
      PROVE  /\ ms[n].parent \in DOMAIN ms
             /\ \A i \in DOMAIN ms[n].children : ms[n].children[i] \in DOMAIN ms
             /\ ms[n].childrenCreated => Lists(ms, n)
             /\ n # 1 =>
                  /\ ms[ms[n].parent].name \in Directories
                  /\ Contains(Disk[ms[ms[n].parent].name], ms[n].name)
                  /\ ms[ms[n].parent].childrenCreated
  <2>1. /\ n \in DOMAIN ns /\ ns[n].parent \in DOMAIN ns
        /\ \A i \in DOMAIN ns[n].children : ns[n].children[i] \in DOMAIN ns
        /\ ns[n].childrenCreated => Lists(ns, n)
        /\ n # 1 =>
             /\ ns[ns[n].parent].name \in Directories
             /\ Contains(Disk[ns[ns[n].parent].name], ns[n].name)
             /\ ns[ns[n].parent].childrenCreated
    BY DEF Tree, SameTree
  <2>2. /\ DOMAIN ms = DOMAIN ns
        /\ ms[n].name = ns[n].name /\ ms[n].parent = ns[n].parent
        /\ ms[n].childrenCreated = ns[n].childrenCreated /\ ms[n].children = ns[n].children
        /\ ms[ns[n].parent].name = ns[ns[n].parent].name
        /\ ms[ns[n].parent].childrenCreated = ns[ns[n].parent].childrenCreated
    BY <2>1 DEF SameTree
  <2> QED BY <1>1, <2>1, <2>2
<1>4. Unique(ns) => Unique(ms)
  BY DEF Unique, SameTree
<1> QED
  BY <1>2, <1>3, <1>4 DEF Tree

\* Descriptors are listed or no longer listed; the tree is as it was.
LEMMA RelistedIsGood ==
  ASSUME NEW c \in Clients, NEW w, Good(w, c), NEW v \in Worlds,
         SameTree(w.nodes, v.nodes), v.me.node \in DOMAIN w.nodes,
         DOMAIN w.descriptors \subseteq DOMAIN v.descriptors,
         \A fd \in DOMAIN w.descriptors : v.descriptors[fd].node = w.descriptors[fd].node,
         Opened(v.nodes, v.descriptors), Holds(v.me, v.nodes, v.descriptors),
         \A d \in Clients \ {c} :
           /\ clients[d].held \cap v.me.held = {}
           /\ \A fd \in clients[d].held \ clients[d].closed :
                Contains(w.nodes[w.descriptors[fd].node].openFileDescriptors, fd)
                  => Contains(v.nodes[w.descriptors[fd].node].openFileDescriptors, fd)
  PROVE  Good(v, c)
<1> DEFINE ns == w.nodes
           ms == v.nodes
           ds == w.descriptors
           es == v.descriptors
<1>1. /\ Tree(ns) /\ Opened(ns, ds) /\ Others(w, c)
      /\ ~ overlapped => Unique(ns)
  BY DEF Good
<1>2. Tree(ms) /\ (~ overlapped => Unique(ms))
  BY <1>1, TreeStays
<1>3. ASSUME NEW d \in Clients \ {c}
      PROVE  /\ clients[d] \in ClientRecords
             /\ Client(clients[d], ms, es)
             /\ clients[d].held \cap v.me.held = {}
             /\ ~ overlapped /\ Waits(clients[d]) => ~ ms[clients[d].node].childrenCreated
  <2>1. /\ clients[d] \in ClientRecords /\ Client(clients[d], ns, ds)
        /\ ~ overlapped /\ Waits(clients[d]) => ~ ns[clients[d].node].childrenCreated
    BY <1>1 DEF Others
  <2>2. clients[d].node \in DOMAIN ns
    BY <2>1 DEF Client
  <2>3. ms[clients[d].node].childrenCreated = ns[clients[d].node].childrenCreated
    BY <2>2 DEF SameTree
  <2>4. DOMAIN ns \subseteq DOMAIN ms /\ \A n \in DOMAIN ns : ms[n].name = ns[n].name
    BY DEF SameTree
  <2>5. Client(clients[d], ms, es)
    <3> HIDE DEF ns, ms, ds, es
    <3> QED BY <2>1, <2>4, ClientStays DEF ns, ms, ds, es
  <2> QED BY <2>1, <2>3, <2>5
<1>4. Others(v, c)
  BY <1>3 DEF Others
<1> QED
  BY <1>2, <1>4 DEF Good, SameTree

SameNodes(ns, ms) ==
  /\ SameTree(ns, ms)
  /\ \A n \in DOMAIN ns : ms[n].openFileDescriptors = ns[n].openFileDescriptors

\* No pointer is lost on the way from one world to another.
Spares(ns, ds, ms, es) ==
  /\ SameTree(ns, ms)
  /\ \A n \in DOMAIN ns : ms[n].lost = ns[n].lost
  /\ \A fd \in DOMAIN es : es[fd].lost => fd \in DOMAIN ds /\ ds[fd].lost

\* Counts of pointers and buffers are nothing to the invariant.
LEMMA SameIsGood ==
  ASSUME NEW c \in Clients, NEW w, Good(w, c), NEW v \in Worlds,
         SameNodes(w.nodes, v.nodes), v.descriptors = w.descriptors,
         v.me.held = w.me.held, v.me.closed = w.me.closed, v.me.node \in DOMAIN w.nodes
  PROVE  Good(v, c)
<1> DEFINE ns == w.nodes
           ms == v.nodes
           ds == w.descriptors
<1>1. /\ Opened(ns, ds) /\ Holds(w.me, ns, ds) /\ Others(w, c)
      /\ SameTree(ns, ms) /\ DOMAIN ms = DOMAIN ns
      /\ \A n \in DOMAIN ns : ms[n].openFileDescriptors = ns[n].openFileDescriptors
  BY DEF Good, SameNodes, SameTree
<1>2. Opened(ms, ds)
  BY <1>1 DEF Opened
<1>3. \A fd \in DOMAIN ds : ds[fd].node \in DOMAIN ns
  BY <1>1 DEF Opened
<1>4. Holds(v.me, ms, ds)
  BY <1>1, <1>3 DEF Holds
<1>5. \A d \in Clients \ {c} :
        /\ clients[d].held \cap v.me.held = {}
        /\ \A fd \in clients[d].held \ clients[d].closed :
             Contains(ns[ds[fd].node].openFileDescriptors, fd)
               => Contains(ms[ds[fd].node].openFileDescriptors, fd)
  BY <1>1, <1>3 DEF Others, Client, Holds
<1> QED
  BY <1>1, <1>2, <1>4, <1>5, RelistedIsGood

\* A node that gives up a pointer, or none.
LEMMA LoseHolds ==
  ASSUME NEW c \in Clients, NEW w, Good(w, c), NEW n \in DOMAIN w.nodes, NEW slept,
         NEW v, v = Lose(w, n, slept)
  PROVE  /\ Good(v, c) /\ SameNodes(w.nodes, v.nodes)
         /\ v.me = w.me /\ v.failed = w.failed /\ v.descriptors = w.descriptors
         /\ slept => v = w
         /\ \A m \in DOMAIN w.nodes :
              v.nodes[m].lost = w.nodes[m].lost \/ (m = n /\ v.nodes[m].lost = w.nodes[m].lost + 1)
<1> DEFINE ns == w.nodes
           lost == ns[n].lost + 1
<1>1. w \in Worlds /\ ns \in Seq(NodeRecords) /\ w.me.node \in DOMAIN ns
      /\ ns[n] \in NodeRecords /\ lost \in Nat
  BY WorldTypes, NodeTypes DEF Good
<1>2. CASE slept
  BY <1>1, <1>2 DEF Lose, SameNodes, SameTree
<1>3. CASE ~ slept
  <2> DEFINE node == [ns[n] EXCEPT !.lost = lost]
             ms == [ns EXCEPT ![n] = node]
  <2>1. /\ node \in NodeRecords /\ node.name = ns[n].name /\ node.parent = ns[n].parent
        /\ node.childrenCreated = ns[n].childrenCreated /\ node.children = ns[n].children
        /\ node.openFileDescriptors = ns[n].openFileDescriptors /\ node.lost = lost
    <3> HIDE DEF lost
    <3> QED BY <1>1 DEF NodeRecords
  <2>2. v = [w EXCEPT !.nodes = ms]
    BY <1>3 DEF Lose
  <2> HIDE DEF node
  <2>3. ms \in Seq(NodeRecords) /\ DOMAIN ms = DOMAIN ns /\ \A m \in DOMAIN ns : ms[m] = IF m = n THEN node ELSE ns[m]
    BY <1>1, <2>1, ExceptSeq
  <2> HIDE DEF ms
  <2>4. /\ v \in Worlds /\ v.nodes = ms /\ v.me = w.me /\ v.failed = w.failed
        /\ v.descriptors = w.descriptors
    BY <1>1, <2>2, <2>3 DEF Worlds
  <2>5. SameNodes(ns, ms)
    BY <2>1, <2>3 DEF SameNodes, SameTree
  <2> QED BY <1>1, <1>3, <2>1, <2>3, <2>4, <2>5, SameIsGood
<1> QED
  BY <1>2, <1>3

\* A call that returns keeps its descriptors and what it was asked.
LEMMA ReturnHolds ==
  ASSUME NEW c \in Clients, NEW w, Good(w, c), NEW status \in Statuses \cup {"none"},
         NEW v, v = Return(w, status)
  PROVE  /\ Good(v, c) /\ v.nodes = w.nodes
         /\ v.me.pc = "idle" /\ v.me.node = 1 /\ v.me.done = 0 /\ v.me.status = status
         /\ v.me.call = w.me.call /\ v.me.calls = w.me.calls /\ v.failed = w.failed
         /\ v.descriptors = w.descriptors
<1>1. w \in Worlds /\ w.me \in ClientRecords
  BY WorldTypes DEF Good
<1> DEFINE me == [w.me EXCEPT !.pc = "idle", !.node = Root, !.done = 0, !.slept = FALSE,
                              !.fd = 0, !.request = NoRequest, !.status = status]
<1>2. v = [w EXCEPT !.me = me]
  BY DEF Return
<1>3. /\ me \in ClientRecords /\ me.pc = "idle" /\ me.status = status /\ me.call = w.me.call
      /\ me.held = w.me.held /\ me.closed = w.me.closed /\ me.node = 1 /\ me.done = 0
      /\ me.calls = w.me.calls
  BY <1>1 DEF ClientRecords, Root
<1> HIDE DEF me
<1>4. /\ v \in Worlds /\ v.me = me /\ v.nodes = w.nodes /\ v.descriptors = w.descriptors
      /\ v.failed = w.failed
  BY <1>1, <1>2, <1>3 DEF Worlds
<1>5. SameNodes(w.nodes, v.nodes) /\ 1 \in DOMAIN w.nodes
  BY <1>4 DEF SameNodes, SameTree, Good, Tree
<1> QED
  BY <1>3, <1>4, <1>5, SameIsGood


\* Node n has new children; no pointer to a node was uncounted.
Extended(ns, ms, n) ==
  /\ \A m \in DOMAIN ns :
       /\ m \in DOMAIN ms /\ ms[m].name = ns[m].name /\ ms[m].parent = ns[m].parent
       /\ ms[m].lost = ns[m].lost /\ (m # n => ms[m] = ns[m])
  /\ \A m \in DOMAIN ms \ DOMAIN ns :
       /\ ms[m].parent = n /\ ~ ms[m].childrenCreated /\ ms[m].children = <<>>
       /\ ms[m].lost = 0 /\ Contains(ms[n].children, m)
  /\ ms[n].childrenCreated

\* JolietISO::readDirectory fills in a directory.
LEMMA PopulateHolds ==
  ASSUME NEW c \in Clients, NEW w, Good(w, c), NEW n \in DOMAIN w.nodes,
         w.nodes[n].name \in Directories,
         ~ overlapped => /\ ~ w.nodes[n].childrenCreated
                         /\ \A d \in Clients \ {c} : Waits(clients[d]) => clients[d].node # n,
         NEW v, v = Populate(w, n)
  PROVE  /\ Good(v, c) /\ v.me = w.me /\ v.failed = w.failed /\ v.descriptors = w.descriptors
         /\ Extended(w.nodes, v.nodes, n)
<1> DEFINE ns == w.nodes
           ds == w.descriptors
           names == Disk[ns[n].name]
           old == Len(ns)
           kids == [i \in DOMAIN names |-> old + i]
           node == [ns[n] EXCEPT !.childrenCreated = TRUE, !.children = kids]
           born == [i \in DOMAIN names |-> NewNode(names[i], n)]
           ms == [ns EXCEPT ![n] = node] \o born
<1>1. /\ w \in Worlds /\ Tree(ns) /\ Opened(ns, ds) /\ w.me.node \in DOMAIN ns
      /\ Holds(w.me, ns, ds) /\ Others(w, c)
      /\ ~ overlapped => Unique(ns)
      /\ ns \in Seq(NodeRecords) /\ old \in Nat /\ DOMAIN ns = 1 .. old
      /\ ns[n] \in NodeRecords /\ ns[n].name \in Directories /\ n \in 1 .. old
  BY WorldTypes, NodeTypes DEF Good
<1>2. v = [w EXCEPT !.nodes = ms]
  <2>1. [ns EXCEPT ![n].childrenCreated = TRUE, ![n].children = kids] = [ns EXCEPT ![n] = node]
    <3> HIDE DEF kids
    <3> QED BY <1>1
  <2> QED BY <2>1, Zenon DEF Populate
<1>3. /\ names \in Seq(Names) /\ Len(names) \in Nat /\ DOMAIN names = 1 .. Len(names)
      /\ \A i \in DOMAIN names : names[i] \in Names /\ names[i] \notin {"root", ".", ".."}
      /\ \A i, j \in DOMAIN names : names[i] = names[j] => i = j
  BY <1>1, Entries
<1> HIDE DEF names
<1>4. /\ kids \in Seq(Nat) /\ DOMAIN kids = DOMAIN names
      /\ \A i \in DOMAIN names : kids[i] = old + i
  BY <1>1, <1>3
<1> HIDE DEF kids
<1>5. /\ node \in NodeRecords /\ node.name = ns[n].name /\ node.parent = ns[n].parent
      /\ node.childrenCreated = TRUE /\ node.children = kids
      /\ node.openFileDescriptors = ns[n].openFileDescriptors /\ node.lost = ns[n].lost
  BY <1>1, <1>4 DEF NodeRecords
<1> HIDE DEF node
<1>6. \A i \in DOMAIN names : NewNode(names[i], n) \in NodeRecords
  BY <1>1, <1>3 DEF NewNode, NodeRecords
<1>7. born \in Seq(NodeRecords) /\ Len(born) = Len(names)
      /\ \A i \in DOMAIN names : born[i] = NewNode(names[i], n)
  BY <1>3, <1>6
<1> DEFINE cs == [ns EXCEPT ![n] = node]
<1>8. cs \in Seq(NodeRecords) /\ Len(cs) = old
      /\ \A m \in 1 .. old : cs[m] = IF m = n THEN node ELSE ns[m]
  BY <1>1, <1>5, ExceptSeq
<1> HIDE DEF born, cs
<1>9. /\ ms \in Seq(NodeRecords) /\ DOMAIN ms = 1 .. old + Len(names)
      /\ \A m \in 1 .. old : ms[m] = IF m = n THEN node ELSE ns[m]
      /\ \A i \in DOMAIN names : ms[old + i] = NewNode(names[i], n)
  <2>1. /\ ms \in Seq(NodeRecords) /\ Len(ms) = old + Len(names)
        /\ \A i \in 1 .. old + Len(names) :
             ms[i] = IF i <= old THEN cs[i] ELSE born[i - old]
    <3>1. ms = cs \o born
      BY DEF cs
    <3>2. /\ cs \o born \in Seq(NodeRecords) /\ Len(cs \o born) = Len(cs) + Len(born)
          /\ \A i \in 1 .. Len(cs) + Len(born) :
               (cs \o born)[i] = IF i <= Len(cs) THEN cs[i] ELSE born[i - Len(cs)]
      <4>1. cs \in Seq(NodeRecords) /\ born \in Seq(NodeRecords)
        BY <1>7, <1>8
      <4> QED BY <4>1, ConcatProperties, Zenon
    <3> HIDE DEF ms
    <3> QED BY <3>1, <3>2, <1>7, <1>8
  <2> HIDE DEF ms
  <2>2. \A i \in DOMAIN names : old + i \in 1 .. old + Len(names) /\ ~ (old + i <= old) /\ (old + i) - old = i
    BY <1>1, <1>3
  <2>3. ms \in Seq(NodeRecords) /\ Len(ms) = old + Len(names)
    BY <2>1
  <2>4. DOMAIN ms = 1 .. old + Len(names)
    BY <2>3
  <2>5. \A i \in DOMAIN names : ms[old + i] = born[i]
    BY <2>1, <2>2
  <2>6. \A m \in 1 .. old : m \in 1 .. old + Len(names) /\ m <= old
    BY <1>1, <1>3
  <2>7. \A m \in 1 .. old : ms[m] = cs[m]
    BY <2>1, <2>6
  <2> QED BY <1>7, <1>8, <2>3, <2>4, <2>5, <2>7
<1> HIDE DEF ms
<1>10. \A m \in DOMAIN ns :
         /\ m \in DOMAIN ms /\ ms[m].name = ns[m].name /\ ms[m].parent = ns[m].parent
         /\ ms[m].openFileDescriptors = ns[m].openFileDescriptors
         /\ ms[m].lost = ns[m].lost
         /\ m # n => ms[m] = ns[m]
  BY <1>1, <1>3, <1>5, <1>9
<1>11. \A m \in DOMAIN ms : m \in DOMAIN ns \/ \E i \in DOMAIN names : m = old + i
  <2> SUFFICES ASSUME NEW m \in 1 .. old + Len(names), m \notin 1 .. old
               PROVE  \E i \in DOMAIN names : m = old + i
    BY <1>1, <1>9
  <2>1. m - old \in 1 .. Len(names) /\ m = old + (m - old)
    BY <1>1, <1>3
  <2> QED BY <2>1, <1>3
<1>12. \A i \in DOMAIN names :
         /\ old + i \in DOMAIN ms /\ ms[old + i].name = names[i] /\ ms[old + i].parent = n
         /\ ms[old + i].childrenCreated = FALSE /\ ms[old + i].children = <<>>
         /\ ms[old + i].openFileDescriptors = <<>> /\ ms[old + i].lost = 0
  <2>1. \A i \in DOMAIN names : old + i \in DOMAIN ms /\ ms[old + i] = NewNode(names[i], n)
    BY <1>1, <1>3, <1>9
  <2>2. \A x \in DOMAIN names :
          LET a == NewNode(names[x], n)
          IN  /\ a.name = names[x] /\ a.parent = n /\ a.childrenCreated = FALSE
              /\ a.children = <<>> /\ a.openFileDescriptors = <<>> /\ a.lost = 0
    BY DEF NewNode
  <2> QED BY <2>1, <2>2
<1>13. ms[n].childrenCreated /\ ms[n].children = kids /\ ms[n].name = ns[n].name
  BY <1>5, <1>9, <1>1
<1>14. /\ v \in Worlds /\ v.nodes = ms /\ v.me = w.me /\ v.failed = w.failed
       /\ v.descriptors = ds
  BY <1>1, <1>2, <1>9 DEF Worlds
<1>15. Tree(ms)
  <2>1. 1 \in DOMAIN ms /\ ms[1].name = "root" /\ ms[1].parent = 1
    BY <1>1, <1>10 DEF Tree
  <2>2. Lists(ms, n)
    BY <1>4, <1>12, <1>13, <1>1 DEF Lists, names
  <2> SUFFICES ASSUME NEW m \in DOMAIN ms
               PROVE  /\ ms[m].parent \in DOMAIN ms
                      /\ \A i \in DOMAIN ms[m].children : ms[m].children[i] \in DOMAIN ms
                      /\ ms[m].childrenCreated => Lists(ms, m)
                      /\ m # 1 =>
                           /\ ms[ms[m].parent].name \in Directories
                           /\ Contains(Disk[ms[ms[m].parent].name], ms[m].name)
                           /\ ms[ms[m].parent].childrenCreated
    BY <2>1 DEF Tree
  <2>3. CASE \E i \in DOMAIN names : m = old + i
    <3>1. PICK i \in DOMAIN names : m = old + i
      BY <2>3
    <3>2. Contains(names, names[i])
      BY <1>3 DEF Contains
    <3> QED BY <3>1, <3>2, <1>1, <1>10, <1>12, <1>13 DEF names
  <2>4. CASE m \in DOMAIN ns
    <3>1. /\ ns[m].parent \in DOMAIN ns
          /\ \A i \in DOMAIN ns[m].children : ns[m].children[i] \in DOMAIN ns
          /\ ns[m].childrenCreated => Lists(ns, m)
          /\ m # 1 =>
               /\ ns[ns[m].parent].name \in Directories
               /\ Contains(Disk[ns[ns[m].parent].name], ns[m].name)
               /\ ns[ns[m].parent].childrenCreated
      BY <2>4, <1>1 DEF Tree
    <3>2. ms[m].parent \in DOMAIN ms
      BY <2>4, <3>1, <1>10
    <3>3. \A i \in DOMAIN ms[m].children : ms[m].children[i] \in DOMAIN ms
      <4>1. CASE m = n
        BY <4>1, <1>4, <1>12, <1>13
      <4>2. CASE m # n
        BY <4>2, <2>4, <3>1, <1>10
      <4> QED BY <4>1, <4>2
    <3>4. ms[m].childrenCreated => Lists(ms, m)
      <4>1. CASE m = n
        BY <4>1, <2>2
      <4>2. CASE m # n
        <5>1. ms[m] = ns[m]
          BY <4>2, <2>4, <1>10
        <5> QED BY <5>1, <3>1, <1>10 DEF Lists
      <4> QED BY <4>1, <4>2
    <3>5. ns[ns[m].parent].childrenCreated => ms[ns[m].parent].childrenCreated
      BY <3>1, <1>10, <1>13
    <3> QED BY <2>4, <3>1, <3>2, <3>3, <3>4, <3>5, <1>10
  <2> QED BY <2>3, <2>4, <1>11
<1>16. Opened(ms, ds)
  <2>1. \A fd \in DOMAIN ds : ds[fd].node \in DOMAIN ms
    BY <1>1, <1>10 DEF Opened
  <2>2. ASSUME NEW m \in DOMAIN ms
        PROVE  /\ IsInjective(ms[m].openFileDescriptors)
               /\ \A i \in DOMAIN ms[m].openFileDescriptors :
                    LET fd == ms[m].openFileDescriptors[i] IN fd \in DOMAIN ds /\ ds[fd].node = m
    <3>1. CASE m \in DOMAIN ns
      BY <3>1, <1>1, <1>10 DEF Opened
    <3>2. CASE \E i \in DOMAIN names : m = old + i
      <4>1. ms[m].openFileDescriptors = <<>>
        BY <3>2, <1>12
      <4> QED BY <4>1 DEF IsInjective
    <3> QED BY <3>1, <3>2, <1>11
  <2> QED BY <2>1, <2>2 DEF Opened
<1>17. Holds(w.me, ms, ds)
  <2>1. \A fd \in w.me.held : ds[fd].node \in DOMAIN ns
    BY <1>1 DEF Holds, Opened
  <2> QED BY <2>1, <1>1, <1>10 DEF Holds
<1>18. Others(v, c)
  <2> SUFFICES ASSUME NEW d \in Clients \ {c}
               PROVE  /\ clients[d] \in ClientRecords
                      /\ Client(clients[d], ms, ds)
                      /\ clients[d].held \cap v.me.held = {}
                      /\ ~ overlapped /\ Waits(clients[d])
                           => ~ ms[clients[d].node].childrenCreated
    BY <1>14 DEF Others
  <2>1. /\ clients[d] \in ClientRecords /\ Client(clients[d], ns, ds)
        /\ clients[d].held \cap v.me.held = {}
        /\ ~ overlapped /\ Waits(clients[d])
             => ~ ns[clients[d].node].childrenCreated /\ clients[d].node # n
    BY <1>1, <1>14 DEF Others
  <2>2. clients[d].node \in DOMAIN ns /\ clients[d].held \subseteq DOMAIN ds
    BY <2>1 DEF Client, Holds
  <2>3. Client(clients[d], ms, ds)
    <3>1. \A fd \in DOMAIN ds : ds[fd].node \in DOMAIN ns
      BY <1>1 DEF Opened
    <3>2. DOMAIN ns \subseteq DOMAIN ms /\ \A m \in DOMAIN ns : ms[m].name = ns[m].name
      BY <1>10
    <3>3. \A fd \in clients[d].held \ clients[d].closed :
            Contains(ns[ds[fd].node].openFileDescriptors, fd)
              => Contains(ms[ds[fd].node].openFileDescriptors, fd)
      BY <1>10, <2>2, <3>1
    <3> QED BY <2>1, <3>2, <3>3, ClientStays
  <2> QED BY <1>10, <2>1, <2>2, <2>3
<1>19. ~ overlapped => Unique(ms)
  <2> SUFFICES ASSUME ~ overlapped, NEW k \in DOMAIN ms, NEW m \in DOMAIN ms,
                      ms[k].name = ms[m].name
               PROVE  k = m
    BY DEF Unique
  <2>1. ASSUME NEW j \in DOMAIN ns, NEW i \in DOMAIN names
        PROVE  ms[j].name # ms[old + i].name
    <3> SUFFICES ASSUME ms[j].name = ms[old + i].name
                 PROVE  FALSE
      OBVIOUS
    <3>1. ns[j].name = names[i] /\ j # 1
      BY <1>1, <1>3, <1>10, <1>12 DEF Tree
    <3>2. /\ ns[j].parent \in DOMAIN ns /\ ns[ns[j].parent].name \in Directories
          /\ Contains(Disk[ns[ns[j].parent].name], ns[j].name)
          /\ ns[ns[j].parent].childrenCreated
      BY <3>1, <1>1 DEF Tree
    <3>3. Contains(Disk[ns[n].name], ns[j].name)
      <4>1. Contains(names, ns[j].name)
        BY <3>1 DEF Contains
      <4> QED BY <4>1 DEF names
    <3>4. ns[ns[j].parent].name = ns[n].name
      BY <3>2, <3>3, <1>1, ParentOfEntry
    <3>5. ns[j].parent = n
      BY <3>2, <3>4, <1>1 DEF Unique
    <3> QED BY <3>2, <3>5
  <2>2. CASE k \in DOMAIN ns /\ m \in DOMAIN ns
    BY <2>2, <1>1, <1>10 DEF Unique
  <2>3. CASE (\E i \in DOMAIN names : k = old + i) /\ (\E i \in DOMAIN names : m = old + i)
    BY <2>3, <1>3, <1>12
  <2> QED BY <2>1, <2>2, <2>3, <1>11
<1>20. Extended(ns, ms, n)
  <2>1. \A i \in DOMAIN names : Contains(ms[n].children, old + i)
    BY <1>4, <1>13 DEF Contains
  <2> QED BY <2>1, <1>1, <1>10, <1>11, <1>12, <1>13 DEF Extended
<1>21. Good(v, c)
  BY <1>1, <1>10, <1>14, <1>15, <1>16, <1>17, <1>18, <1>19 DEF Good
<1> QED
  BY <1>14, <1>20, <1>21


\* When the kernel stops nothing more is promised of the status.
LEMMA FailHolds ==
  ASSUME NEW c \in Clients, NEW w, Good(w, c), NEW why \in Failures \ {"no"}, NEW v, v = Fail(w, why)
  PROVE  /\ Good(v, c) /\ Ready(v) /\ v.me.pc = "idle" /\ v.me.calls = w.me.calls
         /\ v.me.call = w.me.call /\ v.nodes = w.nodes /\ v.descriptors = w.descriptors
<1> DEFINE u == Return(w, "none")
<1>1. /\ Good(u, c) /\ u.me.pc = "idle" /\ u.me.node = 1 /\ u.me.done = 0
      /\ u.me.calls = w.me.calls /\ u.me.call = w.me.call
      /\ u.nodes = w.nodes /\ u.descriptors = w.descriptors
  BY ReturnHolds
<1>2. v = [u EXCEPT !.failed = why]
  BY DEF Fail
<1> HIDE DEF u
<1>3. u \in Worlds
  BY <1>1 DEF Good
<1>4. /\ v \in Worlds /\ v.me = u.me /\ v.nodes = u.nodes /\ v.descriptors = u.descriptors
      /\ v.failed = why
  BY <1>2, <1>3 DEF Worlds
<1>5. SameNodes(u.nodes, v.nodes) /\ v.me.node \in DOMAIN u.nodes
  BY <1>1, <1>4 DEF SameNodes, SameTree, Good
<1>6. Good(v, c)
  BY <1>1, <1>4, <1>5, SameIsGood
<1> QED
  BY <1>1, <1>4, <1>6 DEF Ready, Waits

\* A call that ends with a status that is true.
LEMMA ReturnIsReady ==
  ASSUME NEW c \in Clients, NEW w, Good(w, c), NEW status \in Statuses, NEW v, v = Return(w, status),
         w.me.call \in Lookups => status \in {"IOError", Promised(w.me.call)}
  PROVE  /\ Good(v, c) /\ Ready(v) /\ v.me.pc = "idle" /\ v.me.calls = w.me.calls
         /\ v.me.call = w.me.call /\ v.nodes = w.nodes /\ v.descriptors = w.descriptors
BY ReturnHolds DEF Ready, Waits, Truthful

-----------------------------------------------------------------------------
(* A directory that has been read *)

\* A name is found among the children of a directory that counts as read exactly
\* if the medium has it there.
LEMMA NamedIs ==
  ASSUME NEW ns \in Seq(NodeRecords), Tree(ns), NEW n \in DOMAIN ns, ns[n].childrenCreated,
         NEW name, NEW found, found = Named(ns, n, name)
  PROVE  /\ ns[n].name \in Directories
         /\ found # {} <=> Contains(Disk[ns[n].name], name)
         /\ found # {} =>
              \A i \in {Min(found), Max(found)} :
                ns[n].children[i] \in DOMAIN ns /\ ns[ns[n].children[i]].name = name
<1> DEFINE names == Disk[ns[n].name]
<1>1. /\ ns[n].name \in Directories /\ DOMAIN ns[n].children = DOMAIN names
      /\ \A i \in DOMAIN names : ns[ns[n].children[i]].name = names[i]
      /\ \A i \in DOMAIN names : ns[n].children[i] \in DOMAIN ns
  BY DEF Tree, Lists
<1>2. /\ DOMAIN names = 1 .. Len(names) /\ Len(names) \in Nat
      /\ \A i, j \in DOMAIN names : names[i] = names[j] => i = j
  BY <1>1, Entries
<1> HIDE DEF names
<1>3. found = {i \in DOMAIN names : names[i] = name}
  BY <1>1 DEF Named
<1>4. found # {} <=> Contains(names, name)
  BY <1>2, <1>3 DEF Contains
<1>5. ASSUME found # {}
      PROVE  Min(found) \in found /\ Max(found) \in found
  <2>1. PICK i \in found : found = {i}
    BY <1>2, <1>3, <1>5
  <2>2. i \in Nat
    BY <1>2, <1>3
  <2>3. (\E x \in found : \A y \in found : x <= y) /\ (\E x \in found : \A y \in found : x >= y)
    BY <2>1, <2>2
  <2> QED BY <2>3 DEF Min, Max
<1> QED
  BY <1>1, <1>3, <1>4, <1>5, Zenon DEF names

\* getInfo has found the directory that the path leads to.
Arrived(w) ==
  LET l == w.me.call
  IN  /\ l \in Lookups /\ l.valid /\ l.slash = (l.op = "list")
      /\ Resolve(Path(l))[Len(Path(l))] = [status |-> "Ok", name |-> w.nodes[w.me.node].name]

\* The elements of a sequence with one more at its end.
LEMMA Appended ==
  ASSUME NEW S, NEW s \in Seq(S), NEW e \in S, NEW t, t = Append(s, e)
  PROVE  /\ t \in Seq(S) /\ DOMAIN t = 1 .. Len(t)
         /\ \A i \in DOMAIN s : i \in DOMAIN t /\ t[i] = s[i]
         /\ \E last \in DOMAIN t :
              t[last] = e /\ \A i \in DOMAIN t : i \in DOMAIN s \/ i = last
<1>1. /\ t \in Seq(S) /\ Len(t) = Len(s) + 1 /\ Len(s) \in Nat
      /\ DOMAIN s = 1 .. Len(s) /\ DOMAIN t = 1 .. Len(t)
      /\ \A i \in 1 .. Len(s) : t[i] = s[i]
      /\ t[Len(s) + 1] = e
  OBVIOUS
<1>2. Len(s) + 1 \in DOMAIN t /\ \A i \in DOMAIN t : i \in DOMAIN s \/ i = Len(s) + 1
  <2>1. Len(s) + 1 \in 1 .. Len(s) + 1 /\ \A i \in 1 .. Len(s) + 1 : i \in 1 .. Len(s) \/ i = Len(s) + 1
    BY <1>1
  <2> QED BY <2>1, <1>1
<1> QED
  BY <1>1, <1>2

\* openFile lists a new descriptor at a node.
Opening(w, n, slept) ==
  LET fd == Len(w.descriptors) + 1
  IN  [w EXCEPT !.descriptors = Append(@, [node |-> n, lost |-> ~ slept]),
                !.nodes[n].openFileDescriptors = Append(@, fd),
                !.me.held = @ \cup {fd}]

\* A new descriptor is listed at its node, and nowhere else.
LEMMA DescriptorIsListed ==
  ASSUME NEW c \in Clients, NEW w, Good(w, c), NEW n \in DOMAIN w.nodes, NEW slept,
         NEW v, v = Opening(w, n, slept)
  PROVE  Good(v, c) /\ v.me.call = w.me.call /\ v.me.calls = w.me.calls
<1> DEFINE fd == Len(w.descriptors) + 1
           ns == w.nodes
           ds == w.descriptors
           open == ns[n].openFileDescriptors
           opened == Append(open, fd)
           node == [ns[n] EXCEPT !.openFileDescriptors = opened]
           ms == [ns EXCEPT ![n] = node]
           new == [node |-> n, lost |-> ~ slept]
           es == Append(ds, new)
           me == [w.me EXCEPT !.held = @ \cup {fd}]
<1>1. /\ w \in Worlds /\ Tree(ns) /\ Opened(ns, ds) /\ w.me.node \in DOMAIN ns
      /\ Holds(w.me, ns, ds) /\ Others(w, c)
      /\ ns \in Seq(NodeRecords) /\ DOMAIN ns = 1 .. Len(ns) /\ Len(ns) \in Nat
      /\ ns[n] \in NodeRecords /\ n \in Nat /\ w.me \in ClientRecords
      /\ open \in Seq(Nat) /\ Len(open) \in Nat /\ DOMAIN open = 1 .. Len(open)
      /\ ds \in Seq(DescriptorRecords) /\ Len(ds) \in Nat /\ DOMAIN ds = 1 .. Len(ds)
      /\ fd \in Nat /\ fd \notin DOMAIN ds
  <2>1. w \in Worlds /\ ns \in Seq(NodeRecords)
    BY WorldTypes DEF Good
  <2>2. open \in Seq(Nat)
    BY <2>1, NodeTypes
  <2>3. Len(open) \in Nat /\ DOMAIN open = 1 .. Len(open)
    BY <2>2
  <2>4. /\ ns \in Seq(NodeRecords) /\ DOMAIN ns = 1 .. Len(ns) /\ Len(ns) \in Nat
        /\ ns[n] \in NodeRecords /\ n \in Nat
    BY <2>1, NodeTypes
  <2>5. ds \in Seq(DescriptorRecords) /\ Len(ds) \in Nat /\ DOMAIN ds = 1 .. Len(ds) /\ w.me \in ClientRecords
    BY <2>1, WorldTypes
  <2>6. fd \in Nat /\ fd \notin DOMAIN ds
    BY <2>5
  <2> QED BY <2>1, <2>2, <2>3, <2>4, <2>5, <2>6 DEF Good
<1>2. /\ opened \in Seq(Nat) /\ DOMAIN opened = 1 .. Len(opened)
      /\ \A i \in DOMAIN open : i \in DOMAIN opened /\ opened[i] = open[i]
      /\ \E last \in DOMAIN opened :
           opened[last] = fd /\ \A i \in DOMAIN opened : i \in DOMAIN open \/ i = last
  <2>1. open \in Seq(Nat) /\ fd \in Nat /\ opened = Append(open, fd)
    BY <1>1
  <2> HIDE DEF open, opened
  <2> QED BY <2>1, Appended
<1>3. /\ es \in Seq(DescriptorRecords) /\ DOMAIN es = DOMAIN ds \cup {fd}
      /\ \A d \in DOMAIN ds : es[d] = ds[d]
      /\ es[fd].node = n
  <2>1. new \in DescriptorRecords /\ new.node = n
    BY <1>1 DEF DescriptorRecords
  <2>2. Len(es) = Len(ds) + 1 /\ es \in Seq(DescriptorRecords) /\ es[fd] = new
        /\ \A d \in 1 .. Len(ds) : es[d] = ds[d]
    <3> HIDE DEF new
    <3> QED BY <1>1, <2>1
  <2>3. DOMAIN es = 1 .. Len(ds) + 1
    <3> HIDE DEF es
    <3> QED BY <2>2, <1>1
  <2>4. 1 .. Len(ds) + 1 = (1 .. Len(ds)) \cup {fd}
    <3>1. \A k \in Nat : 1 .. k + 1 = (1 .. k) \cup {k + 1}
      OBVIOUS
    <3>2. Len(ds) \in Nat
      BY <1>1
    <3> QED BY <3>1, <3>2
  <2> QED BY <1>1, <2>1, <2>2, <2>3, <2>4
<1> HIDE DEF opened, es
<1>4. /\ node \in NodeRecords /\ node.name = ns[n].name /\ node.parent = ns[n].parent
      /\ node.childrenCreated = ns[n].childrenCreated /\ node.children = ns[n].children
      /\ node.openFileDescriptors = opened
  BY <1>1, <1>2 DEF NodeRecords
<1>5. /\ me \in ClientRecords /\ me.held = w.me.held \cup {fd} /\ me.closed = w.me.closed
      /\ me.node = w.me.node /\ me.call = w.me.call /\ me.calls = w.me.calls
  BY <1>1 DEF ClientRecords
<1>6. v = [w EXCEPT !.descriptors = es, !.nodes = ms, !.me = me]
  BY <1>1 DEF es, opened, Worlds, Opening
<1> HIDE DEF node, me
<1>7. ms \in Seq(NodeRecords) /\ DOMAIN ms = DOMAIN ns /\ \A m \in DOMAIN ns : ms[m] = IF m = n THEN node ELSE ns[m]
  BY <1>1, <1>4, ExceptSeq
<1> HIDE DEF ms
<1>8. v \in Worlds /\ v.nodes = ms /\ v.descriptors = es /\ v.me = me
  BY <1>1, <1>3, <1>5, <1>6, <1>7 DEF Worlds
<1>9. SameTree(ns, ms)
  BY <1>4, <1>7 DEF SameTree
<1>10. Opened(ms, es)
  <2>1. \A d \in DOMAIN es : es[d].node \in DOMAIN ms
    BY <1>1, <1>3, <1>7 DEF Opened
  <2>2. ASSUME NEW m \in DOMAIN ms, m # n
        PROVE  /\ IsInjective(ms[m].openFileDescriptors)
               /\ \A i \in DOMAIN ms[m].openFileDescriptors :
                    LET d == ms[m].openFileDescriptors[i] IN d \in DOMAIN es /\ es[d].node = m
    <3>1. m \in DOMAIN ns /\ ms[m] = ns[m]
      BY <2>2, <1>7
    <3>2. /\ IsInjective(ns[m].openFileDescriptors)
          /\ \A i \in DOMAIN ns[m].openFileDescriptors :
               ns[m].openFileDescriptors[i] \in DOMAIN ds /\ ds[ns[m].openFileDescriptors[i]].node = m
      BY <3>1, <1>1 DEF Opened
    <3> QED BY <3>1, <3>2, <1>3
  <2>3. ms[n].openFileDescriptors = opened
    BY <1>4, <1>7
  <2>4. IsInjective(open) /\ \A i \in DOMAIN open : open[i] \in DOMAIN ds /\ ds[open[i]].node = n
    BY <1>1 DEF Opened
  <2>5. PICK last \in DOMAIN opened :
          opened[last] = fd /\ \A i \in DOMAIN opened : i \in DOMAIN open \/ i = last
    BY <1>2
  <2>6. \A i \in DOMAIN open : opened[i] = open[i] /\ opened[i] # fd
    BY <1>1, <1>2, <2>4
  <2>7. ASSUME NEW i \in DOMAIN opened, NEW j \in DOMAIN opened, opened[i] = opened[j]
        PROVE  i = j
    <3> HIDE DEF open
    <3> QED BY <2>4, <2>5, <2>6, <2>7 DEF IsInjective
  <2>8. IsInjective(opened)
    BY <2>7 DEF IsInjective
  <2>9. \A i \in DOMAIN opened : opened[i] \in DOMAIN es /\ es[opened[i]].node = n
    <3> HIDE DEF open
    <3> QED BY <1>3, <2>4, <2>5, <2>6
  <2> QED BY <2>1, <2>2, <2>3, <2>8, <2>9 DEF Opened
<1>11. \A d \in DOMAIN ds :
         /\ ds[d].node \in DOMAIN ns
         /\ Contains(ns[ds[d].node].openFileDescriptors, d)
              => Contains(ms[ds[d].node].openFileDescriptors, d)
  <2> SUFFICES ASSUME NEW d \in DOMAIN ds, Contains(ns[ds[d].node].openFileDescriptors, d)
               PROVE  Contains(ms[ds[d].node].openFileDescriptors, d)
    BY <1>1 DEF Opened
  <2>1. CASE ds[d].node = n
    <3>1. PICK i \in DOMAIN open : open[i] = d
      BY <2>1, <1>1 DEF Contains
    <3>2. i \in 1 .. Len(opened) /\ opened[i] = d
      BY <3>1, <1>2
    <3> QED BY <2>1, <3>2, <1>4, <1>7 DEF Contains
  <2>2. CASE ds[d].node # n
    BY <2>2, <1>1, <1>7 DEF Opened
  <2> QED BY <2>1, <2>2
<1>12. Contains(ms[n].openFileDescriptors, fd)
  <2>1. \E last \in 1 .. Len(opened) : opened[last] = fd
    BY <1>2
  <2> QED BY <2>1, <1>4, <1>7 DEF Contains
<1>13. Holds(me, ms, es)
  BY <1>1, <1>3, <1>5, <1>11, <1>12 DEF Holds
<1>14. \A d \in Clients \ {c} :
         /\ clients[d].held \subseteq DOMAIN ds
         /\ clients[d].held \cap me.held = {}
  BY <1>1, <1>5 DEF Others, Client, Holds
<1>15. Good(v, c)
  <2>1. SameTree(w.nodes, v.nodes) /\ v.me.node \in DOMAIN w.nodes
    BY <1>1, <1>5, <1>8, <1>9
  <2>2. /\ DOMAIN w.descriptors \subseteq DOMAIN v.descriptors
        /\ \A d \in DOMAIN w.descriptors : v.descriptors[d].node = w.descriptors[d].node
    BY <1>3, <1>8
  <2>3. Opened(v.nodes, v.descriptors) /\ Holds(v.me, v.nodes, v.descriptors)
    BY <1>8, <1>10, <1>13
  <2>4. \A d \in Clients \ {c} :
          /\ clients[d].held \cap v.me.held = {}
          /\ \A f \in clients[d].held \ clients[d].closed :
               Contains(w.nodes[w.descriptors[f].node].openFileDescriptors, f)
                 => Contains(v.nodes[w.descriptors[f].node].openFileDescriptors, f)
    BY <1>8, <1>11, <1>14
  <2> QED BY <1>8, <2>1, <2>2, <2>3, <2>4, RelistedIsGood
<1> QED
  BY <1>5, <1>8, <1>15


\* What the medium promises once the path has led to d.
LEMMA PromisedInDirectory ==
  ASSUME NEW l \in Lookups, l.valid, l.slash = (l.op = "list"),
         NEW d, Resolve(Path(l))[Len(Path(l))] = [status |-> "Ok", name |-> d]
  PROVE  /\ d \notin Directories => Promised(l) = "NotDirectory"
         /\ d \in Directories =>
              /\ l.op = "list" => Promised(l) = "Ok"
              /\ l.op = "open" =>
                   Promised(l) = IF ~ Contains(Disk[d], Last(l.parts)) THEN "NoSuchDirectoryOrFile"
                                 ELSE IF Last(l.parts) \in Directories THEN "NotFile" ELSE "Ok"
BY DEF Promised

\* A call that has come to its end keeps the invariant.
Comes(v, w, c) == Good(v, c) /\ Ready(v) /\ v.me.calls = w.me.calls

\* A call on an open file does not wait for a directory, and loses no pointer.
OnFile(v, w, op) ==
  /\ v.me.call = [op |-> op] /\ ~ Waits(v.me)
  /\ Spares(w.nodes, w.descriptors, v.nodes, v.descriptors)

\* openFile tells the truth about the name in the parent that it has.
LEMMA OpenInHolds ==
  ASSUME NEW c \in Clients, NEW w, Good(w, c), Arrived(w), w.me.call.op = "open",
         w.nodes[w.me.node].childrenCreated, NEW slept, NEW v, v = OpenIn(w, slept)
  PROVE  Comes(v, w, c) /\ v.me.pc = "idle"
<1> DEFINE l == w.me.call
           ns == w.nodes
           d == ns[w.me.node].name
           name == Last(l.parts)
           found == Named(ns, w.me.node, name)
           n == ns[w.me.node].children[Max(found)]
           u == Opening(w, n, slept)
<1>1. /\ l \in Lookups /\ l.valid /\ l.slash = (l.op = "list")
      /\ Resolve(Path(l))[Len(Path(l))] = [status |-> "Ok", name |-> d]
  BY DEF Arrived
<1>2. ns \in Seq(NodeRecords) /\ Tree(ns) /\ w.me.node \in DOMAIN ns
  BY WorldTypes DEF Good
<1>3. /\ d \in Directories
      /\ found # {} <=> Contains(Disk[d], name)
      /\ found # {} => n \in DOMAIN ns
  BY <1>2, NamedIs
<1>4. Promised(l) = IF ~ Contains(Disk[d], name) THEN "NoSuchDirectoryOrFile"
                    ELSE IF name \in Directories THEN "NotFile" ELSE "Ok"
  <2> HIDE DEF l, d
  <2> QED BY <1>1, <1>3, PromisedInDirectory DEF l
<1>5. v = IF found = {}
          THEN IF l.create THEN Fail(w, "not_implemented") ELSE Return(w, "NoSuchDirectoryOrFile")
          ELSE IF name \in Directories THEN Return(w, "NotFile") ELSE Return(u, "Ok")
  BY Zenon DEF OpenIn, Opening
<1> HIDE DEF found, n, u, name, d
<1>6. CASE found = {} /\ l.create
  BY <1>5, <1>6, FailHolds DEF Failures, Comes
<1>7. CASE found = {} /\ ~ l.create
  <2>1. v = Return(w, "NoSuchDirectoryOrFile") /\ Promised(w.me.call) = "NoSuchDirectoryOrFile"
    BY <1>3, <1>4, <1>5, <1>7
  <2> QED BY <2>1, ReturnIsReady DEF Statuses, Comes
<1>8. CASE found # {} /\ name \in Directories
  <2>1. v = Return(w, "NotFile") /\ Promised(w.me.call) = "NotFile"
    BY <1>3, <1>4, <1>5, <1>8
  <2> QED BY <2>1, ReturnIsReady DEF Statuses, Comes
<1>9. CASE found # {} /\ name \notin Directories
  <2>1. v = Return(u, "Ok") /\ Promised(w.me.call) = "Ok"
    BY <1>3, <1>4, <1>5, <1>9
  <2>2. n \in DOMAIN w.nodes
    BY <1>3, <1>9
  <2>3. Good(u, c) /\ u.me.call = w.me.call /\ u.me.calls = w.me.calls
    BY <2>2, DescriptorIsListed DEF u
  <2> QED BY <2>1, <2>3, ReturnIsReady DEF Statuses, Comes
<1> QED
  BY <1>6, <1>7, <1>8, <1>9

\* So does a call that has its directory, read.
LEMMA HaveDirectoryHolds ==
  ASSUME NEW c \in Clients, NEW w, Good(w, c), Arrived(w),
         w.nodes[w.me.node].childrenCreated, NEW slept, NEW v, v = HaveDirectory(w, slept)
  PROVE  Comes(v, w, c) /\ v.me.pc = "idle"
<1> DEFINE u == Lose(w, w.me.node, slept)
<1>1. w.me.node \in DOMAIN w.nodes /\ w.nodes \in Seq(NodeRecords) /\ Tree(w.nodes)
  BY WorldTypes DEF Good
<1>2. /\ Good(u, c) /\ SameNodes(w.nodes, u.nodes)
      /\ u.me = w.me /\ u.failed = w.failed /\ u.descriptors = w.descriptors
  BY <1>1, LoseHolds
<1>3. v = IF w.me.call.op = "list" THEN Return(u, "Ok") ELSE OpenIn(u, slept)
  BY DEF HaveDirectory
<1> HIDE DEF u
<1>4. /\ u.nodes[u.me.node].name = w.nodes[w.me.node].name
      /\ u.nodes[u.me.node].childrenCreated = w.nodes[w.me.node].childrenCreated
  BY <1>1, <1>2 DEF SameNodes, SameTree
<1>5. CASE w.me.call.op = "list"
  <2>1. w.nodes[w.me.node].name \in Directories
    BY <1>1 DEF Tree, Lists
  <2>2. Promised(w.me.call) = "Ok"
    BY <2>1, <1>5, PromisedInDirectory DEF Arrived
  <2> QED BY <2>2, <1>2, <1>3, <1>5, ReturnIsReady DEF Statuses, Comes
<1>6. CASE w.me.call.op # "list"
  <2>1. Arrived(u)
    BY <1>2, <1>4 DEF Arrived
  <2>2. u.me.call.op = "open"
    BY <1>2, <1>6, LookupTypes DEF Arrived
  <2>3. v = OpenIn(u, slept) /\ u.nodes[u.me.node].childrenCreated
    BY <1>3, <1>4, <1>6
  <2>4. Comes(v, u, c) /\ v.me.pc = "idle"
    BY <1>2, <2>1, <2>2, <2>3, OpenInHolds
  <2> QED BY <1>2, <2>4 DEF Comes
<1> QED
  BY <1>5, <1>6

\* readDirectory of the file systems returns the truth, or waits for the contents.
LEMMA ReadDirectoryHolds ==
  ASSUME NEW c \in Clients, NEW w, Good(w, c), Arrived(w), w.failed = "no",
         NEW free, NEW v, v = ReadDirectory(w, free)
  PROVE  Comes(v, w, c)
<1> DEFINE u == Lose(w, w.me.node, w.me.slept)
           me == [u.me EXCEPT !.pc = "listing", !.done = 0]
<1>1. w.me.node \in DOMAIN w.nodes
  BY DEF Good
<1>2. /\ Good(u, c) /\ SameNodes(w.nodes, u.nodes)
      /\ u.me = w.me /\ u.failed = w.failed /\ u.descriptors = w.descriptors
  BY <1>1, LoseHolds
<1>3. /\ ~ IsDirectory(w.nodes[w.me.node]) => v = Return(u, "NotDirectory")
      /\ IsDirectory(w.nodes[w.me.node]) =>
           /\ w.nodes[w.me.node].childrenCreated => v = HaveDirectory(u, w.me.slept)
           /\ ~ w.nodes[w.me.node].childrenCreated =>
                v = IF free THEN [u EXCEPT !.me = me] ELSE Return(u, "IOError")
  BY DEF ReadDirectory, NoContents
<1> HIDE DEF u
<1>4. /\ u.nodes[u.me.node].name = w.nodes[w.me.node].name
      /\ u.nodes[u.me.node].childrenCreated = w.nodes[w.me.node].childrenCreated
  BY <1>1, <1>2 DEF SameNodes, SameTree
<1>5. Arrived(u)
  BY <1>2, <1>4 DEF Arrived
<1>6. CASE ~ IsDirectory(w.nodes[w.me.node])
  <2>1. Promised(w.me.call) = "NotDirectory"
    BY <1>6, PromisedInDirectory DEF Arrived, IsDirectory
  <2> QED BY <2>1, <1>2, <1>3, <1>6, ReturnIsReady DEF Statuses, Comes
<1>7. CASE IsDirectory(w.nodes[w.me.node]) /\ w.nodes[w.me.node].childrenCreated
  <2>1. v = HaveDirectory(u, w.me.slept) /\ u.nodes[u.me.node].childrenCreated
    BY <1>3, <1>4, <1>7
  <2>2. Comes(v, u, c)
    BY <1>2, <1>5, <2>1, HaveDirectoryHolds
  <2> QED BY <1>2, <2>2 DEF Comes
<1>8. CASE IsDirectory(w.nodes[w.me.node]) /\ ~ w.nodes[w.me.node].childrenCreated /\ ~ free
  BY <1>2, <1>3, <1>8, ReturnIsReady DEF Statuses, Comes
<1>9. CASE IsDirectory(w.nodes[w.me.node]) /\ ~ w.nodes[w.me.node].childrenCreated /\ free
  <2>1. v = [u EXCEPT !.me = me]
    BY <1>3, <1>9
  <2>2. u \in Worlds /\ u.me \in ClientRecords
    BY <1>2, WorldTypes DEF Good
  <2>3. /\ me \in ClientRecords /\ me.pc = "listing" /\ me.done = 0 /\ me.node = u.me.node
        /\ me.call = u.me.call /\ me.calls = u.me.calls
        /\ me.held = u.me.held /\ me.closed = u.me.closed
    BY <2>2 DEF ClientRecords
  <2> HIDE DEF me
  <2>4. /\ v \in Worlds /\ v.me = me /\ v.nodes = u.nodes /\ v.descriptors = u.descriptors
    BY <2>1, <2>2, <2>3 DEF Worlds
  <2>5. Good(v, c)
    <3>1. SameNodes(u.nodes, v.nodes) /\ v.me.node \in DOMAIN u.nodes
      BY <1>2, <2>3, <2>4 DEF SameNodes, SameTree, Good
    <3> QED BY <3>1, <1>2, <2>3, <2>4, SameIsGood
  <2>6. OnItsWay(v.me, v.nodes)
    <3>1. v.me.call \in Lookups /\ Len(Path(v.me.call)) \in Nat
      BY <1>5, <2>3, <2>4, LookupTypes DEF Arrived
    <3>2. /\ v.me.call.valid /\ v.me.call.slash = (v.me.call.op = "list")
          /\ Resolve(Path(v.me.call))[Len(Path(v.me.call))]
               = [status |-> "Ok", name |-> v.nodes[v.me.node].name]
      BY <1>5, <2>3, <2>4 DEF Arrived
    <3>3. v.nodes[v.me.node].name \in Directories
      BY <1>4, <1>9, <2>3, <2>4 DEF IsDirectory
    <3> QED BY <3>1, <3>2, <3>3, <2>3, <2>4 DEF OnItsWay
  <2>7. Ready(v)
    BY <1>4, <1>9, <2>3, <2>4, <2>6 DEF Ready, Truthful
  <2> QED BY <1>2, <2>3, <2>4, <2>5, <2>7 DEF Comes
<1> QED
  BY <1>6, <1>7, <1>8, <1>9


-----------------------------------------------------------------------------
(* getInfo *)

Spots ==
  [node : Nat, done : Nat, stop : {"no", "unread", "NotDirectory", "NoSuchDirectoryOrFile"}]

\* One turn of the loop follows one name of the path, or tells why it cannot.
LEMMA EnterFollows ==
  ASSUME NEW ns \in Seq(NodeRecords), Tree(ns), NEW at \in Spots, at.stop = "no",
         at.node \in DOMAIN ns, NEW name,
         NEW f, f = [status |-> "Ok", name |-> ns[at.node].name],
         NEW next, next = Enter(ns, at, name)
  PROVE  /\ next \in Spots
         /\ next.stop = "no" =>
              /\ next.node \in DOMAIN ns /\ next.done = at.done + 1
              /\ Follow(f, name) = [status |-> "Ok", name |-> ns[next.node].name]
         /\ next.stop = "unread" =>
              /\ next.node = at.node /\ next.done = at.done
              /\ ns[at.node].name \in Directories /\ ~ ns[at.node].childrenCreated
         /\ next.stop \in {"NotDirectory", "NoSuchDirectoryOrFile"} =>
              Follow(f, name).status = next.stop
<1> DEFINE d == ns[at.node].name
           found == Named(ns, at.node, name)
           child == ns[at.node].children[Min(found)]
           parent == ns[at.node].parent
           to == CASE name = "." -> at.node
                   [] name = ".." -> parent
                   [] name \notin {".", ".."} /\ found # {} -> child
                   [] OTHER -> 0
<1>1. \A n \in DOMAIN ns : n \in Nat /\ n # 0
  BY NodeTypes
<1>2. /\ f.status = "Ok" /\ f.name = d
      /\ \A x : [f EXCEPT !.name = x] = [status |-> "Ok", name |-> x]
      /\ \A x : [f EXCEPT !.status = x].status = x
  OBVIOUS
<1>3. /\ \A x \in {"unread", "NotDirectory", "NoSuchDirectoryOrFile"} :
           /\ [at EXCEPT !.stop = x] \in Spots /\ [at EXCEPT !.stop = x].stop = x
           /\ [at EXCEPT !.stop = x].node = at.node /\ [at EXCEPT !.stop = x].done = at.done
      /\ \A n \in Nat :
           /\ [at EXCEPT !.node = n, !.done = @ + 1] \in Spots
           /\ [at EXCEPT !.node = n, !.done = @ + 1].stop = "no"
           /\ [at EXCEPT !.node = n, !.done = @ + 1].node = n
           /\ [at EXCEPT !.node = n, !.done = @ + 1].done = at.done + 1
  <2>1. ASSUME NEW x \in {"unread", "NotDirectory", "NoSuchDirectoryOrFile"}
        PROVE  /\ [at EXCEPT !.stop = x] \in Spots /\ [at EXCEPT !.stop = x].stop = x
               /\ [at EXCEPT !.stop = x].node = at.node /\ [at EXCEPT !.stop = x].done = at.done
    BY DEF Spots
  <2>2. ASSUME NEW n \in Nat
        PROVE  /\ [at EXCEPT !.node = n, !.done = @ + 1] \in Spots
               /\ [at EXCEPT !.node = n, !.done = @ + 1].stop = "no"
               /\ [at EXCEPT !.node = n, !.done = @ + 1].node = n
               /\ [at EXCEPT !.node = n, !.done = @ + 1].done = at.done + 1
    <3>1. ASSUME NEW k \in Nat
          PROVE  /\ [at EXCEPT !.node = n, !.done = k] \in Spots
                 /\ [at EXCEPT !.node = n, !.done = k].stop = "no"
                 /\ [at EXCEPT !.node = n, !.done = k].node = n
                 /\ [at EXCEPT !.node = n, !.done = k].done = k
      BY DEF Spots
    <3>2. at.done \in Nat
      BY DEF Spots
    <3>3. at.done + 1 \in Nat
      BY <3>2
    <3> QED BY <3>1, <3>3
  <2> QED BY <2>1, <2>2
<1>4. next = IF d \notin Directories THEN [at EXCEPT !.stop = "NotDirectory"]
             ELSE IF ~ ns[at.node].childrenCreated THEN [at EXCEPT !.stop = "unread"]
             ELSE IF to = 0 THEN [at EXCEPT !.stop = "NoSuchDirectoryOrFile"]
             ELSE [at EXCEPT !.node = to, !.done = @ + 1]
  BY DEF Enter, IsDirectory
<1>5. Follow(f, name) = IF d \notin Directories THEN [f EXCEPT !.status = "NotDirectory"]
                        ELSE IF name = "." THEN f
                        ELSE IF name = ".." THEN [f EXCEPT !.name = ParentOf(d)]
                        ELSE IF Contains(Disk[d], name) THEN [f EXCEPT !.name = name]
                        ELSE [f EXCEPT !.status = "NoSuchDirectoryOrFile"]
  BY <1>2 DEF Follow
<1>6. parent \in DOMAIN ns /\ ns[parent].name = ParentOf(d)
  <2>1. CASE at.node = 1
    BY <2>1 DEF Tree, ParentOf
  <2>2. CASE at.node # 1
    BY <2>2, ParentOfEntry DEF Tree
  <2> QED BY <2>1, <2>2
<1>7. ns[at.node].childrenCreated =>
        /\ found # {} <=> Contains(Disk[d], name)
        /\ found # {} => child \in DOMAIN ns /\ ns[child].name = name
  <2> SUFFICES ASSUME ns[at.node].childrenCreated
               PROVE  /\ found # {} <=> Contains(Disk[d], name)
                      /\ found # {} => child \in DOMAIN ns /\ ns[child].name = name
    OBVIOUS
  <2> HIDE DEF found
  <2>1. found = Named(ns, at.node, name)
    BY DEF found
  <2> QED BY <2>1, NamedIs
<1>8. /\ name = "." => to = at.node
      /\ name = ".." => to = parent
      /\ name \notin {".", ".."} /\ found # {} => to = child
      /\ name \notin {".", ".."} /\ found = {} => to = 0
  <2> HIDE DEF found, child, parent
  <2> QED OBVIOUS
<1> HIDE DEF found, child, parent, to
<1>9. CASE d \notin Directories
  BY <1>2, <1>3, <1>4, <1>5, <1>9
<1>10. CASE d \in Directories /\ ~ ns[at.node].childrenCreated
  BY <1>3, <1>4, <1>10
<1>11. CASE d \in Directories /\ ns[at.node].childrenCreated
  <2> DEFINE step == [at EXCEPT !.node = to, !.done = @ + 1]
  <2>1. CASE name \notin {".", ".."} /\ found = {}
    <3>1. next = [at EXCEPT !.stop = "NoSuchDirectoryOrFile"]
      BY <1>4, <1>8, <1>11, <2>1
    <3>2. Follow(f, name).status = "NoSuchDirectoryOrFile"
      BY <1>2, <1>5, <1>7, <1>11, <2>1
    <3>3. next \in Spots /\ next.stop = "NoSuchDirectoryOrFile"
      BY <1>3, <3>1
    <3> QED BY <3>2, <3>3
  <2>2. CASE name \in {".", ".."} \/ found # {}
    <3>1. /\ to \in DOMAIN ns
          /\ Follow(f, name) = [status |-> "Ok", name |-> ns[to].name]
      <4>1. CASE name = "."
        BY <1>5, <1>8, <1>11, <4>1
      <4>2. CASE name = ".."
        BY <1>2, <1>5, <1>6, <1>8, <1>11, <4>2
      <4>3. CASE name \notin {".", ".."} /\ found # {}
        BY <1>2, <1>5, <1>7, <1>8, <1>11, <4>3
      <4> QED BY <2>2, <4>1, <4>2, <4>3
    <3>2. to \in Nat /\ to # 0
      BY <3>1, <1>1
    <3>3. next = step /\ step \in Spots /\ step.stop = "no" /\ step.node = to /\ step.done = at.done + 1
      BY <1>3, <1>4, <1>11, <3>2
    <3> HIDE DEF step
    <3> QED BY <3>1, <3>3
  <2> QED BY <2>1, <2>2
<1> QED
  BY <1>9, <1>10, <1>11

\* What is true of the loop after turn i.
Turned(ns, r, g, i) ==
  /\ g[i] \in Spots
  /\ g[i].stop = "no" =>
       /\ g[i].node \in DOMAIN ns /\ g[i].done = i
       /\ r[i] = [status |-> "Ok", name |-> ns[g[i].node].name]
  /\ g[i].stop = "unread" =>
       /\ g[i].node \in DOMAIN ns /\ g[i].done < i
       /\ ns[g[i].node].name \in Directories /\ ~ ns[g[i].node].childrenCreated
       /\ r[g[i].done] = [status |-> "Ok", name |-> ns[g[i].node].name]
  /\ g[i].stop \in {"NotDirectory", "NoSuchDirectoryOrFile"} => r[i].status = g[i].stop

\* After each turn of its loop getInfo is where the medium says: at the node of
\* that name, or stopped with that status.
LEMMA WalkFollows ==
  ASSUME NEW ns \in Seq(NodeRecords), Tree(ns), NEW path, Len(path) \in Nat,
         NEW at \in Spots, at.stop = "no", at.node \in DOMAIN ns, at.done <= Len(path),
         NEW r, r = Resolve(path),
         r[at.done] = [status |-> "Ok", name |-> ns[at.node].name],
         NEW g, g = Walk(ns, at, path)
  PROVE  Turned(ns, r, g, Len(path))
<1> DEFINE from == at.done
           Missing == {i \in from .. Len(path) : ~ Turned(ns, r, g, i)}
<1>1. from \in Nat /\ from <= Len(path)
  BY DEF Spots
<1>2. /\ g[from] = at
      /\ \A i \in from + 1 .. Len(path) : g[i] = Enter(ns, g[i - 1], path[i])
  BY <1>1, WalkDefined
<1>3. \A i \in 1 .. Len(path) : r[i] = Follow(r[i - 1], path[i])
  BY ResolveDefined
<1>4. Turned(ns, r, g, from)
  BY <1>1, <1>2 DEF Turned
<1> HIDE DEF from
<1>5. ASSUME NEW i \in Nat, i \in from + 1 .. Len(path), Turned(ns, r, g, i - 1)
      PROVE  Turned(ns, r, g, i)
  <2> DEFINE p == g[i - 1]
             q == g[i]
  <2>1. /\ i - 1 \in Nat /\ i - 1 + 1 = i /\ i - 1 < i
        /\ q = Enter(ns, p, path[i]) /\ r[i] = Follow(r[i - 1], path[i])
    BY <1>1, <1>2, <1>3, <1>5
  <2>2. /\ p \in Spots
        /\ p.stop = "no" =>
             /\ p.node \in DOMAIN ns /\ p.done = i - 1
             /\ r[i - 1] = [status |-> "Ok", name |-> ns[p.node].name]
        /\ p.stop = "unread" =>
             /\ p.node \in DOMAIN ns /\ p.done < i - 1
             /\ ns[p.node].name \in Directories /\ ~ ns[p.node].childrenCreated
             /\ r[p.done] = [status |-> "Ok", name |-> ns[p.node].name]
        /\ p.stop \in {"NotDirectory", "NoSuchDirectoryOrFile"} => r[i - 1].status = p.stop
    BY <1>5 DEF Turned
  <2> HIDE DEF p, q
  <2>3. CASE p.stop = "no"
    <3> DEFINE f == [status |-> "Ok", name |-> ns[p.node].name]
    <3>1. p.node \in DOMAIN ns /\ p.done = i - 1 /\ r[i] = Follow(f, path[i])
      BY <2>1, <2>2, <2>3
    <3> HIDE DEF f
    <3>2. f = [status |-> "Ok", name |-> ns[p.node].name]
      BY DEF f
    <3>3. /\ q \in Spots
          /\ q.stop = "no" =>
               /\ q.node \in DOMAIN ns /\ q.done = p.done + 1
               /\ r[i] = [status |-> "Ok", name |-> ns[q.node].name]
          /\ q.stop = "unread" =>
               /\ q.node = p.node /\ q.done = p.done
               /\ ns[p.node].name \in Directories /\ ~ ns[p.node].childrenCreated
          /\ q.stop \in {"NotDirectory", "NoSuchDirectoryOrFile"} => r[i].status = q.stop
      BY <2>1, <2>2, <2>3, <3>1, <3>2, EnterFollows
    <3>4. q.stop = "no" => q.done = i
      BY <2>1, <3>1, <3>3
    <3>5. q.stop = "unread" =>
            q.done < i /\ r[q.done] = [status |-> "Ok", name |-> ns[q.node].name]
      BY <2>1, <2>2, <2>3, <3>1, <3>3
    <3> QED BY <3>1, <3>3, <3>4, <3>5 DEF Turned, q
  <2>4. CASE p.stop # "no"
    <3>1. q = p
      BY <2>1, <2>4 DEF Enter
    <3>2. p.stop \in {"unread", "NotDirectory", "NoSuchDirectoryOrFile"} /\ p.done \in Nat
      BY <2>2, <2>4 DEF Spots
    <3>3. p.stop = "unread" => p.done < i
      BY <2>1, <2>2, <3>2
    <3>4. p.stop \in {"NotDirectory", "NoSuchDirectoryOrFile"} => r[i].status = p.stop
      BY <2>1, <2>2 DEF Follow
    <3> QED BY <2>2, <3>1, <3>2, <3>3, <3>4 DEF Turned, q
  <2> QED BY <2>3, <2>4
<1>6. Missing = {}
  <2> SUFFICES ASSUME Missing # {}
               PROVE  FALSE
    OBVIOUS
  <2>1. PICK i \in Missing : \A j \in Missing : i <= j
    <3>1. Missing \in SUBSET Nat
      BY <1>1
    <3> HIDE DEF Missing
    <3> QED BY <3>1, LeastNatural
  <2>2. i \in from .. Len(path) /\ ~ Turned(ns, r, g, i)
    OBVIOUS
  <2>3. i # from
    BY <1>4, <2>2
  <2>4. i \in Nat /\ i \in from + 1 .. Len(path) /\ i - 1 \in from .. Len(path) /\ ~ (i <= i - 1)
    BY <1>1, <2>2, <2>3
  <2>5. Turned(ns, r, g, i - 1)
    BY <2>1, <2>4
  <2> QED BY <1>5, <2>2, <2>4, <2>5
<1> QED
  BY <1>1, <1>6


\* getInfo has followed some of the names.
Going(w) ==
  LET l == w.me.call
  IN  /\ l \in Lookups /\ l.valid /\ l.slash = (l.op = "list")
      /\ w.me.done <= Len(Path(l))
      /\ Resolve(Path(l))[w.me.done] = [status |-> "Ok", name |-> w.nodes[w.me.node].name]

Moved(w, n, k) == [w EXCEPT !.me.node = n, !.me.done = k]

\* A call that has got to another node has changed nothing else.
LEMMA MovedIsGood ==
  ASSUME NEW c \in Clients, NEW w, Good(w, c), NEW n \in DOMAIN w.nodes, NEW k \in Nat,
         NEW v, v = Moved(w, n, k)
  PROVE  /\ Good(v, c) /\ v.nodes = w.nodes /\ v.failed = w.failed
         /\ v.me.node = n /\ v.me.done = k /\ v.me.call = w.me.call /\ v.me.calls = w.me.calls
<1> DEFINE me == [w.me EXCEPT !.node = n, !.done = k]
<1>1. w \in Worlds /\ w.me \in ClientRecords /\ n \in Nat
  BY WorldTypes, NodeTypes DEF Good
<1>2. /\ me \in ClientRecords /\ me.node = n /\ me.done = k /\ me.call = w.me.call
      /\ me.calls = w.me.calls /\ me.held = w.me.held /\ me.closed = w.me.closed
  BY <1>1 DEF ClientRecords
<1>3. v = [w EXCEPT !.me = me]
  BY <1>1 DEF Worlds, Moved
<1> HIDE DEF me
<1>4. /\ v \in Worlds /\ v.me = me /\ v.nodes = w.nodes /\ v.descriptors = w.descriptors
      /\ v.failed = w.failed
  BY <1>1, <1>2, <1>3 DEF Worlds
<1>5. SameNodes(w.nodes, v.nodes)
  BY <1>4 DEF SameNodes, SameTree
<1>6. Good(v, c)
  BY <1>2, <1>4, <1>5, SameIsGood
<1> QED
  BY <1>2, <1>4, <1>6

\* getInfo returns the truth, or waits on its way.
LEMMA GetInfoHolds ==
  ASSUME NEW c \in Clients, NEW w, Good(w, c), Going(w), w.failed = "no",
         NEW free \in BOOLEAN, NEW v, v = GetInfo(w, free)
  PROVE  Comes(v, w, c)
<1> DEFINE l == w.me.call
           path == Path(l)
           ns == w.nodes
           at == [node |-> w.me.node, done |-> w.me.done, stop |-> "no"]
           g == Walk(ns, at, path)
           r == Resolve(path)
           end == g[Len(path)]
           there == Moved(w, end.node, end.done)
           waiting == [there EXCEPT !.me.pc = "walking", !.me.slept = TRUE]
<1>1. /\ w \in Worlds /\ w.me \in ClientRecords /\ ns \in Seq(NodeRecords) /\ Tree(ns)
      /\ w.me.node \in DOMAIN ns /\ w.me.node \in Nat /\ w.me.done \in Nat
  BY WorldTypes, ClientTypes DEF Good
<1>2. l \in Lookups /\ l.valid /\ l.slash = (l.op = "list") /\ Len(path) \in Nat
      /\ w.me.done <= Len(path)
  BY LookupTypes DEF Going
<1>3. at \in Spots /\ at.stop = "no" /\ at.node = w.me.node /\ at.done = w.me.done
  BY <1>1 DEF Spots
<1>4. v = CASE end.stop = "no" -> ReadDirectory(there, free)
            [] end.stop = "unread" /\ free -> waiting
            [] end.stop = "unread" /\ ~ free -> NoContents(there)
            [] OTHER -> Return(w, end.stop)
  BY DEF GetInfo, Moved
<1>5. r[w.me.done] = [status |-> "Ok", name |-> ns[w.me.node].name]
  BY DEF Going
<1> HIDE DEF l, path, at
<1>6. Turned(ns, r, g, Len(path))
  <2>1. r = Resolve(path) /\ g = Walk(ns, at, path)
    OBVIOUS
  <2> HIDE DEF r, g
  <2> QED BY <1>1, <1>2, <1>3, <1>5, <2>1, WalkFollows
<1> HIDE DEF r, g
<1>7. /\ end \in Spots
      /\ end.stop = "no" =>
           /\ end.node \in DOMAIN ns /\ end.done = Len(path)
           /\ r[Len(path)] = [status |-> "Ok", name |-> ns[end.node].name]
      /\ end.stop = "unread" =>
           /\ end.node \in DOMAIN ns /\ end.done < Len(path)
           /\ ns[end.node].name \in Directories /\ ~ ns[end.node].childrenCreated
           /\ r[end.done] = [status |-> "Ok", name |-> ns[end.node].name]
      /\ end.stop \in {"NotDirectory", "NoSuchDirectoryOrFile"} => r[Len(path)].status = end.stop
  BY <1>6 DEF Turned
<1> HIDE DEF end
<1>8. /\ end.stop \in {"no", "unread", "NotDirectory", "NoSuchDirectoryOrFile"}
      /\ end.node \in Nat /\ end.done \in Nat
  BY <1>7 DEF Spots
<1>9. CASE end.stop \in {"NotDirectory", "NoSuchDirectoryOrFile"}
  <2>1. v = Return(w, end.stop)
    BY <1>4, <1>9
  <2>2. Promised(l) = end.stop
    BY <1>2, <1>7, <1>9 DEF Promised, path, r
  <2> QED BY <2>1, <2>2, <1>9, ReturnIsReady DEF Statuses, Comes, l
<1>10. ASSUME end.stop \in {"no", "unread"}
       PROVE  /\ Good(there, c) /\ there.nodes = ns /\ there.failed = "no"
              /\ there.me.node = end.node /\ there.me.done = end.done
              /\ there.me.call = l /\ there.me.calls = w.me.calls
  <2>1. end.node \in DOMAIN ns
    BY <1>7, <1>10
  <2>2. /\ Good(there, c) /\ there.nodes = w.nodes /\ there.failed = w.failed
        /\ there.me.node = end.node /\ there.me.done = end.done
        /\ there.me.call = w.me.call /\ there.me.calls = w.me.calls
    BY <2>1, <1>8, MovedIsGood
  <2> HIDE DEF there
  <2> QED BY <2>2 DEF l
<1> HIDE DEF there
<1>11. CASE end.stop = "no"
  <2>1. v = ReadDirectory(there, free)
    BY <1>4, <1>11
  <2>2. Arrived(there)
    BY <1>2, <1>7, <1>10, <1>11 DEF Arrived, path, r
  <2>3. Comes(v, there, c)
    BY <1>10, <1>11, <2>1, <2>2, ReadDirectoryHolds
  <2> QED BY <1>10, <1>11, <2>3 DEF Comes
<1>12. CASE end.stop = "unread" /\ ~ free
  <2>1. v = Return(there, "IOError")
    BY <1>4, <1>12 DEF NoContents
  <2> QED BY <1>10, <1>12, <2>1, ReturnIsReady DEF Statuses, Comes
<1>13. CASE end.stop = "unread" /\ free
  <2> DEFINE me == [there.me EXCEPT !.pc = "walking", !.slept = TRUE]
  <2>1. there \in Worlds /\ there.me \in ClientRecords
    BY <1>10, <1>13, WorldTypes DEF Good
  <2>2. v = [there EXCEPT !.me = me]
    BY <1>4, <1>13, <2>1 DEF Worlds
  <2>3. /\ me \in ClientRecords /\ me.pc = "walking" /\ me.node = there.me.node
        /\ me.done = there.me.done /\ me.call = there.me.call /\ me.calls = there.me.calls
        /\ me.held = there.me.held /\ me.closed = there.me.closed
    BY <2>1 DEF ClientRecords
  <2> HIDE DEF me
  <2>4. /\ v \in Worlds /\ v.me = me /\ v.nodes = there.nodes /\ v.descriptors = there.descriptors
    BY <2>1, <2>2, <2>3 DEF Worlds
  <2>5. Good(v, c)
    <3>1. SameNodes(there.nodes, v.nodes) /\ v.me.node \in DOMAIN there.nodes
      BY <1>10, <1>13, <2>3, <2>4 DEF SameNodes, SameTree, Good
    <3> QED BY <3>1, <1>10, <1>13, <2>3, <2>4, SameIsGood
  <2>6. v.me.pc = "walking" /\ v.me.call = l /\ v.me.node = end.node /\ v.me.done = end.done /\ v.nodes = ns
        /\ v.me.calls = w.me.calls
    BY <1>10, <1>13, <2>3, <2>4
  <2>7. end.done <= Len(path)
    BY <1>2, <1>7, <1>8, <1>13
  <2>8. OnItsWay(v.me, v.nodes)
    BY <1>2, <1>7, <1>13, <2>6, <2>7 DEF OnItsWay, path, r
  <2>9. Ready(v)
    BY <1>7, <1>13, <2>6, <2>8 DEF Ready, Truthful
  <2> QED BY <2>5, <2>6, <2>9 DEF Comes
<1> QED
  BY <1>8, <1>9, <1>11, <1>12, <1>13


-----------------------------------------------------------------------------
(* readFile and closeFile *)

\* The end of readFile adds a buffer, and stops or returns.
LEMMA CopyHolds ==
  ASSUME NEW c \in Clients, NEW w, Good(w, c), w.me.fd \in DOMAIN w.descriptors,
         w.me.call = [op |-> "read"], NEW buffer \in {"data", "null"}, NEW v, v = Copy(w, buffer)
  PROVE  /\ Comes(v, w, c) /\ v.me.pc = "idle" /\ v.me.call = w.me.call
         /\ Spares(w.nodes, w.descriptors, v.nodes, v.descriptors)
<1> DEFINE n == w.descriptors[w.me.fd].node
           ns == w.nodes
           node == [ns[n] EXCEPT !.fileBuffers = Append(@, buffer)]
           ms == [ns EXCEPT ![n] = node]
           pushed == [w EXCEPT !.nodes[n].fileBuffers = Append(@, buffer)]
<1>1. /\ w \in Worlds /\ ns \in Seq(NodeRecords) /\ w.me.node \in DOMAIN ns
      /\ n \in DOMAIN ns /\ ns[n] \in NodeRecords
  BY WorldTypes, NodeTypes DEF Good, Opened
<1>2. v = IF pushed.nodes[n].fileBuffers[1] = "null" THEN Fail(pushed, "null_buffer")
          ELSE IF w.me.request.offset + w.me.request.count > Size[w.nodes[n].name]
          THEN Fail(pushed, "beyond_buffer") ELSE Return(pushed, "Ok")
  BY Zenon DEF Copy
<1>3. pushed = [w EXCEPT !.nodes = ms]
  BY <1>1 DEF Worlds
<1> HIDE DEF n
<1>4. /\ node \in NodeRecords /\ node.name = ns[n].name /\ node.parent = ns[n].parent
      /\ node.childrenCreated = ns[n].childrenCreated /\ node.children = ns[n].children
      /\ node.openFileDescriptors = ns[n].openFileDescriptors /\ node.lost = ns[n].lost
  <2>1. Append(ns[n].fileBuffers, buffer) \in Seq({"data", "null"})
    BY <1>1, NodeTypes, AppendProperties
  <2> HIDE DEF ns
  <2> QED BY <2>1, <1>1 DEF NodeRecords
<1> HIDE DEF node, pushed
<1>5. ms \in Seq(NodeRecords) /\ DOMAIN ms = DOMAIN ns /\ \A m \in DOMAIN ns : ms[m] = IF m = n THEN node ELSE ns[m]
  BY <1>1, <1>4, ExceptSeq
<1> HIDE DEF ms
<1>6. /\ pushed \in Worlds /\ pushed.nodes = ms /\ pushed.me = w.me
      /\ pushed.descriptors = w.descriptors
  BY <1>1, <1>3, <1>5 DEF Worlds
<1>7. SameNodes(ns, ms)
  BY <1>4, <1>5 DEF SameNodes, SameTree
<1>8. Good(pushed, c)
  BY <1>1, <1>6, <1>7, SameIsGood
<1>9. w.me.call \notin Lookups
  BY CallsAssumption
<1> DEFINE Ends == /\ Comes(v, w, c) /\ v.me.pc = "idle" /\ v.me.call = w.me.call
                   /\ v.nodes = ms /\ v.descriptors = w.descriptors
<1>10. \A why \in Failures \ {"no"} : v = Fail(pushed, why) => Ends
  BY <1>6, <1>8, FailHolds DEF Comes
<1>11. v = Return(pushed, "Ok") => Ends
  BY <1>6, <1>8, <1>9, ReturnIsReady DEF Comes, Statuses
<1>12. Ends
  BY <1>2, <1>10, <1>11 DEF Failures
<1>13. SameTree(ns, ms) /\ \A m \in DOMAIN ns : ms[m].lost = ns[m].lost
  BY <1>4, <1>5 DEF SameTree
<1> QED
  BY <1>12, <1>13 DEF Spares

\* What is left of a list of descriptors without one of them.
LEMMA Erased ==
  ASSUME NEW open \in Seq(Nat), IsInjective(open), NEW fd, Contains(open, fd),
         NEW t, t = Erase(open, fd)
  PROVE  /\ t \in Seq(Nat) /\ IsInjective(t)
         /\ \A i \in DOMAIN t : Contains(open, t[i])
         /\ \A d : Contains(open, d) /\ d # fd => Contains(t, d)
<1>1. Len(open) \in Nat /\ DOMAIN open = 1 .. Len(open)
  OBVIOUS
<1>2. PICK k \in 1 .. Len(open) : open[k] = fd
  BY DEF Contains
<1>3. Min({i \in DOMAIN open : open[i] = fd}) = k
  <2>1. {i \in DOMAIN open : open[i] = fd} = {k}
    BY <1>1, <1>2 DEF IsInjective
  <2>2. \A x \in Nat : Min({x}) = x
    BY DEF Min
  <2>3. k \in Nat
    BY <1>1
  <2> QED BY <2>1, <2>2, <2>3
<1> DEFINE a == SubSeq(open, 1, k - 1)
           b == SubSeq(open, k + 1, Len(open))
<1>4. t = a \o b
  BY <1>3 DEF Erase, RemoveAt
<1>5. \A i \in 1 .. Len(open) : open[i] \in Nat
  OBVIOUS
<1>6. /\ a \in Seq(Nat) /\ Len(a) = k - 1
      /\ \A i \in 1 .. k - 1 : a[i] = open[i]
  <2>1. /\ 1 \in Int /\ k - 1 \in Int /\ \A i \in 1 .. k - 1 : open[i] \in Nat
        /\ (IF 1 <= k - 1 THEN (k - 1) - 1 + 1 ELSE 0) = k - 1
        /\ (k - 1) - 1 + 1 = k - 1 /\ \A i \in 1 .. k - 1 : 1 + i - 1 = i
    BY <1>1, <1>5
  <2>2. /\ a \in Seq(Nat) /\ Len(a) = IF 1 <= k - 1 THEN (k - 1) - 1 + 1 ELSE 0
        /\ \A i \in 1 .. (k - 1) - 1 + 1 : a[i] = open[1 + i - 1]
    BY <2>1, SubSeqProperties
  <2> HIDE DEF a
  <2> QED BY <2>1, <2>2
<1>7. /\ b \in Seq(Nat) /\ Len(b) = Len(open) - k
      /\ \A i \in 1 .. Len(open) - k : b[i] = open[k + i]
  <2> DEFINE m == k + 1
             n == Len(open)
  <2>1. m \in Int /\ n \in Int /\ \A i \in m .. n : open[i] \in Nat
    <3>1. \A i \in m .. n : i \in 1 .. n
      BY <1>1
    <3> QED BY <3>1, <1>1, <1>5
  <2>2. /\ (IF m <= n THEN n - m + 1 ELSE 0) = n - k
        /\ n - m + 1 = n - k
        /\ \A i \in Int : m + i - 1 = k + i
    <3>1. n \in Nat /\ k \in Nat /\ k <= n
      BY <1>1
    <3> HIDE DEF n
    <3>2. (k + 1 <= n) => n - (k + 1) + 1 = n - k
      BY <3>1
    <3>3. ~ (k + 1 <= n) => n - k = 0
      BY <3>1
    <3>4. n - (k + 1) + 1 = n - k /\ \A i \in Int : (k + 1) + i - 1 = k + i
      BY <3>1
    <3> QED BY <3>2, <3>3, <3>4
  <2>3. b = SubSeq(open, m, n)
    OBVIOUS
  <2> HIDE DEF b, m, n
  <2>4. /\ b \in Seq(Nat) /\ Len(b) = IF m <= n THEN n - m + 1 ELSE 0
        /\ \A i \in 1 .. n - m + 1 : b[i] = open[m + i - 1]
    BY <2>1, <2>3, SubSeqProperties
  <2>5. /\ b \in Seq(Nat) /\ Len(b) = n - k
        /\ \A i \in 1 .. n - k : b[i] = open[k + i]
    BY <2>2, <2>4
  <2> QED BY <2>5 DEF n
<1> HIDE DEF a, b
<1>8. /\ t \in Seq(Nat) /\ Len(t) = Len(open) - 1
      /\ \A i \in 1 .. Len(open) - 1 : t[i] = IF i < k THEN open[i] ELSE open[i + 1]
  <2>1. /\ t \in Seq(Nat) /\ Len(t) = Len(a) + Len(b)
        /\ \A i \in 1 .. Len(a) + Len(b) : t[i] = IF i <= Len(a) THEN a[i] ELSE b[i - Len(a)]
    <3>1. a \in Seq(Nat) /\ b \in Seq(Nat)
      BY <1>6, <1>7
    <3> QED BY <3>1, <1>4, ConcatProperties, Zenon
  <2>2. Len(a) + Len(b) = Len(open) - 1
    BY <1>1, <1>6, <1>7
  <2>3. ASSUME NEW i \in 1 .. Len(open) - 1
        PROVE  t[i] = IF i < k THEN open[i] ELSE open[i + 1]
    <3>1. CASE i < k
      <4>1. i \in 1 .. k - 1 /\ i <= Len(a)
        BY <3>1, <1>1, <1>6
      <4> QED BY <4>1, <3>1, <1>6, <2>1, <2>2
    <3>2. CASE ~ (i < k)
      <4>1. i - (k - 1) \in 1 .. Len(open) - k /\ k + (i - (k - 1)) = i + 1 /\ ~ (i <= k - 1)
        BY <3>2, <1>1
      <4>2. t[i] = b[i - (k - 1)]
        BY <4>1, <1>6, <2>1, <2>2
      <4>3. b[i - (k - 1)] = open[i + 1]
        BY <4>1, <1>7
      <4> QED BY <4>2, <4>3, <3>2
    <3> QED BY <3>1, <3>2
  <2> QED BY <2>1, <2>2, <2>3
<1>9. /\ DOMAIN t = 1 .. Len(open) - 1 /\ 1 .. Len(t) = 1 .. Len(open) - 1
  BY <1>8
<1>10. IsInjective(t)
  <2> SUFFICES ASSUME NEW i \in 1 .. Len(open) - 1, NEW j \in 1 .. Len(open) - 1, t[i] = t[j]
               PROVE  i = j
    BY <1>9 DEF IsInjective
  <2> DEFINE at(x) == IF x < k THEN x ELSE x + 1
  <2>1. /\ at(i) \in 1 .. Len(open) /\ at(j) \in 1 .. Len(open)
        /\ at(i) = at(j) => i = j
    <3>1. Len(open) \in Nat /\ k \in 1 .. Len(open)
      BY <1>1
    <3> HIDE DEF at
    <3>2. /\ at(i) = IF i < k THEN i ELSE i + 1
          /\ at(j) = IF j < k THEN j ELSE j + 1
      BY DEF at
    <3> QED BY <3>1, <3>2
  <2>2. t[i] = open[at(i)] /\ t[j] = open[at(j)]
    BY <1>8
  <2> HIDE DEF at
  <2> QED BY <1>1, <2>1, <2>2 DEF IsInjective
<1>11. \A i \in DOMAIN t : Contains(open, t[i])
  <2> SUFFICES ASSUME NEW i \in 1 .. Len(open) - 1
               PROVE  \E j \in 1 .. Len(open) : open[j] = t[i]
    BY <1>9 DEF Contains
  <2>1. i \in 1 .. Len(open) /\ i + 1 \in 1 .. Len(open)
    BY <1>1
  <2> QED BY <1>8, <2>1
<1>12. ASSUME NEW d, Contains(open, d), d # fd
       PROVE  Contains(t, d)
  <2>1. PICK j \in 1 .. Len(open) : open[j] = d
    BY <1>12 DEF Contains
  <2>2. j # k
    BY <1>2, <1>12, <2>1
  <2>3. CASE j < k
    <3>1. j \in 1 .. Len(open) - 1
      BY <2>3, <1>1
    <3> QED BY <2>1, <2>3, <3>1, <1>8, <1>9 DEF Contains
  <2>4. CASE j > k
    <3>1. j - 1 \in 1 .. Len(open) - 1 /\ ~ (j - 1 < k) /\ (j - 1) + 1 = j
      BY <2>4, <1>1
    <3> QED BY <2>1, <3>1, <1>8, <1>9 DEF Contains
  <2> QED BY <1>1, <2>2, <2>3, <2>4
<1> QED
  BY <1>8, <1>10, <1>11, <1>12


-----------------------------------------------------------------------------
(* The steps *)

\* The world of a client that makes a step is the state.
LEMMA WorldIsGood ==
  ASSUME IInv, NEW c \in Clients, NEW w, w = World(c)
  PROVE  /\ Good(w, c) /\ w.nodes = nodes /\ w.descriptors = descriptors
         /\ w.failed = failed /\ w.me = clients[c]
<1>1. w.nodes = nodes /\ w.descriptors = descriptors /\ w.failed = failed /\ w.me = clients[c]
  BY DEF World
<1>2. w \in Worlds
  BY DEF IInv, TypeInv, World, Worlds
<1>3. Others(w, c)
  <2> SUFFICES ASSUME NEW d \in Clients \ {c}
               PROVE  /\ clients[d] \in ClientRecords
                      /\ Client(clients[d], nodes, descriptors)
                      /\ clients[d].held \cap clients[c].held = {}
                      /\ ~ overlapped /\ Waits(clients[d]) => ~ nodes[clients[d].node].childrenCreated
    BY <1>1 DEF Others
  <2> QED BY DEF IInv, TypeInv, NoneTwice
<1>4. /\ Tree(nodes) /\ Opened(nodes, descriptors)
      /\ clients[c].node \in DOMAIN nodes /\ Holds(clients[c], nodes, descriptors)
      /\ ~ overlapped => Unique(nodes)
  BY DEF IInv, Client, NoneTwice
<1> QED
  BY <1>1, <1>2, <1>3, <1>4 DEF Good

\* A call that has returned or waits, in a good world, leaves the invariant true.
LEMMA CommitHolds ==
  ASSUME IInv, failed = "no", NEW c \in Clients, NEW w, Good(w, c), Ready(w),
         w.me.calls <= Calls, Commit(c, w)
  PROVE  IInv'
<1>1. /\ w.nodes \in Seq(NodeRecords) /\ w.descriptors \in Seq(DescriptorRecords)
      /\ w.failed \in Failures /\ w.me \in ClientRecords
  BY WorldTypes DEF Good
<1>2. /\ nodes' = w.nodes /\ descriptors' = w.descriptors /\ failed' = w.failed
      /\ clients' = [clients EXCEPT ![c] = w.me]
      /\ overlapped \in BOOLEAN /\ clients \in [Clients -> ClientRecords]
  BY DEF Commit, IInv, TypeInv
<1>3. /\ clients' \in [Clients -> ClientRecords] /\ clients'[c] = w.me
      /\ \A d \in Clients \ {c} : clients'[d] = clients[d]
  BY <1>1, <1>2
<1>4. /\ overlapped' \in BOOLEAN
      /\ ~ overlapped' =>
           /\ ~ overlapped
           /\ Waits(w.me) =>
                \A d \in Clients \ {c} : ~ (Waits(clients[d]) /\ clients[d].node = w.me.node)
  BY <1>2 DEF Commit, PointsTo, Waits
<1>5. TypeInv'
  BY <1>1, <1>2, <1>3, <1>4 DEF IInv, TypeInv
<1>6. Tree(nodes') /\ Opened(nodes', descriptors')
  BY <1>2 DEF Good
<1>7. ASSUME NEW d \in Clients
      PROVE  Client(clients'[d], nodes', descriptors')
  <2>1. CASE d = c
    BY <2>1, <1>2, <1>3 DEF Good, Ready, Client
  <2>2. CASE d # c
    BY <2>2, <1>2, <1>3 DEF Good, Others
  <2> QED BY <2>1, <2>2
<1>8. ASSUME NEW d \in Clients, NEW e \in Clients, clients'[d].held \cap clients'[e].held # {}
      PROVE  d = e
  <2>1. CASE d # c /\ e # c
    BY <2>1, <1>3, <1>8 DEF IInv
  <2>2. CASE d = c \/ e = c
    BY <2>2, <1>3, <1>8 DEF Good, Others
  <2> QED BY <2>1, <2>2
<1>9. failed' = "no" => \A d \in Clients : Truthful(clients'[d])
  BY <1>2, <1>3 DEF IInv, Ready
<1>10. ~ overlapped' => NoneTwice'
  <2> SUFFICES ASSUME ~ overlapped'
               PROVE  NoneTwice'
    OBVIOUS
  <2>1. Unique(nodes')
    BY <1>2, <1>4 DEF Good
  <2>2. ASSUME NEW d \in Clients, Waits(clients'[d])
        PROVE  ~ nodes'[clients'[d].node].childrenCreated
    <3>1. CASE d = c
      BY <3>1, <2>2, <1>2, <1>3 DEF Ready
    <3>2. CASE d # c
      BY <3>2, <2>2, <1>2, <1>3, <1>4 DEF Good, Others
    <3> QED BY <3>1, <3>2
  <2>3. ASSUME NEW d \in Clients, NEW e \in Clients, Waits(clients'[d]), Waits(clients'[e]),
               clients'[d].node = clients'[e].node
        PROVE  d = e
    <3>1. CASE d # c /\ e # c
      BY <3>1, <2>3, <1>3, <1>4 DEF IInv, NoneTwice
    <3>2. CASE d = c \/ e = c
      BY <3>2, <2>3, <1>3, <1>4
    <3> QED BY <3>1, <3>2
  <2> QED BY <2>1, <2>2, <2>3 DEF NoneTwice
<1> QED
  BY <1>5, <1>6, <1>7, <1>8, <1>9, <1>10 DEF IInv

\* There are as many calls of a client as it has counted.
LEMMA Numbered ==
  ASSUME NEW x, NEW k \in Nat
  PROVE  IsFiniteSet({x} \X (1 .. k)) /\ Cardinality({x} \X (1 .. k)) = k
<1>1. IsFiniteSet({x}) /\ Cardinality({x}) = 1
  BY FS_Singleton, Zenon
<1>2. IsFiniteSet(1 .. k) /\ Cardinality(1 .. k) = k
  <2>1. 1 \in Int /\ k \in Int /\ (IF 1 > k THEN 0 ELSE k - 1 + 1) = k
    OBVIOUS
  <2> QED BY <2>1, FS_Interval
<1>3. /\ IsFiniteSet({x} \X (1 .. k))
      /\ Cardinality({x} \X (1 .. k)) = Cardinality({x}) * Cardinality(1 .. k)
  BY <1>1, <1>2, FS_Product, Zenon
<1> QED
  BY <1>1, <1>2, <1>3

\* The bound on all calls is one on the calls of each client.
LEMMA CallsAreCounted ==
  ASSUME TypeInv, NEW c \in Clients, Cardinality(Made) < Calls
  PROVE  clients[c].calls + 1 <= Calls
<1> DEFINE F == [d \in Clients |-> {d} \X (1 .. clients[d].calls)]
           k == clients[c].calls
           Mine == {c} \X (1 .. k)
<1>1. Calls \in Nat /\ IsFiniteSet(Clients)
  BY CallsAssumption
<1>2. \A d \in Clients : clients[d].calls \in Nat
  BY ClientTypes DEF TypeInv
<1>3. \A d \in Clients : IsFiniteSet({d} \X (1 .. clients[d].calls))
  BY <1>2, Numbered
<1>4. IsFiniteSet(Range(F)) /\ Made = UNION Range(F)
  <2>1. F \in Surjection(Clients, Range(F))
    BY DEF Surjection, Range
  <2>2. IsFiniteSet(Range(F))
    <3> HIDE DEF F
    <3> QED BY <1>1, <2>1, FS_Surjection
  <2>3. Range(F) = {{d} \X (1 .. clients[d].calls) : d \in Clients}
    BY DEF Range
  <2> QED BY <2>2, <2>3 DEF Made
<1>5. IsFiniteSet(Made)
  <2>1. \A T \in Range(F) : IsFiniteSet(T)
    BY <1>3 DEF Range
  <2> HIDE DEF F
  <2> QED BY <1>4, <2>1, FS_UNION
<1>6. Cardinality(Mine) = k
  BY <1>2, Numbered
<1>7. Mine \in SUBSET Made
  BY DEF Made
<1>8. Cardinality(Mine) <= Cardinality(Made) /\ Cardinality(Made) \in Nat
  <2> HIDE DEF Mine
  <2> QED BY <1>5, <1>7, FS_Subset, FS_CardinalityType
<1> QED
  BY <1>1, <1>2, <1>6, <1>8

Counted(w) == [w EXCEPT !.me.calls = @ + 1]

\* Counting the call changes nothing else.
LEMMA CountedIsGood ==
  ASSUME NEW c \in Clients, NEW w, Good(w, c), Ready(w), NEW v, v = Counted(w)
  PROVE  Good(v, c) /\ Ready(v) /\ v.me.calls = w.me.calls + 1 /\ v.me.pc = w.me.pc
<1>1. w \in Worlds /\ w.me \in ClientRecords /\ w.me.calls \in Nat
  BY WorldTypes, ClientTypes DEF Good
<1> DEFINE k == w.me.calls + 1
           me == [w.me EXCEPT !.calls = k]
<1>2. k \in Nat
  BY <1>1
<1>3. v = [w EXCEPT !.me = me]
  BY <1>1 DEF Worlds, Counted
<1> HIDE DEF k
<1>4. /\ me \in ClientRecords /\ me.calls = k
      /\ me.pc = w.me.pc /\ me.node = w.me.node /\ me.done = w.me.done /\ me.fd = w.me.fd
      /\ me.call = w.me.call /\ me.status = w.me.status
      /\ me.held = w.me.held /\ me.closed = w.me.closed
  BY <1>1, <1>2 DEF ClientRecords
<1> HIDE DEF me
<1>5. /\ v \in Worlds /\ v.me = me /\ v.nodes = w.nodes /\ v.descriptors = w.descriptors
      /\ v.failed = w.failed
  BY <1>1, <1>3, <1>4 DEF Worlds
<1>6. SameNodes(w.nodes, v.nodes) /\ v.me.node \in DOMAIN w.nodes
  BY <1>4, <1>5 DEF SameNodes, SameTree, Good
<1>7. Good(v, c)
  BY <1>4, <1>5, <1>6, SameIsGood
<1>8. Ready(v)
  BY <1>4, <1>5 DEF Ready, Waits, OnItsWay, Truthful
<1> QED
  BY <1>4, <1>5, <1>7, <1>8 DEF k

\* A call that an idle client makes keeps the invariant, if the operators do.
LEMMA CallHolds ==
  ASSUME IInv, failed = "no", NEW c \in Clients, NEW called, Comes(called, World(c), c),
         Call(c, called)
  PROVE  IInv'
<1> DEFINE w == Counted(called)
<1>1. Good(w, c) /\ Ready(w) /\ w.me.calls = called.me.calls + 1 /\ w.me.pc = called.me.pc
  BY CountedIsGood DEF Comes
<1>2. Commit(c, w) /\ Cardinality(Made) < Calls
  BY DEF Call, Counted
<1>3. called.me.calls = clients[c].calls
  BY WorldIsGood DEF Comes
<1>4. w.me.calls <= Calls
  BY <1>1, <1>2, <1>3, CallsAreCounted DEF IInv
<1> HIDE DEF w
<1> QED
  BY <1>1, <1>2, <1>4, CommitHolds


-----------------------------------------------------------------------------
(* Each of the calls, and what follows an answer *)

\* A client that is idle starts its next walk at the root.
LEMMA IdleHolds ==
  ASSUME IInv, NEW c \in Clients, clients[c].pc = "idle"
  PROVE  clients[c].node = 1 /\ clients[c].done = 0 /\ nodes[1].name = "root"
BY DEF IInv, Client, Tree

\* The client makes a call.
LEMMA AskingHolds ==
  ASSUME IInv, failed = "no", NEW c \in Clients, clients[c].pc = "idle",
         NEW lookup \in Lookups, NEW w, w = Asking(c, lookup)
  PROVE  /\ Good(w, c) /\ w.failed = "no" /\ w.me.call = lookup
         /\ w.me.calls = World(c).me.calls /\ w.me.pc = "idle"
         /\ w.nodes = nodes /\ w.descriptors = descriptors
         /\ lookup.valid /\ lookup.slash = (lookup.op = "list") => Going(w)
<1> DEFINE u == World(c)
           me == [u.me EXCEPT !.call = lookup]
<1>1. /\ Good(u, c) /\ u \in Worlds /\ u.me \in ClientRecords /\ u.nodes = nodes
      /\ u.descriptors = descriptors /\ u.failed = "no" /\ u.me.pc = "idle"
      /\ u.me.node = 1 /\ u.me.done = 0 /\ nodes[1].name = "root"
  BY WorldIsGood, WorldTypes, IdleHolds DEF Good
<1>2. w = [u EXCEPT !.me = me]
  BY <1>1 DEF Asking, Worlds
<1> HIDE DEF u
<1>3. /\ me \in ClientRecords /\ me.call = lookup /\ me.calls = u.me.calls
      /\ me.pc = u.me.pc /\ me.node = u.me.node /\ me.done = u.me.done
      /\ me.held = u.me.held /\ me.closed = u.me.closed
  BY <1>1 DEF ClientRecords, CallRecords
<1> HIDE DEF me
<1>4. /\ w \in Worlds /\ w.me = me /\ w.nodes = u.nodes /\ w.descriptors = u.descriptors
      /\ w.failed = u.failed
  BY <1>1, <1>2, <1>3 DEF Worlds
<1>5. SameNodes(u.nodes, w.nodes) /\ w.me.node \in DOMAIN u.nodes
  BY <1>1, <1>3, <1>4 DEF SameNodes, SameTree, Good
<1>6. Good(w, c)
  BY <1>1, <1>3, <1>4, <1>5, SameIsGood
<1>7. ASSUME lookup.valid, lookup.slash = (lookup.op = "list")
      PROVE  Going(w)
  <2>1. Len(Path(lookup)) \in Nat
    BY LookupTypes
  <2>2. Resolve(Path(lookup))[0] = [status |-> "Ok", name |-> "root"]
    BY <2>1, ResolveDefined
  <2>3. /\ w.me.call = lookup /\ w.me.done = 0 /\ w.me.node = 1 /\ w.nodes[1].name = "root"
    BY <1>1, <1>3, <1>4
  <2> QED BY <1>7, <2>1, <2>2, <2>3 DEF Going
<1> QED
  BY <1>1, <1>3, <1>4, <1>6, <1>7 DEF u

\* readDirectory keeps the invariant.
LEMMA ListHolds ==
  ASSUME IInv, failed = "no", NEW c \in Clients, NEW lookup \in Lookups, NEW free \in BOOLEAN,
         List(c, lookup, free)
  PROVE  IInv'
<1> DEFINE w == Asking(c, lookup)
           called == IF lookup.slash /\ lookup.valid THEN GetInfo(w, free)
                     ELSE Return(w, "InvalidPath")
<1>1. lookup.op = "list" /\ Call(c, called) /\ clients[c].pc = "idle"
  BY DEF List, Call
<1>2. /\ Good(w, c) /\ w.failed = "no" /\ w.me.call = lookup
      /\ w.me.calls = World(c).me.calls
      /\ lookup.valid /\ lookup.slash = (lookup.op = "list") => Going(w)
  BY <1>1, AskingHolds
<1>3. lookup.slash \in BOOLEAN /\ lookup.valid \in BOOLEAN
  BY LookupTypes
<1> HIDE DEF w
<1>4. Comes(called, World(c), c)
  <2>1. CASE lookup.slash /\ lookup.valid
    <3>1. called = GetInfo(w, free)
      BY <2>1
    <3> HIDE DEF called
    <3>2. Comes(called, w, c)
      BY <2>1, <3>1, <1>1, <1>2, GetInfoHolds
    <3> QED BY <3>2, <1>2 DEF Comes
  <2>2. CASE ~ (lookup.slash /\ lookup.valid)
    <3>1. called = Return(w, "InvalidPath")
      BY <2>2
    <3> HIDE DEF called
    <3>2. Promised(lookup) = "InvalidPath"
      BY <2>2, <1>1, <1>3 DEF Promised
    <3> QED BY <3>1, <3>2, <1>2, ReturnIsReady DEF Comes, Statuses
  <2> QED BY <2>1, <2>2
<1> HIDE DEF called
<1> QED
  BY <1>1, <1>4, CallHolds

\* openFile keeps the invariant.
LEMMA OpenHolds ==
  ASSUME IInv, failed = "no", NEW c \in Clients, NEW lookup \in Lookups, NEW free \in BOOLEAN,
         Open(c, lookup, free)
  PROVE  IInv'
<1> DEFINE w == Asking(c, lookup)
           called == IF lookup.valid /\ ~ lookup.slash THEN GetInfo(w, free)
                     ELSE Return(w, "InvalidPath")
<1>1. lookup.op = "open" /\ Call(c, called) /\ clients[c].pc = "idle"
  BY DEF Open, Call
<1>2. /\ Good(w, c) /\ w.failed = "no" /\ w.me.call = lookup
      /\ w.me.calls = World(c).me.calls
      /\ lookup.valid /\ lookup.slash = (lookup.op = "list") => Going(w)
  BY <1>1, AskingHolds
<1>3. lookup.slash \in BOOLEAN /\ lookup.valid \in BOOLEAN
  BY LookupTypes
<1> HIDE DEF w
<1>4. Comes(called, World(c), c)
  <2>1. CASE lookup.valid /\ ~ lookup.slash
    <3>1. called = GetInfo(w, free)
      BY <2>1
    <3> HIDE DEF called
    <3>2. Going(w)
      BY <2>1, <1>1, <1>2, <1>3
    <3>3. Comes(called, w, c)
      BY <3>1, <3>2, <1>2, GetInfoHolds
    <3> QED BY <3>3, <1>2 DEF Comes
  <2>2. CASE ~ (lookup.valid /\ ~ lookup.slash)
    <3>1. called = Return(w, "InvalidPath")
      BY <2>2
    <3> HIDE DEF called
    <3>2. Promised(lookup) = "InvalidPath"
      BY <2>2, <1>1, <1>3 DEF Promised
    <3> QED BY <3>1, <3>2, <1>2, ReturnIsReady DEF Comes, Statuses
  <2> QED BY <2>1, <2>2
<1> HIDE DEF called
<1> QED
  BY <1>1, <1>4, CallHolds

\* readFile keeps the invariant.
LEMMA ReadHolds ==
  ASSUME IInv, failed = "no", NEW c \in Clients, NEW fd \in clients[c].held,
         NEW request \in Requests, NEW free \in BOOLEAN, Read(c, fd, request, free)
  PROVE  IInv' /\ \E called \in Worlds : Call(c, called) /\ OnFile(called, World(c), "read")
<1> DEFINE u == World(c)
           me == [u.me EXCEPT !.call = [op |-> "read"], !.fd = fd, !.request = request]
           w == [u EXCEPT !.me.call = [op |-> "read"], !.me.fd = fd, !.me.request = request]
           node == nodes[descriptors[fd].node]
           waiting == [w EXCEPT !.me.pc = "reading"]
           called == IF ~ Contains(node.openFileDescriptors, fd) THEN Return(w, "NotFile")
                     ELSE IF request.count = 0
                             \/ (request.offset + request.count) % Word > Size[node.name]
                     THEN Return(w, "OutOfBounds")
                     ELSE IF free THEN waiting ELSE Copy(w, "null")
<1>1. Call(c, called) /\ clients[c].pc = "idle"
  BY Zenon DEF Read, Call
<1>2. /\ Good(u, c) /\ u \in Worlds /\ u.me \in ClientRecords /\ u.descriptors = descriptors
      /\ fd \in DOMAIN descriptors /\ fd \in Nat
  <2>1. Good(u, c) /\ u.descriptors = descriptors /\ u.me = clients[c]
    BY WorldIsGood
  <2>2. u \in Worlds /\ u.me \in ClientRecords
    BY <2>1, WorldTypes DEF Good
  <2>3. fd \in DOMAIN descriptors
    BY DEF IInv, Client, Holds
  <2>4. fd \in Nat
    BY <2>1, <2>2, ClientTypes
  <2> QED BY <2>1, <2>2, <2>3, <2>4
<1>3. w = [u EXCEPT !.me = me]
  BY <1>2 DEF Worlds
<1> HIDE DEF u
<1>4. /\ me \in ClientRecords /\ me.call = [op |-> "read"] /\ me.fd = fd
      /\ me.calls = u.me.calls /\ me.node = u.me.node
      /\ me.held = u.me.held /\ me.closed = u.me.closed
  BY <1>2 DEF ClientRecords, CallRecords
<1> HIDE DEF me, w
<1>5. /\ w \in Worlds /\ w.me = me /\ w.nodes = u.nodes /\ w.descriptors = u.descriptors
      /\ w.failed = u.failed
  BY <1>2, <1>3, <1>4 DEF Worlds
<1>6. SameNodes(u.nodes, w.nodes) /\ w.me.node \in DOMAIN u.nodes
  BY <1>2, <1>4, <1>5 DEF SameNodes, SameTree, Good
<1>7. Good(w, c)
  BY <1>2, <1>4, <1>5, <1>6, SameIsGood
<1>8. w.me.call = [op |-> "read"] /\ w.me.fd = fd /\ w.me.calls = u.me.calls
  BY <1>4, <1>5
<1>9. w.me.call \notin Lookups
  BY <1>8, CallsAssumption
<1>10. \A status \in Statuses : Comes(Return(w, status), u, c)
  BY <1>7, <1>8, <1>9, ReturnIsReady DEF Comes
<1>11. Comes(Copy(w, "null"), u, c)
  BY <1>2, <1>5, <1>7, <1>8, CopyHolds DEF Comes
<1>12. Comes(waiting, u, c) /\ OnFile(waiting, u, "read")
  <2> DEFINE them == [w.me EXCEPT !.pc = "reading"]
  <2>1. w \in Worlds /\ w.me \in ClientRecords
    BY <1>4, <1>5
  <2>2. waiting = [w EXCEPT !.me = them]
    BY <2>1 DEF Worlds
  <2>3. /\ them \in ClientRecords /\ them.pc = "reading" /\ them.node = w.me.node
        /\ them.call = w.me.call /\ them.fd = w.me.fd /\ them.calls = w.me.calls
        /\ them.held = w.me.held /\ them.closed = w.me.closed
    BY <2>1 DEF ClientRecords
  <2> HIDE DEF them, waiting
  <2>4. /\ waiting \in Worlds /\ waiting.me = them /\ waiting.nodes = w.nodes
        /\ waiting.descriptors = w.descriptors
    BY <2>1, <2>2, <2>3 DEF Worlds
  <2>5. SameNodes(w.nodes, waiting.nodes) /\ waiting.me.node \in DOMAIN w.nodes
    BY <1>7, <2>3, <2>4 DEF SameNodes, SameTree, Good
  <2>6. Good(waiting, c)
    BY <1>7, <2>3, <2>4, <2>5, SameIsGood
  <2>7. Ready(waiting)
    BY <1>2, <1>5, <1>8, <2>3, <2>4 DEF Ready, Waits, Truthful
  <2>8. Spares(u.nodes, u.descriptors, u.nodes, u.descriptors)
    BY DEF Spares, SameTree
  <2>9. OnFile(waiting, u, "read")
    BY <1>5, <1>8, <2>3, <2>4, <2>8 DEF OnFile, Waits
  <2> QED BY <1>8, <2>3, <2>4, <2>6, <2>7, <2>9 DEF Comes
<1> HIDE DEF waiting
<1>13. Comes(called, u, c)
  BY <1>10, <1>11, <1>12 DEF Statuses
<1>14. Spares(u.nodes, u.descriptors, u.nodes, u.descriptors)
  BY DEF Spares, SameTree
<1>15. ASSUME NEW status \in Statuses
       PROVE  OnFile(Return(w, status), u, "read")
  BY <1>5, <1>7, <1>8, <1>9, <1>14, ReturnIsReady DEF OnFile, Waits
<1>16. OnFile(Copy(w, "null"), u, "read")
  BY <1>2, <1>5, <1>7, <1>8, CopyHolds DEF OnFile, Waits
<1>17. OnFile(called, u, "read")
  BY <1>12, <1>15, <1>16 DEF Statuses
<1> HIDE DEF called
<1>18. called \in Worlds
  BY <1>13 DEF Comes, Good
<1> QED
  BY <1>1, <1>13, <1>17, <1>18, CallHolds DEF u


\* A descriptor is erased from its node's list.
Erasing(w, n, fd) == [w EXCEPT !.nodes[n].openFileDescriptors = Erase(@, fd)]

\* Nobody but the client that closes it has the erased descriptor open.
LEMMA ErasedIsGood ==
  ASSUME NEW c \in Clients, NEW w, Good(w, c), NEW fd \in DOMAIN w.descriptors,
         fd \notin w.me.held \ w.me.closed,
         \A d \in Clients \ {c} : fd \notin clients[d].held,
         NEW n, n = w.descriptors[fd].node, Contains(w.nodes[n].openFileDescriptors, fd),
         NEW v, v = Erasing(w, n, fd)
  PROVE  Good(v, c) /\ v.me = w.me /\ Spares(w.nodes, w.descriptors, v.nodes, v.descriptors)
<1> DEFINE ns == w.nodes
           ds == w.descriptors
           open == ns[n].openFileDescriptors
           rest == Erase(open, fd)
           node == [ns[n] EXCEPT !.openFileDescriptors = rest]
           ms == [ns EXCEPT ![n] = node]
<1>1. /\ w \in Worlds /\ ns \in Seq(NodeRecords) /\ Opened(ns, ds) /\ Holds(w.me, ns, ds)
      /\ Others(w, c) /\ w.me.node \in DOMAIN ns
      /\ n \in DOMAIN ns /\ ns[n] \in NodeRecords
  BY WorldTypes, NodeTypes DEF Good, Opened
<1>2. open \in Seq(Nat) /\ IsInjective(open)
      /\ \A i \in DOMAIN open : open[i] \in DOMAIN ds /\ ds[open[i]].node = n
  BY <1>1, NodeTypes, Zenon DEF Opened
<1>3. v = [w EXCEPT !.nodes = ms]
  BY <1>1 DEF Erasing, Worlds
<1> HIDE DEF open
<1>4. /\ rest \in Seq(Nat) /\ IsInjective(rest)
      /\ \A i \in DOMAIN rest : Contains(open, rest[i])
      /\ \A d : Contains(open, d) /\ d # fd => Contains(rest, d)
  <2>1. Contains(open, fd)
    BY DEF open
  <2> HIDE DEF rest
  <2>2. rest = Erase(open, fd)
    BY DEF rest
  <2> QED BY <1>2, <2>1, <2>2, Erased
<1> HIDE DEF rest
<1>5. /\ node \in NodeRecords /\ node.name = ns[n].name /\ node.parent = ns[n].parent
      /\ node.childrenCreated = ns[n].childrenCreated /\ node.children = ns[n].children
      /\ node.openFileDescriptors = rest /\ node.lost = ns[n].lost
  BY <1>1, <1>4 DEF NodeRecords
<1> HIDE DEF node
<1>6. ms \in Seq(NodeRecords) /\ DOMAIN ms = DOMAIN ns /\ \A m \in DOMAIN ns : ms[m] = IF m = n THEN node ELSE ns[m]
  <2>1. ns \in Seq(NodeRecords) /\ n \in DOMAIN ns /\ node \in NodeRecords
    BY <1>1, <1>5
  <2> QED BY <2>1, ExceptSeq
<1> HIDE DEF ms
<1>7. v \in Worlds /\ v.nodes = ms /\ v.descriptors = ds /\ v.me = w.me
  BY <1>1, <1>3, <1>6 DEF Worlds
<1>8. SameTree(ns, ms)
  BY <1>5, <1>6 DEF SameTree
<1>9. Opened(ms, ds)
  <2>1. \A d \in DOMAIN ds : ds[d].node \in DOMAIN ms
    BY <1>1, <1>6 DEF Opened
  <2>2. ASSUME NEW m \in DOMAIN ms, m # n
        PROVE  /\ IsInjective(ms[m].openFileDescriptors)
               /\ \A i \in DOMAIN ms[m].openFileDescriptors :
                    LET d == ms[m].openFileDescriptors[i] IN d \in DOMAIN ds /\ ds[d].node = m
    <3>1. m \in DOMAIN ns /\ ms[m] = ns[m]
      BY <2>2, <1>6
    <3> QED BY <3>1, <1>1 DEF Opened
  <2>3. ms[n].openFileDescriptors = rest
    BY <1>1, <1>5, <1>6
  <2>4. \A i \in DOMAIN rest : rest[i] \in DOMAIN ds /\ ds[rest[i]].node = n
    <3> SUFFICES ASSUME NEW i \in DOMAIN rest
                 PROVE  rest[i] \in DOMAIN ds /\ ds[rest[i]].node = n
      OBVIOUS
    <3>1. PICK j \in 1 .. Len(open) : open[j] = rest[i]
      BY <1>4 DEF Contains
    <3> QED BY <3>1, <1>2
  <2> QED BY <2>1, <2>2, <2>3, <2>4, <1>4 DEF Opened
<1>10. ASSUME NEW d \in DOMAIN ds, d # fd, Contains(ns[ds[d].node].openFileDescriptors, d)
       PROVE  Contains(ms[ds[d].node].openFileDescriptors, d)
  <2>1. ds[d].node \in DOMAIN ns
    BY <1>1 DEF Opened
  <2>2. CASE ds[d].node = n
    BY <2>2, <1>1, <1>4, <1>5, <1>6, <1>10, Zenon DEF open
  <2>3. CASE ds[d].node # n
    BY <2>1, <2>3, <1>6, <1>10
  <2> QED BY <2>2, <2>3
<1>11. Holds(w.me, ms, ds)
  BY <1>1, <1>10 DEF Holds
<1>12. \A d \in Clients \ {c} :
         /\ clients[d].held \cap w.me.held = {}
         /\ \A f \in clients[d].held \ clients[d].closed :
              Contains(ns[ds[f].node].openFileDescriptors, f)
                => Contains(ms[ds[f].node].openFileDescriptors, f)
  BY <1>1, <1>10 DEF Others, Client, Holds
<1>13. Good(v, c)
  <2>1. SameTree(w.nodes, v.nodes) /\ v.me.node \in DOMAIN w.nodes
    BY <1>1, <1>7, <1>8
  <2>2. /\ DOMAIN w.descriptors \subseteq DOMAIN v.descriptors
        /\ \A d \in DOMAIN w.descriptors : v.descriptors[d].node = w.descriptors[d].node
    BY <1>7
  <2>3. Opened(v.nodes, v.descriptors) /\ Holds(v.me, v.nodes, v.descriptors)
    BY <1>7, <1>9, <1>11
  <2>4. \A d \in Clients \ {c} :
          /\ clients[d].held \cap v.me.held = {}
          /\ \A f \in clients[d].held \ clients[d].closed :
               Contains(w.nodes[w.descriptors[f].node].openFileDescriptors, f)
                 => Contains(v.nodes[w.descriptors[f].node].openFileDescriptors, f)
    BY <1>7, <1>12
  <2> QED BY <1>7, <2>1, <2>2, <2>3, <2>4, RelistedIsGood
<1>14. \A m \in DOMAIN ns : ms[m].lost = ns[m].lost
  BY <1>5, <1>6
<1> QED
  BY <1>7, <1>8, <1>13, <1>14 DEF Spares

\* closeFile keeps the invariant.
LEMMA CloseHolds ==
  ASSUME IInv, failed = "no", NEW c \in Clients, NEW fd \in clients[c].held,
         NEW keep \in BOOLEAN, Close(c, fd, keep)
  PROVE  IInv' /\ \E called \in Worlds : Call(c, called) /\ OnFile(called, World(c), "close")
<1> DEFINE u == World(c)
           me == [u.me EXCEPT !.call = [op |-> "close"],
                              !.held = IF keep THEN @ ELSE @ \ {fd},
                              !.closed = @ \cup {fd}]
           w == [u EXCEPT !.me.call = [op |-> "close"],
                          !.me.held = IF keep THEN @ ELSE @ \ {fd},
                          !.me.closed = @ \cup {fd}]
           n == descriptors[fd].node
           x == Erasing(w, n, fd)
           called == IF Contains(nodes[n].openFileDescriptors, fd) THEN Return(x, "Ok")
                     ELSE Return(w, "NotFile")
<1>1. Call(c, called) /\ clients[c].pc = "idle"
  BY Zenon DEF Close, Call, Erasing
<1>2. /\ Good(u, c) /\ u \in Worlds /\ u.me \in ClientRecords /\ u.nodes = nodes
      /\ u.descriptors = descriptors /\ u.me = clients[c]
      /\ fd \in DOMAIN descriptors /\ fd \in Nat
  <2>1. Good(u, c) /\ u.descriptors = descriptors /\ u.me = clients[c] /\ u.nodes = nodes
    BY WorldIsGood
  <2>2. u \in Worlds /\ u.me \in ClientRecords
    BY <2>1, WorldTypes DEF Good
  <2>3. fd \in DOMAIN descriptors
    BY DEF IInv, Client, Holds
  <2>4. fd \in Nat
    BY <2>1, <2>2, ClientTypes
  <2> QED BY <2>1, <2>2, <2>3, <2>4
<1>3. w = [u EXCEPT !.me = me]
  BY <1>2 DEF Worlds
<1> HIDE DEF u
<1>4. /\ me \in ClientRecords /\ me.call = [op |-> "close"]
      /\ me.calls = u.me.calls /\ me.node = u.me.node
      /\ me.held \subseteq u.me.held /\ me.closed = u.me.closed \cup {fd}
  <2> DEFINE held == IF keep THEN u.me.held ELSE u.me.held \ {fd}
             closed == u.me.closed \cup {fd}
  <2>1. held \in SUBSET Nat /\ closed \in SUBSET Nat /\ held \subseteq u.me.held
    BY <1>2, ClientTypes
  <2>2. [op |-> "close"] \in CallRecords
    BY DEF CallRecords
  <2> HIDE DEF held, closed
  <2>3. me = [u.me EXCEPT !.call = [op |-> "close"], !.held = held, !.closed = closed]
    BY DEF held, closed
  <2> HIDE DEF me
  <2>4. /\ me \in ClientRecords /\ me.call = [op |-> "close"]
        /\ me.calls = u.me.calls /\ me.node = u.me.node
        /\ me.held = held /\ me.closed = closed
    BY <1>2, <2>1, <2>2, <2>3 DEF ClientRecords
  <2> QED BY <2>1, <2>4 DEF closed
<1> HIDE DEF me, w
<1>5. /\ w \in Worlds /\ w.me = me /\ w.nodes = u.nodes /\ w.descriptors = u.descriptors
  BY <1>2, <1>3, <1>4 DEF Worlds
<1>6. Good(w, c)
  <2>1. SameTree(u.nodes, w.nodes) /\ w.me.node \in DOMAIN u.nodes
    BY <1>2, <1>4, <1>5 DEF SameTree, Good
  <2>2. Opened(w.nodes, w.descriptors) /\ Holds(w.me, w.nodes, w.descriptors)
    BY <1>2, <1>4, <1>5 DEF Good, Holds
  <2>3. \A d \in Clients \ {c} : clients[d].held \cap w.me.held = {}
    BY <1>2, <1>4, <1>5 DEF Good, Others
  <2> QED BY <1>2, <1>5, <2>1, <2>2, <2>3, RelistedIsGood
<1>7. w.me.call \notin Lookups
  BY <1>4, <1>5, CallsAssumption
<1>8. \A d \in Clients \ {c} : fd \notin clients[d].held
  BY DEF IInv
<1>9. fd \notin w.me.held \ w.me.closed
  BY <1>4, <1>5
<1>10. Comes(called, u, c) /\ OnFile(called, u, "close")
  <2>1. CASE ~ Contains(nodes[n].openFileDescriptors, fd)
    <3>1. called = Return(w, "NotFile")
      BY <2>1
    <3> HIDE DEF called
    <3>2. Comes(called, u, c)
      BY <3>1, <1>4, <1>5, <1>6, <1>7, ReturnIsReady DEF Comes, Statuses
    <3>3. /\ called.nodes = u.nodes /\ called.descriptors = u.descriptors
          /\ called.me.call = w.me.call /\ called.me.pc = "idle"
      BY <3>1, <1>5, <1>6, <1>7, ReturnIsReady DEF Statuses
    <3>4. Spares(u.nodes, u.descriptors, u.nodes, u.descriptors)
      BY DEF Spares, SameTree
    <3> QED BY <3>2, <3>3, <3>4, <1>4, <1>5 DEF OnFile, Waits
  <2>2. CASE Contains(nodes[n].openFileDescriptors, fd)
    <3>1. called = Return(x, "Ok")
      BY <2>2
    <3>2. Good(x, c) /\ x.me = w.me /\ Spares(w.nodes, w.descriptors, x.nodes, x.descriptors)
      <4>1. fd \in DOMAIN w.descriptors /\ n = w.descriptors[fd].node
            /\ Contains(w.nodes[n].openFileDescriptors, fd)
        BY <2>2, <1>2, <1>5
      <4> HIDE DEF n
      <4> QED BY <4>1, <1>6, <1>8, <1>9, ErasedIsGood
    <3> HIDE DEF called, x
    <3>3. Comes(called, u, c)
      BY <3>1, <3>2, <1>4, <1>5, <1>7, ReturnIsReady DEF Comes, Statuses
    <3>4. /\ called.nodes = x.nodes /\ called.descriptors = x.descriptors
          /\ called.me.call = w.me.call /\ called.me.pc = "idle"
      BY <3>1, <3>2, <1>7, ReturnIsReady DEF Statuses
    <3> QED BY <3>2, <3>3, <3>4, <1>4, <1>5 DEF OnFile, Waits
  <2> QED BY <2>1, <2>2
<1> HIDE DEF called
<1>11. called \in Worlds
  BY <1>10 DEF Comes, Good
<1> QED
  BY <1>1, <1>10, <1>11, CallHolds DEF u


\* A call that goes on with the device's answer keeps the invariant, whatever
\* other calls have done to the tree since it asked.
LEMMA ResumeHolds ==
  ASSUME IInv, failed = "no", NEW c \in Clients, NEW free \in BOOLEAN, Resume(c, free)
  PROVE  IInv'
<1> DEFINE w == World(c)
           p == Populate(w, w.me.node)
           has == answer[c] = "true"
           resumed ==
             CASE w.me.pc = "reading" -> Copy(w, IF has THEN "data" ELSE "null")
               [] w.me.pc # "reading" /\ ~ has -> NoContents(w)
               [] w.me.pc = "walking" /\ has -> GetInfo(p, free)
               [] w.me.pc = "listing" /\ has -> HaveDirectory(p, TRUE)
<1>1. clients[c].pc # "idle" /\ Commit(c, resumed)
  BY DEF Resume
<1>2. /\ Good(w, c) /\ w.nodes = nodes /\ w.descriptors = descriptors
      /\ w.failed = "no" /\ w.me = clients[c]
  BY WorldIsGood
<1>3. /\ clients[c] \in ClientRecords /\ clients[c].calls <= Calls
      /\ Client(clients[c], nodes, descriptors)
  BY DEF IInv, TypeInv
<1>4. w.me.pc \in {"walking", "listing", "reading"}
  BY <1>1, <1>2, <1>3, ClientTypes
<1> HIDE DEF w, has
<1>5. ASSUME Waits(w.me)
      PROVE  /\ Good(p, c) /\ p.me = w.me /\ p.failed = "no"
             /\ p.nodes[w.me.node].childrenCreated
             /\ p.nodes[w.me.node].name = w.nodes[w.me.node].name
             /\ OnItsWay(w.me, w.nodes)
  <2>1. OnItsWay(w.me, w.nodes) /\ w.me.node \in DOMAIN w.nodes
    BY <1>2, <1>3, <1>5 DEF Client
  <2>2. w.nodes[w.me.node].name \in Directories
    BY <2>1 DEF OnItsWay
  <2>3. ~ overlapped => /\ ~ w.nodes[w.me.node].childrenCreated
                        /\ \A d \in Clients \ {c} : Waits(clients[d]) => clients[d].node # w.me.node
    BY <1>2, <1>5 DEF IInv, NoneTwice
  <2> HIDE DEF p
  <2>4. p = Populate(w, w.me.node)
    BY DEF p
  <2> QED BY <1>2, <2>1, <2>2, <2>3, <2>4, PopulateHolds DEF Extended
<1> HIDE DEF p
<1>6. Comes(resumed, w, c)
  <2>1. CASE w.me.pc = "reading"
    <3>1. resumed = Copy(w, IF has THEN "data" ELSE "null")
      BY <2>1
    <3>2. w.me.fd \in DOMAIN w.descriptors /\ w.me.call = [op |-> "read"]
      BY <2>1, <1>2, <1>3 DEF Client
    <3> HIDE DEF resumed
    <3> QED BY <1>2, <3>1, <3>2, CopyHolds
  <2>2. CASE w.me.pc # "reading" /\ ~ has
    <3>1. resumed = Return(w, "IOError")
      BY <2>2 DEF NoContents
    <3> HIDE DEF resumed
    <3> QED BY <1>2, <3>1, ReturnIsReady DEF Comes, Statuses
  <2>3. CASE w.me.pc = "walking" /\ has
    <3>1. resumed = GetInfo(p, free)
      BY <2>3
    <3> HIDE DEF resumed
    <3>2. /\ Good(p, c) /\ p.me = w.me /\ p.failed = "no"
          /\ p.nodes[w.me.node].name = w.nodes[w.me.node].name
          /\ OnItsWay(w.me, w.nodes)
      BY <1>5, <2>3 DEF Waits
    <3>3. Going(p)
      BY <2>3, <3>2 DEF Going, OnItsWay
    <3>4. Comes(resumed, p, c)
      BY <3>1, <3>2, <3>3, GetInfoHolds
    <3> QED BY <3>2, <3>4 DEF Comes
  <2>4. CASE w.me.pc = "listing" /\ has
    <3>1. resumed = HaveDirectory(p, TRUE)
      BY <2>4
    <3> HIDE DEF resumed
    <3>2. /\ Good(p, c) /\ p.me = w.me
          /\ p.nodes[p.me.node].childrenCreated
          /\ p.nodes[w.me.node].name = w.nodes[w.me.node].name
          /\ OnItsWay(w.me, w.nodes)
      BY <1>5, <2>4 DEF Waits
    <3>3. Arrived(p)
      BY <2>4, <3>2 DEF Arrived, OnItsWay
    <3>4. Comes(resumed, p, c)
      BY <3>1, <3>2, <3>3, HaveDirectoryHolds
    <3> QED BY <3>2, <3>4 DEF Comes
  <2> QED BY <1>4, <2>1, <2>2, <2>3, <2>4
<1> HIDE DEF resumed
<1>7. Good(resumed, c) /\ Ready(resumed) /\ resumed.me.calls <= Calls
  BY <1>2, <1>3, <1>6 DEF Comes
<1> QED
  BY <1>1, <1>7, CommitHolds

\* The device's own steps leave the clients alone.
LEMMA DeviceHolds ==
  ASSUME IInv, UNCHANGED treeVars
  PROVE  IInv'
BY DEF IInv, TypeInv, NoneTwice, treeVars

\* The invariant holds at first.
LEMMA InitHolds == Init => IInv
<1> SUFFICES ASSUME Init
             PROVE  IInv
  OBVIOUS
<1> DEFINE root == NewNode("root", Root)
           start == [pc |-> "idle", node |-> Root, done |-> 0, slept |-> FALSE, fd |-> 0,
                     request |-> NoRequest, call |-> [op |-> "none"], status |-> "none",
                     held |-> {}, closed |-> {}, calls |-> 0]
<1>1. /\ nodes = <<root>> /\ descriptors = <<>> /\ clients = [c \in Clients |-> start]
      /\ failed = "no" /\ overlapped = FALSE
  BY DEF Init
<1>2. /\ root \in NodeRecords /\ root.name = "root" /\ root.parent = 1
      /\ root.childrenCreated = FALSE /\ root.children = <<>> /\ root.openFileDescriptors = <<>>
  BY DEF NewNode, Root, NodeRecords, Names
<1>3. /\ start \in ClientRecords /\ start.pc = "idle" /\ start.node = 1 /\ start.done = 0
      /\ start.held = {} /\ start.calls = 0 /\ start.call = [op |-> "none"]
  BY DEF Root, ClientRecords, CallRecords, NoRequest
<1> HIDE DEF root, start
<1>4. nodes \in Seq(NodeRecords) /\ DOMAIN nodes = {1} /\ nodes[1] = root
  BY <1>1, <1>2
<1>5. \A c \in Clients : clients[c] = start
  BY <1>1
<1>6. TypeInv
  <2>1. Calls \in Nat
    BY CallsAssumption
  <2>2. descriptors \in Seq(DescriptorRecords) /\ clients \in [Clients -> ClientRecords]
    BY <1>1, <1>3
  <2>3. \A c \in Clients : clients[c].calls <= Calls
    BY <1>3, <1>5, <2>1
  <2>4. failed \in Failures /\ overlapped \in BOOLEAN
    BY <1>1 DEF Failures
  <2> QED BY <1>4, <2>2, <2>3, <2>4 DEF TypeInv
<1>7. Tree(nodes)
  BY <1>2, <1>4 DEF Tree
<1>8. Opened(nodes, descriptors)
  BY <1>1, <1>2, <1>4 DEF Opened, IsInjective
<1>9. \A c \in Clients : Client(clients[c], nodes, descriptors)
  BY <1>3, <1>4, <1>5 DEF Client, Holds, Waits
<1>10. \A c \in Clients : Truthful(clients[c])
  BY <1>3, <1>5, CallsAssumption DEF Truthful
<1>11. NoneTwice
  BY <1>3, <1>4, <1>5 DEF NoneTwice, Unique, Waits
<1> QED
  BY <1>3, <1>5, <1>6, <1>7, <1>8, <1>9, <1>10, <1>11 DEF IInv

\* Every step keeps the invariant.
LEMMA StepHolds == IInv /\ [Next]_vars => IInv'
<1> SUFFICES ASSUME IInv, [Next]_vars
             PROVE  IInv'
  OBVIOUS
<1>1. CASE UNCHANGED vars
  BY <1>1, DeviceHolds DEF vars
<1>2. ASSUME NEW c \in Clients, DeviceStep(c)
      PROVE  IInv'
  BY <1>2, DeviceHolds DEF DeviceStep
<1>3. ASSUME failed = "no", NEW c \in Clients, NEW free \in BOOLEAN, ClientStep(c, free)
      PROVE  IInv'
  BY <1>3, ListHolds, OpenHolds, ReadHolds, ResumeHolds DEF ClientStep
<1>4. ASSUME failed = "no", NEW c \in Clients, NEW fd \in clients[c].held, NEW keep \in BOOLEAN,
             Close(c, fd, keep)
      PROVE  IInv'
  BY <1>4, CloseHolds
<1> QED
  BY <1>1, <1>2, <1>3, <1>4 DEF Next, Running

\* Clients ask the device, and take its answers, as their calls wait and return.
LEMMA PhasesHold == TypeInv /\ PhaseInv /\ [Next]_vars => PhaseInv'
<1> SUFFICES ASSUME TypeInv, PhaseInv, [Next]_vars
             PROVE  PhaseInv'
  OBVIOUS
<1>1. CASE UNCHANGED vars
  BY <1>1 DEF PhaseInv, vars, treeVars, deviceVars
<1>2. ASSUME NEW c \in Clients, DeviceStep(c)
      PROVE  PhaseInv'
  BY <1>2 DEF PhaseInv, DeviceStep, treeVars, Device!Execute, Device!Answer
<1>3. ASSUME NEW c \in Clients, NEW called, Call(c, called)
      PROVE  PhaseInv'
  <2> DEFINE me == [called.me EXCEPT !.calls = @ + 1]
  <2>1. /\ clients' = [clients EXCEPT ![c] = me] /\ phase[c] = "idle"
        /\ IF called.me.pc = "idle" THEN UNCHANGED deviceVars ELSE Device!Ask(c)
    BY <1>3 DEF Call, Commit, PhaseInv
  <2>2. me.pc = called.me.pc
    OBVIOUS
  <2> HIDE DEF me
  <2> QED BY <2>1, <2>2 DEF TypeInv, PhaseInv, deviceVars, Device!Ask
<1>4. ASSUME NEW c \in Clients, NEW free \in BOOLEAN, Resume(c, free)
      PROVE  PhaseInv'
  <2>1. PICK next : /\ Device!Take(c) /\ clients' = [clients EXCEPT ![c] = next.me]
                    /\ (phase'[c] = "waiting") = (next.me.pc # "idle")
    BY <1>4 DEF Resume, Commit
  <2> QED BY <2>1 DEF TypeInv, PhaseInv, Device!Take
<1>5. ASSUME NEW c \in Clients, NEW free \in BOOLEAN, ClientStep(c, free)
      PROVE  PhaseInv'
  BY <1>3, <1>4, <1>5, Zenon DEF ClientStep, List, Open, Read
<1>6. ASSUME NEW c \in Clients, NEW fd \in clients[c].held, NEW keep \in BOOLEAN,
             Close(c, fd, keep)
      PROVE  PhaseInv'
  BY <1>3, <1>6, Zenon DEF Close
<1> QED
  BY <1>1, <1>2, <1>5, <1>6 DEF Next

\* The invariants hold always.
LEMMA Invariance == Spec => []IInv /\ []PhaseInv
<1>1. Init => PhaseInv
  BY DEF Init, Device!Init, PhaseInv
<1>2. IInv => TypeInv
  BY DEF IInv
<1> QED
  BY <1>1, <1>2, InitHolds, StepHolds, PhasesHold, PTL DEF Spec

-----------------------------------------------------------------------------
(* Pointers that are uncounted twice.  One client that opens files in        *)
(* directories that nobody has read yet loses at most one pointer to each of *)
(* them, and no descriptor: a directory that it reads has its children's     *)
(* pointers too.  KernelMain has such a client.                              *)

\* Each node but the root is a child of its parent, and only directories that
\* count as read have children.
Linked(ns) ==
  \A n \in DOMAIN ns :
    /\ n # 1 => Contains(ns[ns[n].parent].children, n)
    /\ ~ ns[n].childrenCreated => ns[n].children = <<>>

\* A node that lost a pointer has children, or is being read.
Accounted(me, ns, ds) ==
  /\ Linked(ns)
  /\ \A n \in DOMAIN ns :
       \/ ns[n].lost = 0
       \/ ns[n].lost = 1 /\ (ns[n].children # <<>> \/ (me.pc = "listing" /\ me.node = n))
  /\ \A fd \in DOMAIN ds : ~ ds[fd].lost

\* openFile has returned, without the file.
GaveUp(me) == me.pc = "idle" /\ me.call.op = "open" /\ me.status \notin {"none", "Ok"}

Settled(me, ns, ds) ==
  \/ Accounted(me, ns, ds) /\ (me.pc = "walking" => me.slept)
  \/ GaveUp(me)

\* Only directories on the way along the path count as read.
ReadAlong(ns, path) ==
  \A n \in DOMAIN ns :
    ns[n].childrenCreated =>
      \E k \in 0 .. Len(path) : Resolve(path)[k] = [status |-> "Ok", name |-> ns[n].name]

\* The directory that the path leads to does not count as read.
EndUnread(ns, path) ==
  \A n \in DOMAIN ns :
    ns[n].childrenCreated =>
      Resolve(path)[Len(path)] # [status |-> "Ok", name |-> ns[n].name]

\* Steps that lose nothing keep the account.
LEMMA AccountedStays ==
  ASSUME NEW me, NEW ns, NEW ds, Accounted(me, ns, ds), Tree(ns),
         me.pc = "listing" => ns[me.node].children # <<>>,
         NEW you, NEW ms, NEW es, Spares(ns, ds, ms, es)
  PROVE  Accounted(you, ms, es)
<1>1. Linked(ms)
  <2> SUFFICES ASSUME NEW n \in DOMAIN ms
               PROVE  /\ n # 1 => Contains(ms[ms[n].parent].children, n)
                      /\ ~ ms[n].childrenCreated => ms[n].children = <<>>
    BY DEF Linked
  <2>1. n \in DOMAIN ns /\ ns[n].parent \in DOMAIN ns
    BY DEF Spares, SameTree, Tree
  <2> QED BY <2>1 DEF Spares, SameTree, Accounted, Linked
<1>2. ASSUME NEW n \in DOMAIN ms
      PROVE  ms[n].lost = 0 \/ (ms[n].lost = 1 /\ ms[n].children # <<>>)
  <2>1. /\ n \in DOMAIN ns /\ ms[n].lost = ns[n].lost /\ ms[n].children = ns[n].children
    BY DEF Spares, SameTree
  <2> QED BY <2>1 DEF Accounted
<1>3. \A fd \in DOMAIN es : ~ es[fd].lost
  BY DEF Spares, Accounted
<1> QED
  BY <1>1, <1>2, <1>3 DEF Accounted

\* A directory that nobody has read gets its children, and loses nothing.
LEMMA PopulateAccounts ==
  ASSUME NEW me, NEW ns, NEW ds, Accounted(me, ns, ds), Tree(ns), NEW n \in DOMAIN ns,
         ~ ns[n].childrenCreated, NEW ms, Extended(ns, ms, n)
  PROVE  /\ Accounted(me, ms, ds)
         /\ \A path : ReadAlong(ns, path) /\ (\E k \in 0 .. Len(path) :
                          Resolve(path)[k] = [status |-> "Ok", name |-> ns[n].name])
                       => ReadAlong(ms, path)
<1>1. \A m \in DOMAIN ns : m # n => ms[m] = ns[m]
  BY DEF Extended
<1>2. \A m \in DOMAIN ns : Contains(ns[ns[m].parent].children, m) => ns[m].parent # n
  BY DEF Accounted, Linked, Contains
<1>3. Linked(ms)
  <2> SUFFICES ASSUME NEW m \in DOMAIN ms
               PROVE  /\ m # 1 => Contains(ms[ms[m].parent].children, m)
                      /\ ~ ms[m].childrenCreated => ms[m].children = <<>>
    BY DEF Linked
  <2>1. CASE m \notin DOMAIN ns
    BY <2>1 DEF Extended
  <2>2. CASE m \in DOMAIN ns
    <3>1. ns[m].parent \in DOMAIN ns /\ ms[m].parent = ns[m].parent
      BY <2>2 DEF Tree, Extended
    <3>2. m # 1 => Contains(ms[ms[m].parent].children, m)
      BY <1>1, <1>2, <2>2, <3>1 DEF Accounted, Linked
    <3>3. ~ ms[m].childrenCreated => ms[m].children = <<>>
      BY <1>1, <2>2 DEF Accounted, Linked, Extended
    <3> QED BY <3>2, <3>3
  <2> QED BY <2>1, <2>2
<1>4. ASSUME NEW m \in DOMAIN ms
      PROVE  \/ ms[m].lost = 0
             \/ ms[m].lost = 1 /\ (ms[m].children # <<>> \/ (me.pc = "listing" /\ me.node = m))
  <2>1. CASE m \notin DOMAIN ns
    BY <2>1 DEF Extended
  <2>2. CASE m \in DOMAIN ns /\ m # n
    BY <2>2, <1>1 DEF Accounted
  <2>3. CASE m = n
    <3>1. ns[n].children = <<>> /\ ms[n].lost = ns[n].lost
      BY DEF Accounted, Linked, Extended
    <3> QED BY <2>3, <3>1 DEF Accounted
  <2> QED BY <2>1, <2>2, <2>3
<1>5. ASSUME NEW path, ReadAlong(ns, path),
             \E k \in 0 .. Len(path) : Resolve(path)[k] = [status |-> "Ok", name |-> ns[n].name]
      PROVE  ReadAlong(ms, path)
  <2> SUFFICES ASSUME NEW m \in DOMAIN ms, ms[m].childrenCreated
               PROVE  \E k \in 0 .. Len(path) :
                        Resolve(path)[k] = [status |-> "Ok", name |-> ms[m].name]
    BY DEF ReadAlong
  <2>1. m \in DOMAIN ns /\ ms[m].name = ns[m].name
    BY DEF Extended
  <2>2. m # n => ns[m].childrenCreated
    BY <1>1, <2>1
  <2> QED BY <1>5, <2>1, <2>2 DEF ReadAlong
<1> QED
  BY <1>3, <1>4, <1>5 DEF Accounted

\* openFile for reading, where a command slot is free or the call has waited.
Opens(call, b) == b /\ call.op = "open" /\ ~ call.create

\* openFile loses nothing once it has waited; it finds the file among the
\* directory's children or gives up.
LEMMA OpenInSpares ==
  ASSUME NEW c \in Clients, NEW w, Good(w, c), Arrived(w),
         w.nodes[w.me.node].childrenCreated, NEW slept, Opens(w.me.call, slept),
         NEW v, v = OpenIn(w, slept)
  PROVE  /\ v.me.call = w.me.call /\ v.me.pc = "idle"
         /\ Spares(w.nodes, w.descriptors, v.nodes, v.descriptors)
         /\ GaveUp(v.me) \/ w.nodes[w.me.node].children # <<>>
<1> DEFINE ns == w.nodes
           ds == w.descriptors
           name == Last(w.me.call.parts)
           found == Named(ns, w.me.node, name)
           n == ns[w.me.node].children[Max(found)]
           u == Opening(w, n, slept)
<1>1. /\ ns \in Seq(NodeRecords) /\ Tree(ns) /\ w \in Worlds /\ w.me \in ClientRecords
      /\ ds \in Seq(DescriptorRecords) /\ w.me.node \in DOMAIN ns
  BY WorldTypes DEF Good
<1>2. found # {} => n \in DOMAIN ns
  BY <1>1, NamedIs
<1>3. v = IF found = {}
          THEN IF w.me.call.create THEN Fail(w, "not_implemented") ELSE Return(w, "NoSuchDirectoryOrFile")
          ELSE IF name \in Directories THEN Return(w, "NotFile") ELSE Return(u, "Ok")
  BY Zenon DEF OpenIn, Opening
<1>4. found # {} => ns[w.me.node].children # <<>>
  BY DEF Named
<1> HIDE DEF found, n, u, name
<1>5. Spares(ns, ds, ns, ds)
  BY DEF Spares, SameTree
<1>6. CASE found = {} \/ name \in Directories
  <2>1. PICK status \in {"NoSuchDirectoryOrFile", "NotFile"} : v = Return(w, status)
    BY <1>3, <1>6 DEF Opens
  <2>2. status \in Statuses \cup {"none"} /\ status \notin {"none", "Ok"}
    BY DEF Statuses
  <2>3. /\ v.nodes = ns /\ v.descriptors = ds /\ v.me.call = w.me.call /\ v.me.pc = "idle"
        /\ v.me.status \notin {"none", "Ok"}
    BY <2>1, <2>2, ReturnHolds
  <2> QED BY <2>3, <1>5 DEF GaveUp, Opens
<1>7. CASE found # {} /\ name \notin Directories
  <2>1. v = Return(u, "Ok") /\ n \in DOMAIN w.nodes
    BY <1>2, <1>3, <1>7
  <2>2. Good(u, c) /\ u.me.call = w.me.call
    <3>1. u = Opening(w, n, slept)
      BY DEF u
    <3> QED BY <2>1, <3>1, DescriptorIsListed
  <2>3. v.nodes = u.nodes /\ v.descriptors = u.descriptors /\ v.me.call = w.me.call /\ v.me.pc = "idle"
    <3>1. "Ok" \in Statuses \cup {"none"}
      BY DEF Statuses
    <3> QED BY <2>1, <2>2, <3>1, ReturnHolds
  <2>4. Spares(ns, ds, u.nodes, u.descriptors)
    <3> DEFINE open == Append(ns[n].openFileDescriptors, Len(ds) + 1)
               node == [ns[n] EXCEPT !.openFileDescriptors = open]
               new == [node |-> n, lost |-> ~ slept]
               me == [w.me EXCEPT !.held = @ \cup {Len(ds) + 1}]
    <3>1. ns[n] \in NodeRecords /\ n \in Nat
      BY <1>1, <2>1, NodeTypes
    <3>2. u = [w EXCEPT !.descriptors = Append(ds, new), !.nodes = [ns EXCEPT ![n] = node], !.me = me]
      BY <1>1, <3>1 DEF u, Opening, Worlds
    <3>3. /\ node.name = ns[n].name /\ node.parent = ns[n].parent
          /\ node.childrenCreated = ns[n].childrenCreated /\ node.children = ns[n].children
          /\ node.lost = ns[n].lost
      <4> HIDE DEF open
      <4> QED BY <3>1 DEF NodeRecords
    <3> HIDE DEF node, me
    <3>4. u.descriptors = Append(ds, new) /\ u.nodes = [ns EXCEPT ![n] = node]
      BY <3>2, <1>1 DEF Worlds
    <3>5. \A fd \in DOMAIN Append(ds, new) :
            Append(ds, new)[fd].lost => fd \in DOMAIN ds /\ ds[fd].lost
      <4>1. new \in DescriptorRecords /\ ~ new.lost
        BY <3>1 DEF DescriptorRecords, Opens
      <4>2. Len(ds) \in Nat /\ DOMAIN ds = 1 .. Len(ds)
        BY <1>1
      <4> HIDE DEF new, ds
      <4>3. /\ DOMAIN Append(ds, new) = 1 .. Len(ds) + 1
            /\ Append(ds, new)[Len(ds) + 1] = new
            /\ \A i \in 1 .. Len(ds) : Append(ds, new)[i] = ds[i]
        BY <4>1, <1>1
      <4> QED BY <4>1, <4>2, <4>3
    <3>6. SameTree(ns, u.nodes) /\ \A m \in DOMAIN ns : u.nodes[m].lost = ns[m].lost
      <4>1. \A m \in DOMAIN ns : u.nodes[m] = IF m = n THEN node ELSE ns[m]
        BY <1>1, <3>4
      <4>2. DOMAIN u.nodes = DOMAIN ns
        BY <1>1, <3>4
      <4> HIDE DEF ns, u
      <4> QED BY <4>1, <4>2, <3>3 DEF SameTree
    <3> QED BY <3>4, <3>5, <3>6 DEF Spares
  <2> QED BY <2>3, <2>4, <1>4, <1>7
<1> QED
  BY <1>6, <1>7

\* A call that waits for a directory or gives up, or that finds its file after it
\* has waited, leaves every pointer accounted for.
LEMMA GetInfoSettles ==
  ASSUME NEW c \in Clients, NEW w, Good(w, c), Going(w), w.failed = "no",
         NEW free, Opens(w.me.call, free), w.me.pc # "listing",
         Accounted(w.me, w.nodes, w.descriptors),
         w.me.slept \/ EndUnread(w.nodes, Path(w.me.call)),
         NEW v, v = GetInfo(w, free)
  PROVE  /\ Settled(v.me, v.nodes, v.descriptors)
         /\ SameTree(w.nodes, v.nodes) /\ v.me.call = w.me.call
<1> DEFINE l == w.me.call
           path == Path(l)
           ns == w.nodes
           ds == w.descriptors
           at == [node |-> w.me.node, done |-> w.me.done, stop |-> "no"]
           g == Walk(ns, at, path)
           r == Resolve(path)
           end == g[Len(path)]
           there == Moved(w, end.node, end.done)
           waiting == [there EXCEPT !.me.pc = "walking", !.me.slept = TRUE]
<1>1. /\ w \in Worlds /\ w.me \in ClientRecords /\ ns \in Seq(NodeRecords) /\ Tree(ns)
      /\ w.me.node \in DOMAIN ns /\ w.me.node \in Nat /\ w.me.done \in Nat
  BY WorldTypes, ClientTypes DEF Good
<1>2. l \in Lookups /\ Len(path) \in Nat /\ w.me.done <= Len(path)
  BY LookupTypes DEF Going
<1>3. at \in Spots /\ at.stop = "no" /\ at.node = w.me.node /\ at.done = w.me.done
  BY <1>1 DEF Spots
<1>4. v = CASE end.stop = "no" -> ReadDirectory(there, free)
            [] end.stop = "unread" /\ free -> waiting
            [] end.stop = "unread" /\ ~ free -> NoContents(there)
            [] OTHER -> Return(w, end.stop)
  BY DEF GetInfo, Moved
<1>5. r[w.me.done] = [status |-> "Ok", name |-> ns[w.me.node].name]
  BY DEF Going
<1> HIDE DEF path, at
<1>6. Turned(ns, r, g, Len(path))
  <2>1. r = Resolve(path) /\ g = Walk(ns, at, path)
    OBVIOUS
  <2> HIDE DEF r, g
  <2> QED BY <1>1, <1>2, <1>3, <1>5, <2>1, WalkFollows
<1>7. w.me.slept \/ end.stop # "no" \/ ~ ns[end.node].childrenCreated
  <2> HIDE DEF r, g
  <2> QED BY <1>6 DEF Turned, EndUnread, r, path
<1> HIDE DEF r, g
<1>8. /\ end.stop \in {"no", "unread", "NotDirectory", "NoSuchDirectoryOrFile"}
      /\ end.node \in Nat /\ end.done \in Nat
      /\ end.stop \in {"no", "unread"} => end.node \in DOMAIN ns
      /\ end.stop = "no" => r[Len(path)] = [status |-> "Ok", name |-> ns[end.node].name]
  BY <1>6 DEF Turned, Spots
<1> HIDE DEF end
<1>9. SameTree(ns, ns)
  BY DEF SameTree
<1>10. CASE end.stop \in {"NotDirectory", "NoSuchDirectoryOrFile"}
  <2>1. v = Return(w, end.stop)
    BY <1>4, <1>10
  <2>2. end.stop \in Statuses \cup {"none"}
    BY <1>10 DEF Statuses
  <2>3. v.nodes = ns /\ v.me.call = l /\ v.me.pc = "idle" /\ v.me.status = end.stop
    BY <2>1, <2>2, ReturnHolds
  <2> QED BY <2>3, <1>9, <1>10 DEF Settled, GaveUp, Opens
<1>11. ASSUME end.stop \in {"no", "unread"}
       PROVE  /\ Good(there, c) /\ there.nodes = ns /\ there.descriptors = ds
              /\ there.me.node = end.node /\ there.me.call = l
              /\ there.me.pc = w.me.pc /\ there.me.slept = w.me.slept
              /\ there \in Worlds /\ there.me \in ClientRecords
  <2>1. end.node \in DOMAIN ns
    BY <1>8, <1>11
  <2>2. Good(there, c)
    BY <2>1, <1>8, MovedIsGood
  <2>3. there \in Worlds /\ there.me \in ClientRecords
    BY <2>2, WorldTypes DEF Good
  <2>4. there = [w EXCEPT !.me = [w.me EXCEPT !.node = end.node, !.done = end.done]]
    BY <1>1 DEF Worlds, Moved
  <2>5. there.nodes = ns /\ there.descriptors = ds
        /\ there.me = [w.me EXCEPT !.node = end.node, !.done = end.done]
    BY <1>1, <2>4 DEF Worlds
  <2> HIDE DEF there
  <2> QED BY <2>2, <2>3, <2>5, <1>1 DEF ClientRecords
<1> HIDE DEF there
<1>12. CASE end.stop = "unread"
  <2> DEFINE me == [there.me EXCEPT !.pc = "walking", !.slept = TRUE]
  <2>1. v = [there EXCEPT !.me = me]
    <3>1. v = waiting
      BY <1>4, <1>12 DEF Opens
    <3> QED BY <3>1, <1>11, <1>12 DEF Worlds
  <2>2. /\ v.nodes = ns /\ v.descriptors = ds /\ v.me = me
    BY <1>11, <1>12, <2>1 DEF Worlds
  <2>3. me.pc = "walking" /\ me.slept /\ me.call = l
    BY <1>11, <1>12 DEF ClientRecords
  <2> HIDE DEF me
  <2>4. Spares(ns, ds, ns, ds)
    BY <1>9 DEF Spares
  <2>5. Accounted(me, ns, ds)
    BY <1>1, <2>4, AccountedStays
  <2> QED BY <2>2, <2>3, <2>5, <1>9 DEF Settled
<1>13. CASE end.stop = "no"
  <2>1. v = ReadDirectory(there, free)
    BY <1>4, <1>13
  <2> DEFINE n == end.node
             u == Lose(there, n, w.me.slept)
             me == [u.me EXCEPT !.pc = "listing", !.done = 0]
  <2>2. /\ Good(u, c) /\ SameNodes(ns, u.nodes) /\ u.me = there.me /\ u.descriptors = ds
        /\ w.me.slept => u = there
        /\ \A m \in DOMAIN ns :
             u.nodes[m].lost = ns[m].lost \/ (m = n /\ u.nodes[m].lost = ns[m].lost + 1)
    BY <1>8, <1>11, <1>13, LoseHolds
  <2>3. /\ ~ IsDirectory(ns[n]) => v = Return(u, "NotDirectory")
        /\ IsDirectory(ns[n]) =>
             /\ ns[n].childrenCreated => v = HaveDirectory(u, w.me.slept)
             /\ ~ ns[n].childrenCreated => v = [u EXCEPT !.me = me]
    <3>1. ns[there.me.node] = ns[n] /\ u = Lose(there, there.me.node, there.me.slept)
      BY <1>11, <1>13
    <3>2. v = IF ~ IsDirectory(ns[n]) THEN Return(u, "NotDirectory")
              ELSE IF ns[n].childrenCreated THEN HaveDirectory(u, w.me.slept)
              ELSE [u EXCEPT !.me.pc = "listing", !.me.done = 0]
      <4> HIDE DEF u
      <4> QED BY <3>1, <2>1, <1>11, <1>13 DEF ReadDirectory, Opens
    <3>3. u \in Worlds
      BY <2>2 DEF Good
    <3> HIDE DEF u
    <3> QED BY <3>2, <3>3 DEF Worlds
  <2> HIDE DEF u
  <2>4. SameTree(ns, u.nodes)
    BY <2>2 DEF SameNodes
  <2>5. CASE ~ IsDirectory(ns[n])
    <3>1. v = Return(u, "NotDirectory")
      BY <2>3, <2>5
    <3>2. "NotDirectory" \in Statuses \cup {"none"} /\ u.me.call = l
      BY <2>2, <1>11, <1>13 DEF Statuses
    <3>3. v.nodes = u.nodes /\ v.me.call = l /\ v.me.pc = "idle" /\ v.me.status = "NotDirectory"
      BY <3>1, <3>2, <2>2, ReturnHolds
    <3> QED BY <3>3, <2>4 DEF Settled, GaveUp, Opens
  <2>6. CASE IsDirectory(ns[n]) /\ ns[n].childrenCreated
    <3>1. w.me.slept /\ u = there
      BY <1>7, <1>13, <2>2, <2>6
    <3>2. v = HaveDirectory(there, w.me.slept)
      BY <2>3, <2>6, <3>1
    <3>3. v = OpenIn(there, w.me.slept)
      BY <3>1, <3>2, <1>11, <1>13 DEF HaveDirectory, Lose, Opens
    <3>4. Arrived(there)
      BY <1>8, <1>11, <1>13 DEF Arrived, Going, path, r
    <3>5. Opens(there.me.call, w.me.slept)
      BY <3>1, <1>11, <1>13 DEF Opens
    <3>6. /\ v.me.call = l /\ v.me.pc = "idle" /\ Spares(ns, ds, v.nodes, v.descriptors)
          /\ GaveUp(v.me) \/ ns[n].children # <<>>
      BY <3>3, <3>4, <3>5, <2>6, <1>11, <1>13, OpenInSpares
    <3>7. Accounted(v.me, v.nodes, v.descriptors)
      BY <3>6, <1>1, AccountedStays
    <3> QED BY <3>6, <3>7 DEF Settled, Spares
  <2>7. CASE IsDirectory(ns[n]) /\ ~ ns[n].childrenCreated
    <3>1. v = [u EXCEPT !.me = me]
      BY <2>3, <2>7
    <3>2. u \in Worlds /\ u.me \in ClientRecords
      BY <2>2, WorldTypes DEF Good
    <3>3. v.nodes = u.nodes /\ v.descriptors = ds /\ v.me = me
      BY <2>2, <3>1, <3>2 DEF Worlds
    <3>4. me.pc = "listing" /\ me.node = n /\ me.call = l
      BY <2>2, <3>2, <1>11, <1>13 DEF ClientRecords
    <3> HIDE DEF me
    <3>5. n \in DOMAIN ns /\ ns[n].children = <<>> /\ ns[n].lost = 0
      BY <1>8, <1>13, <2>7 DEF Accounted, Linked
    <3>6. Linked(u.nodes)
      <4> SUFFICES ASSUME NEW m \in DOMAIN u.nodes
                   PROVE  /\ m # 1 => Contains(u.nodes[u.nodes[m].parent].children, m)
                          /\ ~ u.nodes[m].childrenCreated => u.nodes[m].children = <<>>
        BY DEF Linked
      <4>1. m \in DOMAIN ns /\ ns[m].parent \in DOMAIN ns
        BY <2>4, <1>1 DEF SameTree, Tree
      <4> QED BY <4>1, <2>4 DEF SameTree, Accounted, Linked
    <3>7. ASSUME NEW m \in DOMAIN u.nodes
          PROVE  \/ u.nodes[m].lost = 0
                 \/ u.nodes[m].lost = 1 /\ (u.nodes[m].children # <<>> \/ m = n)
      <4>1. m \in DOMAIN ns /\ u.nodes[m].children = ns[m].children
        BY <2>4 DEF SameTree
      <4> QED BY <4>1, <3>5, <2>2 DEF Accounted
    <3>8. \A fd \in DOMAIN ds : ~ ds[fd].lost
      BY DEF Accounted
    <3>9. Accounted(me, u.nodes, ds)
      BY <3>4, <3>6, <3>7, <3>8 DEF Accounted
    <3> QED BY <3>3, <3>4, <3>9, <2>4 DEF Settled
  <2> QED BY <2>5, <2>6, <2>7
<1> QED
  BY <1>8, <1>10, <1>12, <1>13

-----------------------------------------------------------------------------
(* The steps of a client that is the only one *)

Alone(c) == Clients = {c} /\ ~ overlapped

\* Its directories are read one at a time.
LEMMA CommitSettles ==
  ASSUME TypeInv, NEW c \in Clients, Alone(c), NEW w, Commit(c, w)
  PROVE  /\ clients'[c] = w.me /\ nodes' = w.nodes /\ descriptors' = w.descriptors
         /\ failed' = w.failed /\ Alone(c)'
<1>1. clients \in [Clients -> ClientRecords] /\ Clients \ {c} = {}
  BY DEF TypeInv, Alone
<1> QED
  BY <1>1 DEF Commit, Alone

\* At first there is nothing to lose.
LEMMA InitSettles ==
  ASSUME Init, NEW c \in Clients
  PROVE  /\ Accounted(clients[c], nodes, descriptors) /\ ~ overlapped
         /\ clients[c].pc = "idle" /\ clients[c].call.op = "none"
         /\ \A n \in DOMAIN nodes : ~ nodes[n].childrenCreated
<1>1. /\ nodes = <<NewNode("root", 1)>> /\ DOMAIN nodes = {1} /\ DOMAIN descriptors = {}
      /\ clients[c].pc = "idle" /\ clients[c].call = [op |-> "none"] /\ ~ overlapped
  BY DEF Init, Root
<1>2. nodes[1].lost = 0 /\ ~ nodes[1].childrenCreated /\ nodes[1].children = <<>>
  BY <1>1 DEF NewNode
<1> QED
  BY <1>1, <1>2 DEF Accounted, Linked

\* Counting a call changes nothing else.
LEMMA CountedKeeps ==
  ASSUME NEW w \in Worlds, NEW v, v = Counted(w)
  PROVE  /\ v.nodes = w.nodes /\ v.descriptors = w.descriptors /\ v.me.pc = w.me.pc
         /\ v.me.node = w.me.node /\ v.me.slept = w.me.slept /\ v.me.call = w.me.call
         /\ v.me.status = w.me.status
<1> DEFINE k == w.me.calls + 1
           me == [w.me EXCEPT !.calls = k]
<1>1. w.me \in ClientRecords
  BY WorldTypes
<1>2. v = [w EXCEPT !.me = me]
  BY <1>1 DEF Worlds, Counted
<1> HIDE DEF k
<1>3. /\ me.pc = w.me.pc /\ me.node = w.me.node /\ me.slept = w.me.slept
      /\ me.call = w.me.call /\ me.status = w.me.status
  BY <1>1 DEF ClientRecords
<1> HIDE DEF me
<1>4. v.me = me /\ v.nodes = w.nodes /\ v.descriptors = w.descriptors
  BY <1>2 DEF Worlds
<1> QED
  BY <1>3, <1>4

\* What a call leaves is what its operator gives.
LEMMA CallSettles ==
  ASSUME TypeInv, NEW c \in Clients, Alone(c), NEW called \in Worlds, Call(c, called),
         Settled(called.me, called.nodes, called.descriptors)
  PROVE  /\ Settled(clients'[c], nodes', descriptors') /\ nodes' = called.nodes
         /\ clients'[c].call = called.me.call /\ clients'[c].pc = called.me.pc /\ Alone(c)'
<1> DEFINE w == Counted(called)
<1>1. Commit(c, w)
  BY DEF Call, Counted
<1>2. /\ w.nodes = called.nodes /\ w.descriptors = called.descriptors
      /\ w.me.pc = called.me.pc /\ w.me.node = called.me.node /\ w.me.slept = called.me.slept
      /\ w.me.call = called.me.call /\ w.me.status = called.me.status
  BY CountedKeeps
<1> HIDE DEF w
<1>3. /\ clients'[c] = w.me /\ nodes' = w.nodes /\ descriptors' = w.descriptors /\ Alone(c)'
  BY <1>1, CommitSettles
<1>4. Settled(w.me, w.nodes, w.descriptors)
  BY <1>2 DEF Settled, Accounted, GaveUp
<1> QED
  BY <1>2, <1>3, <1>4

\* openFile, of a file in a directory that does not count as read, loses no
\* pointer that something may still need.
LEMMA OpenSettles ==
  ASSUME IInv, failed = "no", NEW c \in Clients, Alone(c), NEW lookup \in Lookups,
         NEW free \in BOOLEAN, Opens(lookup, free),
         Accounted(clients[c], nodes, descriptors), EndUnread(nodes, Path(lookup)),
         Open(c, lookup, free)
  PROVE  /\ Settled(clients'[c], nodes', descriptors') /\ SameTree(nodes, nodes')
         /\ clients'[c].call = lookup /\ Alone(c)'
<1> DEFINE w == Asking(c, lookup)
           called == IF lookup.valid /\ ~ lookup.slash THEN GetInfo(w, free)
                     ELSE Return(w, "InvalidPath")
<1>1. lookup.op = "open" /\ Call(c, called) /\ clients[c].pc = "idle"
  BY DEF Open, Call
<1>2. /\ Good(w, c) /\ w.failed = "no" /\ w.me.call = lookup /\ w.me.pc = "idle"
      /\ w.nodes = nodes /\ w.descriptors = descriptors
      /\ lookup.valid /\ lookup.slash = (lookup.op = "list") => Going(w)
  BY <1>1, AskingHolds
<1>3. lookup.slash \in BOOLEAN /\ lookup.valid \in BOOLEAN
  BY LookupTypes
<1> HIDE DEF w
<1>4. /\ called \in Worlds /\ Settled(called.me, called.nodes, called.descriptors)
      /\ SameTree(nodes, called.nodes) /\ called.me.call = lookup
  <2>1. CASE lookup.valid /\ ~ lookup.slash
    <3>1. called = GetInfo(w, free)
      BY <2>1
    <3> HIDE DEF called
    <3>2. Going(w)
      BY <2>1, <1>1, <1>2, <1>3
    <3>3. called \in Worlds
      BY <3>1, <3>2, <1>2, GetInfoHolds DEF Comes, Good
    <3>4. Accounted(w.me, w.nodes, w.descriptors)
      BY <1>1, <1>2 DEF Accounted
    <3>5. Opens(w.me.call, free) /\ w.me.pc # "listing"
      BY <1>2
    <3>6. w.me.slept \/ EndUnread(w.nodes, Path(w.me.call))
      BY <1>2
    <3>7. /\ Settled(called.me, called.nodes, called.descriptors)
          /\ SameTree(w.nodes, called.nodes) /\ called.me.call = w.me.call
      BY <3>1, <3>2, <3>4, <3>5, <3>6, <1>2, GetInfoSettles
    <3> QED BY <3>3, <3>7, <1>2
  <2>2. CASE ~ (lookup.valid /\ ~ lookup.slash)
    <3>1. called = Return(w, "InvalidPath") /\ "InvalidPath" \in Statuses \cup {"none"}
      BY <2>2 DEF Statuses
    <3> HIDE DEF called
    <3>2. /\ Good(called, c) /\ called.nodes = nodes /\ called.me.call = lookup
          /\ called.me.pc = "idle" /\ called.me.status = "InvalidPath"
      BY <3>1, <1>2, ReturnHolds
    <3> QED BY <3>2, <1>1 DEF Good, Settled, GaveUp, SameTree
  <2> QED BY <2>1, <2>2
<1> HIDE DEF called
<1> QED
  BY <1>1, <1>4, CallSettles DEF IInv

\* What counts as read stays along the path while the tree stays.
LEMMA AlongStays ==
  ASSUME NEW ns, NEW ms, SameTree(ns, ms), NEW path, ReadAlong(ns, path)
  PROVE  ReadAlong(ms, path)
BY DEF SameTree, ReadAlong

\* readFile and closeFile lose no pointer.
LEMMA FileSettles ==
  ASSUME IInv, NEW c \in Clients, Alone(c), Accounted(clients[c], nodes, descriptors),
         NEW op, \E called \in Worlds : Call(c, called) /\ OnFile(called, World(c), op)
  PROVE  /\ Settled(clients'[c], nodes', descriptors') /\ SameTree(nodes, nodes')
         /\ clients'[c].call = [op |-> op] /\ ~ Waits(clients'[c]) /\ Alone(c)'
         /\ Accounted(clients'[c], nodes', descriptors')
<1>1. PICK called \in Worlds : Call(c, called) /\ OnFile(called, World(c), op)
  OBVIOUS
<1>2. World(c).nodes = nodes /\ World(c).descriptors = descriptors /\ Tree(nodes)
  BY WorldIsGood DEF IInv
<1>3. clients[c].pc = "idle" /\ Commit(c, Counted(called))
  BY <1>1 DEF Call, Counted
<1> DEFINE w == Counted(called)
<1>4. /\ clients'[c] = w.me /\ nodes' = w.nodes /\ descriptors' = w.descriptors /\ Alone(c)'
  BY <1>3, CommitSettles DEF IInv
<1>5. /\ w.nodes = called.nodes /\ w.descriptors = called.descriptors
      /\ w.me.pc = called.me.pc /\ w.me.call = called.me.call
  BY CountedKeeps
<1> HIDE DEF w
<1>6. /\ Spares(nodes, descriptors, nodes', descriptors') /\ clients'[c].call = [op |-> op]
      /\ ~ Waits(clients'[c])
  BY <1>1, <1>2, <1>4, <1>5 DEF OnFile, Waits
<1>7. Accounted(clients'[c], nodes', descriptors')
  BY <1>2, <1>3, <1>6, AccountedStays
<1> QED
  BY <1>4, <1>6, <1>7 DEF Settled, Spares, Waits

\* A call that goes on with the device's answer leaves every pointer accounted
\* for, or gives up; it reads only directories on its way.
LEMMA ResumeSettles ==
  ASSUME IInv, failed = "no", NEW c \in Clients, Alone(c), NEW free \in BOOLEAN,
         Waits(clients[c]) => Opens(clients[c].call, free),
         Settled(clients[c], nodes, descriptors), Resume(c, free)
  PROVE  /\ Settled(clients'[c], nodes', descriptors') /\ Alone(c)'
         /\ clients'[c].call = clients[c].call
         /\ Waits(clients[c]) /\ ReadAlong(nodes, Path(clients[c].call))
              => ReadAlong(nodes', Path(clients[c].call))
         /\ ~ Waits(clients[c]) => SameTree(nodes, nodes')
<1> DEFINE w == World(c)
           l == w.me.call
           p == Populate(w, w.me.node)
           has == answer[c] = "true"
           resumed ==
             CASE w.me.pc = "reading" -> Copy(w, IF has THEN "data" ELSE "null")
               [] w.me.pc # "reading" /\ ~ has -> NoContents(w)
               [] w.me.pc = "walking" /\ has -> GetInfo(p, free)
               [] w.me.pc = "listing" /\ has -> HaveDirectory(p, TRUE)
<1>1. clients[c].pc # "idle" /\ Commit(c, resumed)
  BY DEF Resume
<1>2. /\ Good(w, c) /\ w.nodes = nodes /\ w.descriptors = descriptors
      /\ w.failed = "no" /\ w.me = clients[c]
  BY WorldIsGood
<1>3. clients[c] \in ClientRecords /\ Client(clients[c], nodes, descriptors)
  BY DEF IInv, TypeInv
<1>4. w.me.pc \in {"walking", "listing", "reading"}
  BY <1>1, <1>2, <1>3, ClientTypes
<1> HIDE DEF w, has
<1>5. /\ Accounted(w.me, w.nodes, w.descriptors) /\ (w.me.pc = "walking" => w.me.slept)
      /\ Tree(w.nodes)
  BY <1>1, <1>2 DEF Settled, GaveUp, Good
<1>6. ASSUME Waits(w.me)
      PROVE  /\ Good(p, c) /\ p.me = w.me /\ p.failed = "no" /\ p.descriptors = w.descriptors
             /\ p.nodes[w.me.node].childrenCreated
             /\ p.nodes[w.me.node].name = w.nodes[w.me.node].name
             /\ OnItsWay(w.me, w.nodes)
             /\ Accounted(w.me, p.nodes, w.descriptors)
             /\ ReadAlong(w.nodes, Path(l)) => ReadAlong(p.nodes, Path(l))
  <2>1. OnItsWay(w.me, w.nodes) /\ w.me.node \in DOMAIN w.nodes /\ w.me.done \in Nat
    BY <1>2, <1>3, <1>6, ClientTypes DEF Client
  <2>2. w.nodes[w.me.node].name \in Directories
    BY <2>1 DEF OnItsWay
  <2>3. /\ ~ overlapped /\ ~ w.nodes[w.me.node].childrenCreated
        /\ \A d \in Clients \ {c} : Waits(clients[d]) => clients[d].node # w.me.node
    BY <1>2, <1>6 DEF IInv, NoneTwice, Alone
  <2>4. l \in Lookups /\ Len(Path(l)) \in Nat
    BY <2>1, LookupTypes DEF OnItsWay
  <2>5. \E k \in 0 .. Len(Path(l)) :
          Resolve(Path(l))[k] = [status |-> "Ok", name |-> w.nodes[w.me.node].name]
    <3> DEFINE k == IF w.me.pc = "walking" THEN w.me.done ELSE Len(Path(l))
    <3>1. /\ k \in 0 .. Len(Path(l))
          /\ Resolve(Path(l))[k] = [status |-> "Ok", name |-> w.nodes[w.me.node].name]
      BY <2>1, <2>4 DEF OnItsWay
    <3> HIDE DEF k
    <3> QED BY <3>1
  <2> HIDE DEF p
  <2>6. p = Populate(w, w.me.node)
    BY DEF p
  <2>7. /\ Good(p, c) /\ p.me = w.me /\ p.failed = w.failed /\ p.descriptors = w.descriptors
        /\ Extended(w.nodes, p.nodes, w.me.node)
    BY <1>2, <2>1, <2>2, <2>3, <2>6, PopulateHolds
  <2>8. /\ Accounted(w.me, p.nodes, w.descriptors)
        /\ ReadAlong(w.nodes, Path(l)) => ReadAlong(p.nodes, Path(l))
    <3> HIDE DEF l
    <3> QED BY <1>5, <2>1, <2>3, <2>5, <2>7, PopulateAccounts
  <2> QED BY <1>2, <2>1, <2>7, <2>8 DEF Extended
<1> HIDE DEF p
<1> DEFINE Comes2(v) ==
             /\ Settled(v.me, v.nodes, v.descriptors) /\ v.me.call = l
             /\ Waits(w.me) /\ ReadAlong(w.nodes, Path(l)) => ReadAlong(v.nodes, Path(l))
             /\ ~ Waits(w.me) => SameTree(w.nodes, v.nodes)
<1>7. Comes2(resumed)
  <2>1. CASE w.me.pc = "reading"
    <3>1. resumed = Copy(w, IF has THEN "data" ELSE "null")
      BY <2>1
    <3>2. w.me.fd \in DOMAIN w.descriptors /\ w.me.call = [op |-> "read"]
      BY <2>1, <1>2, <1>3 DEF Client
    <3> HIDE DEF resumed
    <3>3. /\ resumed.me.pc = "idle" /\ resumed.me.call = w.me.call
          /\ Spares(w.nodes, w.descriptors, resumed.nodes, resumed.descriptors)
      BY <1>2, <3>1, <3>2, CopyHolds
    <3>4. Accounted(resumed.me, resumed.nodes, resumed.descriptors)
      BY <2>1, <1>5, <3>3, AccountedStays
    <3> QED BY <2>1, <3>3, <3>4 DEF Settled, Spares, Waits
  <2>2. CASE w.me.pc # "reading" /\ ~ has
    <3>1. resumed = Return(w, "IOError") /\ "IOError" \in Statuses \cup {"none"}
      BY <2>2 DEF NoContents, Statuses
    <3> HIDE DEF resumed
    <3>2. /\ resumed.nodes = w.nodes /\ resumed.me.call = l /\ resumed.me.pc = "idle"
          /\ resumed.me.status = "IOError"
      BY <1>2, <3>1, ReturnHolds
    <3>3. Waits(w.me) /\ w.me.call.op = "open"
      BY <2>2, <1>2, <1>4 DEF Waits, Opens
    <3> QED BY <3>2, <3>3 DEF Settled, GaveUp
  <2>3. CASE w.me.pc = "walking" /\ has
    <3>1. resumed = GetInfo(p, free) /\ Waits(w.me)
      BY <2>3 DEF Waits
    <3> HIDE DEF resumed
    <3>2. /\ Good(p, c) /\ p.me = w.me /\ p.failed = "no" /\ p.descriptors = w.descriptors
          /\ p.nodes[w.me.node].name = w.nodes[w.me.node].name
          /\ OnItsWay(w.me, w.nodes)
          /\ Accounted(p.me, p.nodes, p.descriptors)
          /\ ReadAlong(w.nodes, Path(l)) => ReadAlong(p.nodes, Path(l))
      BY <1>6, <3>1
    <3>3. Going(p)
      BY <2>3, <3>2 DEF Going, OnItsWay
    <3>4. Opens(p.me.call, free) /\ p.me.pc # "listing" /\ p.me.slept
      BY <2>3, <1>2, <1>5, <3>1, <3>2
    <3>5. p.me.slept \/ EndUnread(p.nodes, Path(p.me.call))
      BY <3>4
    <3> HIDE <3>4
    <3>6. Opens(p.me.call, free) /\ p.me.pc # "listing"
      BY <3>4
    <3>7. /\ Settled(resumed.me, resumed.nodes, resumed.descriptors)
          /\ SameTree(p.nodes, resumed.nodes) /\ resumed.me.call = p.me.call
      BY <3>1, <3>2, <3>3, <3>5, <3>6, GetInfoSettles
    <3> QED BY <3>1, <3>2, <3>7, AlongStays
  <2>4. CASE w.me.pc = "listing" /\ has
    <3> DEFINE yes == TRUE
    <3>1. resumed = HaveDirectory(p, yes)
      BY <2>4
    <3>2. Waits(w.me)
      BY <2>4 DEF Waits
    <3> HIDE DEF resumed
    <3>3. /\ Good(p, c) /\ p.me = w.me /\ p.descriptors = w.descriptors
          /\ p.nodes[p.me.node].childrenCreated
          /\ p.nodes[w.me.node].name = w.nodes[w.me.node].name
          /\ OnItsWay(w.me, w.nodes)
          /\ Accounted(p.me, p.nodes, p.descriptors)
          /\ ReadAlong(w.nodes, Path(l)) => ReadAlong(p.nodes, Path(l))
      BY <1>6, <3>2
    <3>4. Arrived(p)
      BY <2>4, <3>3 DEF Arrived, OnItsWay
    <3>5. Opens(p.me.call, yes)
      BY <1>2, <3>2, <3>3 DEF Opens
    <3>6. resumed = OpenIn(p, yes)
      BY <3>1, <3>5 DEF HaveDirectory, Lose, Opens
    <3> HIDE DEF yes
    <3>7. /\ resumed.me.call = p.me.call /\ resumed.me.pc = "idle"
          /\ Spares(p.nodes, p.descriptors, resumed.nodes, resumed.descriptors)
          /\ GaveUp(resumed.me) \/ p.nodes[p.me.node].children # <<>>
      BY <3>3, <3>4, <3>5, <3>6, OpenInSpares
    <3>8. Settled(resumed.me, resumed.nodes, resumed.descriptors)
      <4>1. CASE GaveUp(resumed.me)
        BY <4>1 DEF Settled
      <4>2. CASE p.nodes[p.me.node].children # <<>>
        <5>1. Tree(p.nodes)
          BY <3>3 DEF Good
        <5>2. Accounted(resumed.me, resumed.nodes, resumed.descriptors)
          BY <4>2, <5>1, <3>3, <3>7, AccountedStays
        <5> QED BY <5>2, <3>7 DEF Settled
      <4> QED BY <4>1, <4>2, <3>7
    <3>9. SameTree(p.nodes, resumed.nodes)
      BY <3>7 DEF Spares
    <3> QED BY <3>2, <3>3, <3>7, <3>8, <3>9, AlongStays
  <2> QED BY <1>4, <2>1, <2>2, <2>3, <2>4
<1> HIDE DEF resumed
<1>8. /\ clients'[c] = resumed.me /\ nodes' = resumed.nodes
      /\ descriptors' = resumed.descriptors /\ Alone(c)'
  BY <1>1, CommitSettles DEF IInv
<1> QED
  BY <1>2, <1>7, <1>8

\* A set that is not empty has an element at least.
LEMMA Some ==
  ASSUME NEW S, IsFiniteSet(S), NEW T \in SUBSET S
  PROVE  Cardinality(T) \in Nat /\ (T # {} => Cardinality(T) >= 1)
<1>1. IsFiniteSet(T) /\ Cardinality(T) \in Nat
  BY FS_Subset, FS_CardinalityType
<1>2. Cardinality(T) = 0 <=> T = {}
  BY <1>1, FS_EmptySet
<1> QED
  BY <1>1, <1>2

\* A node that lost a pointer and is accounted for has two more.
LEMMA AccountedIsEnough ==
  ASSUME IInv, NEW c \in Clients, Alone(c), Accounted(clients[c], nodes, descriptors)
  PROVE  NothingDiesInUse
<1> DEFINE Parents(n) == {m \in DOMAIN nodes : Contains(nodes[m].children, n)}
           Children(n) == {m \in DOMAIN nodes : nodes[m].parent = n /\ Alive(m)}
           Users(n) == {fd \in DOMAIN descriptors :
                         descriptors[fd].node = n /\ (Listed(fd) \/ Held(fd))}
           Waiting(n) == {d \in Clients : PointsTo(clients[d], n)}
<1>1. /\ Tree(nodes) /\ Linked(nodes) /\ nodes \in Seq(NodeRecords)
      /\ descriptors \in Seq(DescriptorRecords)
  BY DEF IInv, TypeInv, Accounted
<1>2. IsFiniteSet(DOMAIN nodes) /\ IsFiniteSet(DOMAIN descriptors) /\ IsFiniteSet(Clients)
  <2>1. /\ DOMAIN nodes = 1 .. Len(nodes) /\ Len(nodes) \in Int
        /\ DOMAIN descriptors = 1 .. Len(descriptors) /\ Len(descriptors) \in Int
    BY <1>1
  <2>2. 1 \in Int
    OBVIOUS
  <2> QED BY <2>1, <2>2, FS_Interval, CallsAssumption
<1>3. ASSUME NEW n \in DOMAIN nodes, nodes[n].lost # 0
      PROVE  Pointers(n) > nodes[n].lost
  <2>1. /\ nodes[n].lost = 1
        /\ nodes[n].children # <<>> \/ (clients[c].pc = "listing" /\ clients[c].node = n)
    BY <1>3 DEF Accounted
  <2>2. /\ Cardinality(Parents(n)) \in Nat /\ Cardinality(Children(n)) \in Nat
        /\ Cardinality(Users(n)) \in Nat /\ Cardinality(Waiting(n)) \in Nat
        /\ Parents(n) # {} => Cardinality(Parents(n)) >= 1
        /\ Children(n) # {} => Cardinality(Children(n)) >= 1
        /\ Waiting(n) # {} => Cardinality(Waiting(n)) >= 1
    <3>1. /\ Parents(n) \in SUBSET DOMAIN nodes /\ Children(n) \in SUBSET DOMAIN nodes
          /\ Users(n) \in SUBSET DOMAIN descriptors /\ Waiting(n) \in SUBSET Clients
      OBVIOUS
    <3> HIDE DEF Parents, Children, Users, Waiting
    <3> QED BY <3>1, <1>2, Some
  <2>3. n # 1 => Parents(n) # {}
    BY <1>1 DEF Tree, Linked
  <2>4. Children(n) # {} \/ Waiting(n) # {}
    <3>1. CASE nodes[n].children # <<>>
      <4>1. nodes[n].childrenCreated /\ nodes[n].children \in Seq(Nat)
        BY <3>1, <1>1, NodeTypes DEF Linked
      <4>2. 1 \in DOMAIN nodes[n].children
        BY <3>1, <4>1
      <4> DEFINE m == nodes[n].children[1]
      <4>3. m \in DOMAIN nodes /\ nodes[m].parent = n
        <5>1. \A i \in DOMAIN nodes[n].children :
                 /\ nodes[n].children[i] \in DOMAIN nodes
                 /\ nodes[nodes[n].children[i]].parent = n
          BY <1>1, <4>1 DEF Tree, Lists
        <5> QED BY <4>2, <5>1
      <4>4. Contains(nodes[nodes[m].parent].children, m)
        BY <4>1, <4>2, <4>3 DEF Contains
      <4> HIDE DEF m
      <4>5. Alive(m)
        BY <4>4 DEF Alive
      <4> QED BY <4>3, <4>5
    <3>2. CASE clients[c].pc = "listing" /\ clients[c].node = n
      BY <3>2 DEF PointsTo
    <3> QED BY <2>1, <3>1, <3>2
  <2>5. Pointers(n) = (IF n = 1 THEN 1 ELSE 0) + Cardinality(Parents(n))
                      + Cardinality(Children(n)) + Cardinality(Users(n)) + Cardinality(Waiting(n))
    BY DEF Pointers, Root
  <2> HIDE DEF Parents, Children, Users, Waiting
  <2> QED BY <2>1, <2>2, <2>3, <2>4, <2>5
<1>4. \A fd \in DOMAIN descriptors : ~ descriptors[fd].lost
  BY DEF Accounted
<1> QED
  BY <1>3, <1>4 DEF NothingDiesInUse

-----------------------------------------------------------------------------
(* The theorems *)

\* Every node, descriptor and client of the model has its type, and what it
\* points to exists.
THEOREM TypeCorrect == Spec => []TypeOK
<1>1. IInv /\ PhaseInv => TypeOK
  <2> SUFFICES ASSUME IInv, PhaseInv
               PROVE  TypeOK
    OBVIOUS
  <2>1. /\ nodes \in Seq(NodeRecords) /\ DOMAIN nodes = 1 .. Len(nodes)
        /\ descriptors \in Seq(DescriptorRecords) /\ DOMAIN descriptors = 1 .. Len(descriptors)
        /\ Tree(nodes) /\ Opened(nodes, descriptors)
    BY DEF IInv, TypeInv
  <2>2. ASSUME NEW n \in DOMAIN nodes
        PROVE  /\ nodes[n].parent \in 1 .. Len(nodes)
               /\ Range(nodes[n].children) \subseteq 1 .. Len(nodes)
               /\ Range(nodes[n].openFileDescriptors) \subseteq 1 .. Len(descriptors)
               /\ Range(nodes[n].fileBuffers) \subseteq {"data", "null"}
               /\ nodes[n].childrenCreated \in BOOLEAN /\ nodes[n].lost \in Nat
    <3>1. nodes[n].parent \in DOMAIN nodes /\ Range(nodes[n].children) \subseteq DOMAIN nodes
      BY <2>1 DEF Tree, Range
    <3>2. Range(nodes[n].openFileDescriptors) \subseteq DOMAIN descriptors
      BY <2>1 DEF Opened, Range
    <3>3. /\ nodes[n].fileBuffers \in Seq({"data", "null"})
          /\ nodes[n].childrenCreated \in BOOLEAN /\ nodes[n].lost \in Nat
      BY <2>1, NodeTypes
    <3>4. Range(nodes[n].fileBuffers) \subseteq {"data", "null"}
      BY <3>3 DEF Range
    <3> QED BY <2>1, <3>1, <3>2, <3>3, <3>4
  <2>3. ASSUME NEW fd \in DOMAIN descriptors
        PROVE  descriptors[fd].node \in 1 .. Len(nodes) /\ descriptors[fd].lost \in BOOLEAN
    <3>1. descriptors[fd] \in DescriptorRecords
      BY <2>1
    <3> QED BY <2>1, <3>1 DEF Opened, DescriptorRecords
  <2>4. ASSUME NEW c \in Clients
        PROVE  /\ clients[c].pc \in {"idle", "walking", "listing", "reading"}
               /\ clients[c].node \in 1 .. Len(nodes)
               /\ clients[c].held \subseteq 1 .. Len(descriptors)
               /\ clients[c].calls \in 0 .. Calls
               /\ clients[c].status \in Statuses \cup {"none"}
               /\ clients[c].pc # "idle" <=> phase[c] # "idle"
    <3>1. /\ clients[c] \in ClientRecords /\ Client(clients[c], nodes, descriptors)
          /\ clients[c].calls <= Calls
          /\ clients[c].pc # "idle" <=> phase[c] # "idle"
      BY DEF IInv, TypeInv, PhaseInv
    <3>2. /\ clients[c].pc \in {"idle", "walking", "listing", "reading"}
          /\ clients[c].status \in Statuses \cup {"none"} /\ clients[c].calls \in Nat
      BY <3>1, ClientTypes
    <3>3. clients[c].node \in DOMAIN nodes /\ clients[c].held \subseteq DOMAIN descriptors
      BY <3>1 DEF Client, Holds
    <3>4. Calls \in Nat
      BY CallsAssumption
    <3> QED BY <2>1, <3>1, <3>2, <3>3, <3>4
  <2> QED BY <2>2, <2>3, <2>4 DEF TypeOK, IInv, TypeInv, Failures
<1> QED
  BY <1>1, Invariance, PTL

\* A directory that counts as read lists what is on the medium, however calls
\* interleave and whichever of them fail (JolietISO::readDirectory).
THEOREM DirectoriesCorrect == Spec => []DirectoriesMatchTheDisk
<1>1. IInv => DirectoriesMatchTheDisk
  <2> SUFFICES ASSUME IInv, NEW n \in DOMAIN nodes, nodes[n].childrenCreated
               PROVE  /\ [i \in DOMAIN nodes[n].children |-> nodes[nodes[n].children[i]].name]
                           = Disk[nodes[n].name]
                      /\ \A m \in Range(nodes[n].children) : nodes[m].parent = n
    BY DEF DirectoriesMatchTheDisk
  <2>1. Lists(nodes, n)
    BY DEF IInv, Tree
  <2>2. Disk[nodes[n].name] \in Seq(Names)
    BY <2>1, Entries DEF Lists
  <2>3. Disk[nodes[n].name]
          = [i \in DOMAIN Disk[nodes[n].name] |-> Disk[nodes[n].name][i]]
    BY <2>2
  <2> QED BY <2>1, <2>3 DEF Lists, Range
<1> QED
  BY <1>1, Invariance, PTL

\* A descriptor stays listed at its node, exactly once, until its client closes
\* it (openFile, closeFile).
THEOREM DescriptorsCorrect == Spec => []OpenIsListedOnce
<1>1. IInv => OpenIsListedOnce
  <2> SUFFICES ASSUME IInv, NEW c \in Clients, NEW fd \in clients[c].held \ clients[c].closed
               PROVE  /\ Contains(nodes[descriptors[fd].node].openFileDescriptors, fd)
                      /\ \A n \in DOMAIN nodes :
                           /\ IsInjective(nodes[n].openFileDescriptors)
                           /\ n # descriptors[fd].node
                                => ~ Contains(nodes[n].openFileDescriptors, fd)
    BY DEF OpenIsListedOnce
  <2>1. Contains(nodes[descriptors[fd].node].openFileDescriptors, fd)
    BY DEF IInv, Client, Holds
  <2>2. ASSUME NEW n \in DOMAIN nodes
        PROVE  /\ IsInjective(nodes[n].openFileDescriptors)
               /\ Contains(nodes[n].openFileDescriptors, fd) => descriptors[fd].node = n
    <3>1. nodes[n].openFileDescriptors \in Seq(Nat)
      BY NodeTypes DEF IInv, TypeInv
    <3> QED BY <3>1 DEF IInv, Opened, Contains
  <2> QED BY <2>1, <2>2
<1> QED
  BY <1>1, Invariance, PTL

\* What openFile and readDirectory return is true of the medium, or an error of
\* the device.
THEOREM StatusesCorrect == Spec => []StatusesAreTrue
<1>1. IInv => StatusesAreTrue
  <2> SUFFICES ASSUME IInv, NEW c \in Clients, failed = "no", clients[c].pc = "idle",
                      clients[c].call.op \in {"open", "list"}
               PROVE  clients[c].status \in {"IOError", Promised(clients[c].call)}
    BY DEF StatusesAreTrue
  <2>1. clients[c].call \in CallRecords
    BY ClientTypes DEF IInv, TypeInv
  <2>2. clients[c].call \in Lookups
    BY <2>1 DEF CallRecords
  <2> QED BY <2>2 DEF IInv, Truthful
<1> QED
  BY <1>1, Invariance, PTL

\* All who have a file open share its node, unless two calls have read one
\* directory at a time.
THEOREM NodesCorrect == Spec => []OneNodePerFile
<1>1. IInv => OneNodePerFile
  BY DEF IInv, OneNodePerFile, NoneTwice, Unique, Opened
<1> QED
  BY <1>1, Invariance, PTL

=============================================================================
