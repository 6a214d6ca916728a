----------------------------- MODULE FileSystem -----------------------------
(***************************************************************************)
(* The file system calls of src/src/drivers/filesystems.cpp on a Joliet ISO *)
(* (filesystems/jolietIso.cpp), made by coroutines that interleave wherever *)
(* a call waits for the block device.                                       *)
(*                                                                          *)
(* Nodes and descriptors are created as the code creates them, and numbered *)
(* in that order; node 1 is the root.  What keeps them from being destroyed *)
(* are shared_ptrs, so the model counts those.  A coroutine that ends       *)
(* without having waited is destroyed, with its result, before its caller   *)
(* has moved the result away (Async::ThenablePromise::final_suspend): the   *)
(* caller's pointer was then counted once and is uncounted twice.  Each     *)
(* such call is noted in "lost".  The model stops where a count is used up  *)
(* while something still points there, as it stops at a page fault.         *)
(***************************************************************************)

EXTENDS Integers, SequencesExt, FiniteSetsExt

CONSTANTS
  Clients,   (* the coroutines that call                                    *)
  Disk,      (* for each directory of the medium, by name, what is in it    *)
  Size,      (* of each file                                                *)
  Lookups,   (* the calls of openFile ("open") and readDirectory ("list"):   *)
             (* [op, parts |-> the path's names, slash |-> it ends in '/',  *)
             (* valid |-> isValidAbsolutePath, create |-> CreateIfNotExists] *)
  Requests,  (* [offset |-> ..., count |-> ...] of readFile                 *)
  Word,      (* size_t is a number modulo this                              *)
  Calls      (* bound: the calls that the clients make in all               *)

Root == 1
Directories == DOMAIN Disk

\* Names stand for what they name: each is in one directory only, once.
ASSUME DiskAssumption ==
  /\ "root" \in Directories
  /\ \A d \in Directories :
       /\ Disk[d] \in Seq(Range(Disk[d])) /\ IsInjective(Disk[d])
       /\ Range(Disk[d]) \cap {"root", ".", ".."} = {}
  /\ \A d, e \in Directories : Range(Disk[d]) \cap Range(Disk[e]) # {} => d = e

ASSUME CallsAssumption ==
  /\ Calls \in Nat
  /\ IsFiniteSet(Clients)
  /\ Word > Max({Size[f] : f \in DOMAIN Size})
  /\ \A l \in Lookups :
       /\ l.op \in {"open", "list"}
       /\ l.slash \in BOOLEAN /\ l.valid \in BOOLEAN /\ l.create \in BOOLEAN
       /\ l.parts \in Seq(Range(l.parts))
       /\ l.slash \/ l.parts # <<>>

VARIABLES
  nodes,       (* Drivers::FS::Node                                         *)
  descriptors, (* Drivers::FS::FileDescriptor                               *)
  clients,     (* each client's call: where it waits and its local variables *)
  failed,      (* why the kernel has stopped, or "no"                       *)
  overlapped,  (* has a directory been read by two calls at a time: history *)
  phase,       (* the block device, as BlockDevice has it                   *)
  answer

treeVars == <<nodes, descriptors, clients, failed, overlapped>>
deviceVars == <<phase, answer>>
vars == <<treeVars, deviceVars>>

Device == INSTANCE BlockDevice WITH Readers <- Clients

-----------------------------------------------------------------------------
(* Nodes and what points to them *)

NewNode(name, parent) ==
  [name |-> name, parent |-> parent, childrenCreated |-> FALSE, children |-> <<>>,
   openFileDescriptors |-> <<>>, fileBuffers |-> <<>>, lost |-> 0]

IsDirectory(node) == node.name \in Directories

\* getInfo and readDirectory point to a directory while they wait for it.
PointsTo(client, n) == client.pc \in {"walking", "listing"} /\ client.node = n

Listed(fd) == \E n \in DOMAIN nodes : Contains(nodes[n].openFileDescriptors, fd)
Held(fd) == \E c \in Clients : fd \in clients[c].held

\* Nodes that something points to other than a node that is about to go.
\* Children and their directory point to each other, and so do a file and its
\* descriptors: only children.clear() and closeFile undo that.
Alive(n) ==
  \/ n = Root
  \/ nodes[n].children # <<>> \/ nodes[n].openFileDescriptors # <<>>
  \/ Contains(nodes[nodes[n].parent].children, n)
  \/ \E fd \in DOMAIN descriptors : descriptors[fd].node = n /\ Held(fd)
  \/ \E c \in Clients : PointsTo(clients[c], n)

Pointers(n) ==
  (IF n = Root THEN 1 ELSE 0)
  + Cardinality({m \in DOMAIN nodes : Contains(nodes[m].children, n)})
  + Cardinality({m \in DOMAIN nodes : nodes[m].parent = n /\ Alive(m)})
  + Cardinality({fd \in DOMAIN descriptors :
                   descriptors[fd].node = n /\ (Listed(fd) \/ Held(fd))})
  + Cardinality({c \in Clients : PointsTo(clients[c], n)})

\* Nothing is destroyed while something points to it.
NothingDiesInUse ==
  /\ \A n \in DOMAIN nodes : nodes[n].lost # 0 => Pointers(n) > nodes[n].lost
  /\ \A fd \in DOMAIN descriptors : descriptors[fd].lost => Listed(fd) /\ Held(fd)

-----------------------------------------------------------------------------
(* The calls.  Their operators take and give what a call works on:          *)
(*   [nodes, descriptors, failed, me |-> the client's own state].           *)
(* "free" says whether a command slot is free: if not, a read fails at once. *)

\* Mutant: the pointer is counted once more instead.
Gain(w, n, slept) == IF slept THEN w ELSE [w EXCEPT !.nodes[n].lost = @ - 1]

Lose(w, n, slept) == IF slept THEN w ELSE [w EXCEPT !.nodes[n].lost = @ + 1]

NoRequest == [offset |-> 0, count |-> 0]

\* What is left of a call that has returned: what it was asked and its status.
Return(w, status) ==
  [w EXCEPT !.me = [@ EXCEPT !.pc = "idle", !.node = Root, !.done = 0, !.slept = FALSE,
                             !.fd = 0, !.request = NoRequest, !.status = status]]

Fail(w, why) == [Return(w, "none") EXCEPT !.failed = why]

\* Mutant: the old children stay in the list.
PopulateAgain(w, n) ==
  LET names == Disk[w.nodes[n].name]
      old == Len(w.nodes)
  IN  [w EXCEPT
         !.nodes = [@ EXCEPT ![n].childrenCreated = TRUE,
                             ![n].children = @ \o [i \in DOMAIN names |-> old + i]]
                   \o [i \in DOMAIN names |-> NewNode(names[i], n)]]

\* JolietISO::readDirectory once it has the directory's contents.  It does not
\* look again whether another call has been there meanwhile.
Populate(w, n) ==
  LET names == Disk[w.nodes[n].name]
      old == Len(w.nodes)
  IN  [w EXCEPT
         !.nodes = [@ EXCEPT ![n].childrenCreated = TRUE,
                             ![n].children = [i \in DOMAIN names |-> old + i]]
                   \o [i \in DOMAIN names |-> NewNode(names[i], n)]]

\* Mutants: a directory that could not be read counts as read; it is read again
\* until it can be.
NoContentsMarked(w) == Return([w EXCEPT !.nodes[w.me.node].childrenCreated = TRUE], "IOError")

NoContentsAgain(w) == w

\* Without the contents the call fails, and may be made again.
NoContents(w) == Return(w, "IOError")

Named(ns, n, name) == {i \in DOMAIN ns[n].children : ns[ns[n].children[i]].name = name}

\* openFile once it has the parent directory.
OpenIn(w, slept) ==
  LET name == Last(w.me.call.parts)
      found == Named(w.nodes, w.me.node, name)
      n == w.nodes[w.me.node].children[Max(found)]
      fd == Len(w.descriptors) + 1
  IN  IF found = {}
      THEN IF w.me.call.create THEN Fail(w, "not_implemented")
           ELSE Return(w, "NoSuchDirectoryOrFile")
      ELSE IF name \in Directories
      THEN Return(w, "NotFile")
      ELSE Return([w EXCEPT
                     !.descriptors = Append(@, [node |-> n, lost |-> ~slept]),
                     !.nodes[n].openFileDescriptors = Append(@, fd),
                     !.me.held = @ \cup {fd}], "Ok")

\* The end of Drivers::FS::readDirectory, and what its caller does then.
HaveDirectory(w, slept) ==
  LET counted == Lose(w, w.me.node, slept)
  IN  IF w.me.call.op = "list" THEN Return(counted, "Ok") ELSE OpenIn(counted, slept)

\* Mutant: the directory is read afresh each time it is asked for.
ReadDirectoryAfresh(w, free) ==
  LET counted == Lose(w, w.me.node, w.me.slept)
  IN  IF ~IsDirectory(w.nodes[w.me.node]) THEN Return(counted, "NotDirectory")
      ELSE IF free THEN [counted EXCEPT !.me.pc = "listing", !.me.done = 0]
      ELSE NoContents(counted)

\* Drivers::FS::readDirectory once getInfo has found its node.
ReadDirectory(w, free) ==
  LET node == w.nodes[w.me.node]
      counted == Lose(w, w.me.node, w.me.slept)
  IN  IF ~IsDirectory(node) THEN Return(counted, "NotDirectory")
      ELSE IF node.childrenCreated THEN HaveDirectory(counted, w.me.slept)
      ELSE IF free THEN [counted EXCEPT !.me.pc = "listing", !.me.done = 0]
      ELSE NoContents(counted)

\* One turn of getInfo's loop, unless an earlier one has ended it.
Enter(ns, at, name) ==
  IF at.stop # "no" THEN at
  ELSE IF ~IsDirectory(ns[at.node]) THEN [at EXCEPT !.stop = "NotDirectory"]
  ELSE IF ~ns[at.node].childrenCreated THEN [at EXCEPT !.stop = "unread"]
  ELSE LET found == Named(ns, at.node, name)
           next == CASE name = "." -> at.node
                     [] name = ".." -> ns[at.node].parent
                     [] name \notin {".", ".."} /\ found # {} ->
                            ns[at.node].children[Min(found)]
                     [] OTHER -> 0
       IN  IF next = 0 THEN [at EXCEPT !.stop = "NoSuchDirectoryOrFile"]
           ELSE [at EXCEPT !.node = next, !.done = @ + 1]

\* The names that getInfo follows; openFile's last one it does not.
Path(call) == IF call.op = "open" THEN Front(call.parts) ELSE call.parts

\* Where getInfo is after each turn of its loop.
Walk(ns, at, path) ==
  LET turn[i \in 0 .. Len(path)] ==
        IF i <= at.done THEN at ELSE Enter(ns, turn[i - 1], path[i])
  IN  turn

\* getInfo from the node it has got to.
GetInfo(w, free) ==
  LET path == Path(w.me.call)
      end == Walk(w.nodes, [node |-> w.me.node, done |-> w.me.done, stop |-> "no"], path)[Len(path)]
      there == [w EXCEPT !.me.node = end.node, !.me.done = end.done]
  IN  CASE end.stop = "no" -> ReadDirectory(there, free)
        [] end.stop = "unread" /\ free ->
             [there EXCEPT !.me.pc = "walking", !.me.slept = TRUE]
        [] end.stop = "unread" /\ ~free -> NoContents(there)
        [] OTHER -> Return(w, end.stop)

\* The end of readFile.  It always copies from the first of the buffers.
Copy(w, buffer) ==
  LET n == w.descriptors[w.me.fd].node
      pushed == [w EXCEPT !.nodes[n].fileBuffers = Append(@, buffer)]
  IN  IF pushed.nodes[n].fileBuffers[1] = "null"
      THEN Fail(pushed, "null_buffer")
      ELSE IF w.me.request.offset + w.me.request.count > Size[w.nodes[n].name]
      THEN Fail(pushed, "beyond_buffer")
      ELSE Return(pushed, "Ok")

-----------------------------------------------------------------------------
(* A client's steps *)

World(c) == [nodes |-> nodes, descriptors |-> descriptors, failed |-> failed, me |-> clients[c]]

Commit(c, w) ==
  /\ nodes' = w.nodes
  /\ descriptors' = w.descriptors
  /\ failed' = w.failed
  /\ clients' = [clients EXCEPT ![c] = w.me]
  /\ overlapped' = (overlapped \/ \E other \in Clients \ {c} :
                                    w.me.pc \in {"walking", "listing"}
                                      /\ PointsTo(clients[other], w.me.node))

Made == UNION {{c} \X (1 .. clients[c].calls) : c \in Clients}

\* A call runs until it has to wait or returns.
Call(c, called) ==
  /\ clients[c].pc = "idle"
  /\ Cardinality(Made) < Calls
  /\ \E w \in {called} :
       /\ Commit(c, [w EXCEPT !.me.calls = @ + 1])
       /\ IF w.me.pc = "idle" THEN UNCHANGED deviceVars ELSE Device!Ask(c)

Asking(c, lookup) == [World(c) EXCEPT !.me.call = lookup]

List(c, lookup, free) ==
  /\ lookup.op = "list"
  /\ Call(c, LET w == Asking(c, lookup)
             IN  IF lookup.slash /\ lookup.valid THEN GetInfo(w, free)
                 ELSE Return(w, "InvalidPath"))

\* The parent of the path is looked up with readDirectory.
Open(c, lookup, free) ==
  /\ lookup.op = "open"
  /\ Call(c, IF lookup.valid /\ ~lookup.slash
             THEN GetInfo(Asking(c, lookup), free)
             ELSE Return(Asking(c, lookup), "InvalidPath"))

\* readFile of a descriptor that the client has opened, and perhaps closed.
Read(c, fd, request, free) ==
  /\ fd \in clients[c].held
  /\ Call(c, LET w == [World(c) EXCEPT !.me.call = [op |-> "read"], !.me.fd = fd, !.me.request = request]
                 node == nodes[descriptors[fd].node]
             IN  IF ~Contains(node.openFileDescriptors, fd) THEN Return(w, "NotFile")
                 ELSE IF request.count = 0
                         \/ (request.offset + request.count) % Word > Size[node.name]
                 THEN Return(w, "OutOfBounds")
                 ELSE IF free THEN [w EXCEPT !.me.pc = "reading"]
                 ELSE Copy(w, "null"))

\* Mutant: the list's last descriptor goes instead of this one.
EraseLast(open, fd) == Front(open)

\* The descriptor is erased from where it is found in the list.
Erase(open, fd) == RemoveAt(open, Min({i \in DOMAIN open : open[i] = fd}))

\* closeFile; then the client gives its descriptor up, or keeps it.
Close(c, fd, keep) ==
  /\ fd \in clients[c].held
  /\ Call(c, LET w == [World(c) EXCEPT !.me.call = [op |-> "close"],
                                       !.me.held = IF keep THEN @ ELSE @ \ {fd},
                                       !.me.closed = @ \cup {fd}]
                 n == descriptors[fd].node
             IN  IF Contains(nodes[n].openFileDescriptors, fd)
                 THEN Return([w EXCEPT !.nodes[n].openFileDescriptors = Erase(@, fd)], "Ok")
                 ELSE Return(w, "NotFile"))

\* The device has answered: the call goes on until it waits again or returns.
Resume(c, free) ==
  LET w == World(c)
      has == answer[c] = "true"
      resumed ==
              CASE w.me.pc = "reading" -> Copy(w, IF has THEN "data" ELSE "null")
                [] w.me.pc # "reading" /\ ~has -> NoContents(w)
                [] w.me.pc = "walking" /\ has -> GetInfo(Populate(w, w.me.node), free)
                [] w.me.pc = "listing" /\ has -> HaveDirectory(Populate(w, w.me.node), TRUE)
  IN  /\ clients[c].pc # "idle"
      /\ phase[c] = "answered"
      /\ Device!Take(c)
      /\ \E next \in {resumed} :
           /\ (phase'[c] = "waiting") = (next.me.pc # "idle")
           /\ Commit(c, next)

-----------------------------------------------------------------------------
Init ==
  /\ nodes = <<NewNode("root", Root)>>
  /\ descriptors = <<>>
  /\ clients = [c \in Clients |->
       [pc |-> "idle", node |-> Root, done |-> 0, slept |-> FALSE, fd |-> 0,
        request |-> NoRequest, call |-> [op |-> "none"], status |-> "none",
        held |-> {}, closed |-> {}, calls |-> 0]]
  /\ failed = "no"
  /\ overlapped = FALSE
  /\ Device!Init

Running == failed = "no" /\ NothingDiesInUse

DeviceStep(c) ==
  /\ Device!Execute(c) \/ \E value \in {"true", "false"} : Device!Answer({c}, value)
  /\ UNCHANGED treeVars

ClientStep(c, free) ==
  \/ \E lookup \in Lookups : List(c, lookup, free) \/ Open(c, lookup, free)
  \/ \E fd \in clients[c].held, r \in Requests : Read(c, fd, r, free)
  \/ Resume(c, free)

Next ==
  /\ Running
  /\ \E c \in Clients :
       \/ DeviceStep(c)
       \/ \E free \in BOOLEAN : ClientStep(c, free)
       \/ \E fd \in clients[c].held, keep \in BOOLEAN : Close(c, fd, keep)

\* The device answers the commands that it has executed, and timerLoop resumes
\* who has an answer: Resume is the step of Next that takes it, and is enabled
\* whenever there is one.  Nothing is assumed of the execution, as an AHCI port
\* that has stopped at an error executes nothing any more (AhciDevice).
Fairness ==
  \A c \in Clients :
    WF_deviceVars(/\ \/ \E value \in {"true", "false"} : Device!Answer({c}, value)
                     \/ Device!Take(c)
                  /\ Running)

Spec == Init /\ [][Next]_vars /\ Fairness

-----------------------------------------------------------------------------
Statuses == {"Ok", "IOError", "InvalidPath", "NoSuchDirectoryOrFile", "NotDirectory",
             "NotFile", "OutOfBounds"}

TypeOK ==
  /\ \A n \in DOMAIN nodes :
       /\ nodes[n].parent \in 1 .. Len(nodes)
       /\ Range(nodes[n].children) \subseteq 1 .. Len(nodes)
       /\ Range(nodes[n].openFileDescriptors) \subseteq 1 .. Len(descriptors)
       /\ Range(nodes[n].fileBuffers) \subseteq {"data", "null"}
       /\ nodes[n].childrenCreated \in BOOLEAN /\ nodes[n].lost \in Nat
  /\ \A fd \in DOMAIN descriptors :
       descriptors[fd].node \in 1 .. Len(nodes) /\ descriptors[fd].lost \in BOOLEAN
  /\ \A c \in Clients :
       /\ clients[c].pc \in {"idle", "walking", "listing", "reading"}
       /\ clients[c].node \in 1 .. Len(nodes)
       /\ clients[c].held \subseteq 1 .. Len(descriptors)
       /\ clients[c].calls \in 0 .. Calls
       /\ clients[c].status \in Statuses \cup {"none"}
       /\ clients[c].pc # "idle" <=> phase[c] # "idle"
  /\ failed \in {"no", "not_implemented", "null_buffer",
                 "beyond_buffer"}
  /\ overlapped \in BOOLEAN

\* However calls interleave, and whichever of them fail, a directory that
\* counts as read lists what is on the medium: each entry once, with the
\* directory as its parent (JolietISO::readDirectory).
DirectoriesMatchTheDisk ==
  \A n \in DOMAIN nodes :
    nodes[n].childrenCreated =>
      /\ [i \in DOMAIN nodes[n].children |-> nodes[nodes[n].children[i]].name]
           = Disk[nodes[n].name]
      /\ \A m \in Range(nodes[n].children) : nodes[m].parent = n

\* A client's descriptor stays listed at its node, exactly once, until the
\* client itself closes it: other clients open and close the same file, and
\* the node may be replaced in its directory (openFile, closeFile, readFile).
OpenIsListedOnce ==
  \A c \in Clients : \A fd \in clients[c].held \ clients[c].closed :
    /\ Contains(nodes[descriptors[fd].node].openFileDescriptors, fd)
    /\ \A n \in DOMAIN nodes :
         LET open == nodes[n].openFileDescriptors
         IN  IsInjective(open) /\ (n # descriptors[fd].node => ~Contains(open, fd))

\* What getInfo has to find, by the medium alone, after each of the names.
ParentOf(name) ==
  IF name = "root" THEN name ELSE CHOOSE d \in Directories : Contains(Disk[d], name)

Follow(at, name) ==
  IF at.status # "Ok" THEN at
  ELSE IF at.name \notin Directories THEN [at EXCEPT !.status = "NotDirectory"]
  ELSE IF name = "." THEN at
  ELSE IF name = ".." THEN [at EXCEPT !.name = ParentOf(@)]
  ELSE IF Contains(Disk[at.name], name) THEN [at EXCEPT !.name = name]
  ELSE [at EXCEPT !.status = "NoSuchDirectoryOrFile"]

Resolve(path) ==
  LET at[i \in 0 .. Len(path)] ==
        IF i = 0 THEN [status |-> "Ok", name |-> "root"] ELSE Follow(at[i - 1], path[i])
  IN  at

Promised(lookup) ==
  LET path == Path(lookup)
      dir == Resolve(path)[Len(path)]
  IN  IF ~lookup.valid \/ lookup.slash # (lookup.op = "list") THEN "InvalidPath"
      ELSE IF dir.status # "Ok" THEN dir.status
      ELSE IF dir.name \notin Directories THEN "NotDirectory"
      ELSE IF lookup.op = "list" THEN "Ok"
      ELSE IF ~Contains(Disk[dir.name], Last(lookup.parts)) THEN "NoSuchDirectoryOrFile"
      ELSE IF Last(lookup.parts) \in Directories THEN "NotFile"
      ELSE "Ok"

\* What openFile and readDirectory return is true of the medium, unless they
\* report an error of the device: no earlier failure and no other call that
\* reads the same directory meanwhile can make a path appear or disappear.
StatusesAreTrue ==
  \A c \in Clients :
    LET me == clients[c]
    IN  failed = "no" /\ me.pc = "idle" /\ me.call.op \in {"open", "list"} =>
          me.status \in {"IOError", Promised(me.call)}

\* All who have a file open share one node, so its list of descriptors and its
\* buffers are the file's: unless two calls have read one directory at a time,
\* which replaces the nodes in it (jolietIso.cpp:86).
OneNodePerFile ==
  ~overlapped =>
    \A fd, other \in DOMAIN descriptors :
      nodes[descriptors[fd].node].name = nodes[descriptors[other].node].name =>
        descriptors[fd].node = descriptors[other].node

\* Every call returns: each of its exits, and of the calls under it, resumes
\* the coroutine that waits for it (or the kernel has stopped).  Only a call whose
\* command the device never executes waits for ever.
EveryCallReturns ==
  \A c \in Clients :
    \/ clients[c].pc # "idle" ~> clients[c].pc = "idle" \/ ~Running
    \/ <>[](phase[c] = "waiting")

=============================================================================
