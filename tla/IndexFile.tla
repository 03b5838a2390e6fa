----------------------------- MODULE IndexFile -----------------------------
(***************************************************************************)
(* The index file: buildIndex writes a VPQ-tree to it, the plotting        *)
(* processes build their own copy of the tree from it, and the file system *)
(* is all they share.  Nothing says that a file is complete: buildIndex    *)
(* skips its work when the file exists (buildIndex_main.cpp:82), plotting  *)
(* reads whatever is there (plotting_main.cpp:94).                         *)
(*                                                                         *)
(* Trees are those of Quadtree; the root is written in no record.          *)
(***************************************************************************)
EXTENDS Quadtree, SequencesExt, FiniteSets

CONSTANTS
    Trees,       \* the trees a build may come to
    Readers,     \* plotting processes
    NoFile,      \* stat fails
    Null         \* nullptr

\* True of every tree that is built: BuiltTreesCorrect in LineProofs.
ASSUME TreesAssumption == \A t \in Trees : IsFiniteTree(t)

VARIABLES
    built,       \* the tree that the shapefiles make
    file,        \* the records in the file, or NoFile
    bpc,         \* the next step of buildIndex, "off" between two runs
    sent,        \* records of the present run that have reached the file
    rpc,         \* rpc[r]: the next step of plotting process r
    size,        \* size[r]: total_size when r opened the file, in records
    next,        \* next[r]: the index i of the record to read
    seek,        \* seek[r]: its seek_node
    level_tmp,   \* level_tmp[r]
    tree         \* tree[r]: its tree, with the level stored in each node

builderVars == <<built, bpc, sent>>
readerVars == <<rpc, size, next, seek, level_tmp, tree>>
vars == <<built, file, bpc, sent, rpc, size, next, seek, level_tmp, tree>>

(***************************************************************************)
(* saveToFile: a node before its children, these in the order of Quads,    *)
(* and a record for every node but the root.                               *)
(***************************************************************************)
\* The call at p, visit[c] being the nodes written by the one at its child c.
Visit(t, visit, p) ==
    LET child(q) == IF Append(p, q) \in DOMAIN t THEN visit[Append(p, q)] ELSE <<>>
        own == IF p = <<>> THEN <<>> ELSE <<p>>
    IN  own \o child(1) \o child(2) \o child(3) \o child(4)

Preorder(t) == LET visit[p \in DOMAIN t] == Visit(t, visit, p) IN visit[<<>>]

Record(t, p) == [level |-> Len(p), quadType |-> Last(p), kind |-> t[p]]

SaveToFile(t) ==
    LET s == Preorder(t) IN [i \in 1..Len(s) |-> Record(t, s[i])]

Records == [level : Nat, quadType : Quads, kind : Kinds]
ASSUME NoFileAssumption == NoFile \notin Seq(Records) /\ Null \notin Seq(Quads)

(***************************************************************************)
(* readIndexFile.                                                          *)
(***************************************************************************)
Root == [level |-> 0, kind |-> "s"]

\* k times seek_node = seek_node->parent; above the root there is nothing.
Up(p, k) == IF k <= Len(p) THEN SubSeq(p, 1, Len(p) - k) ELSE Null

\* Faulty: one parent too few when the level does not grow.
ParentForShort(p, last, level) == IF level < last THEN Up(p, last - level) ELSE p

\* The node under which a record of this level is put.
ParentFor(p, last, level) == IF level <= last THEN Up(p, last - level + 1) ELSE p

\* Faulty: the kind of the node is not taken over.
NewChildPlain(t, p, rec) ==
    LET c == Append(p, rec.quadType)
        kept == {d \in DOMAIN t : ~IsPrefix(c, d)}
    IN  [d \in kept \cup {c} |-> IF d = c THEN [level |-> rec.level, kind |-> "s"]
                                          ELSE t[d]]

\* new VPQTreeNodeS: it replaces what the pointer held, subtree and all.
NewChild(t, p, rec) ==
    LET c == Append(p, rec.quadType)
        kept == {d \in DOMAIN t : ~IsPrefix(c, d)}
    IN  [d \in kept \cup {c} |-> IF d = c THEN [level |-> rec.level, kind |-> rec.kind]
                                          ELSE t[d]]

Init ==
    /\ built \in Trees
    /\ file = NoFile
    /\ bpc = "off"
    /\ sent = 0
    /\ rpc = [r \in Readers |-> "off"]
    /\ size = [r \in Readers |-> 0]
    /\ next = [r \in Readers |-> 0]
    /\ seek = [r \in Readers |-> <<>>]
    /\ level_tmp = [r \in Readers |-> 0]
    /\ tree = [r \in Readers |-> [p \in {<<>>} |-> Root]]

(***************************************************************************)
(* buildIndex.                                                             *)
(***************************************************************************)
\* Faulty: the file is not looked for.
StatIgnoresFile ==
    /\ bpc = "off"
    /\ bpc' = "build"
    /\ UNCHANGED <<built, file, sent, readerVars>>

\* A run of buildIndex: an existing file ends it ("index file exits").
Stat ==
    /\ bpc = "off" /\ file = NoFile
    /\ bpc' = "build"
    /\ UNCHANGED <<built, file, sent, readerVars>>

\* The tree is built first; the file is created, or emptied, only then.
Open ==
    /\ bpc = "build"
    /\ file' = <<>>
    /\ sent' = 0
    /\ bpc' = "write"
    /\ UNCHANGED <<built, readerVars>>

\* Faulty: what the stream still buffers is taken for written.
WriteBuffered ==
    /\ bpc = "write" /\ sent < Len(SaveToFile(built))
    /\ sent' = sent + 1
    /\ file' \in {file, SubSeq(SaveToFile(built), 1, sent')}
    /\ UNCHANGED <<built, bpc, readerVars>>

\* Records reach the file in order as the stream's buffer is flushed.
Write ==
    /\ bpc = "write" /\ sent < Len(SaveToFile(built))
    /\ sent' = sent + 1
    /\ file' = Append(file, SaveToFile(built)[sent'])
    /\ UNCHANGED <<built, bpc, readerVars>>

\* The stream is closed with everything in the file.
Close ==
    /\ bpc = "write" /\ sent = Len(SaveToFile(built))
    /\ bpc' = "off"
    /\ UNCHANGED <<built, file, sent, readerVars>>

\* The run is killed; what it has flushed stays.
Kill ==
    /\ bpc # "off"
    /\ bpc' = "off"
    /\ UNCHANGED <<built, file, sent, readerVars>>

(***************************************************************************)
(* plotting.                                                               *)
(***************************************************************************)
\* stat finds the file, whose size is taken once.
ReadOpen(r) ==
    /\ rpc[r] = "off" /\ file # NoFile
    /\ rpc' = [rpc EXCEPT ![r] = "read"]
    /\ size' = [size EXCEPT ![r] = Len(file)]
    /\ next' = [next EXCEPT ![r] = 1]
    /\ UNCHANGED <<file, builderVars, seek, level_tmp, tree>>

\* One turn of the loop over the mapped records.
ReadRecord(r) ==
    /\ rpc[r] = "read" /\ next[r] <= size[r]
    /\ LET rec == file[next[r]]
           parent == ParentFor(seek[r], level_tmp[r], rec.level)
       IN  IF parent = Null
           THEN /\ rpc' = [rpc EXCEPT ![r] = "segv"]
                /\ UNCHANGED <<next, seek, level_tmp, tree>>
           ELSE /\ tree' = [tree EXCEPT ![r] = NewChild(@, parent, rec)]
                /\ seek' = [seek EXCEPT ![r] = Append(parent, rec.quadType)]
                /\ level_tmp' = [level_tmp EXCEPT ![r] = rec.level]
                /\ next' = [next EXCEPT ![r] = @ + 1]
                /\ rpc' = rpc
    /\ UNCHANGED <<file, builderVars, size>>

\* "read ... index: ... successfully"
ReadDone(r) ==
    /\ rpc[r] = "read" /\ next[r] > size[r]
    /\ rpc' = [rpc EXCEPT ![r] = "successfully"]
    /\ UNCHANGED <<file, builderVars, size, next, seek, level_tmp, tree>>

Next ==
    \/ Stat \/ Open \/ Write \/ Close \/ Kill
    \/ \E r \in Readers : ReadOpen(r) \/ ReadRecord(r) \/ ReadDone(r)

Spec == Init /\ [][Next]_vars

(***************************************************************************)
(* Properties.                                                             *)
(***************************************************************************)
\* During a build the file holds the records sent so far, no more and no less;
\* before it, there is no file.
TypeOK ==
    /\ built \in Trees
    /\ bpc \in {"off", "build", "write"}
    /\ bpc = "build" => file = NoFile
    /\ bpc = "write" => /\ sent \in 0..Len(SaveToFile(built))
                        /\ file = SubSeq(SaveToFile(built), 1, sent)
    /\ rpc \in [Readers -> {"off", "read", "successfully", "segv"}]
    /\ size \in [Readers -> Nat]
    /\ next \in [Readers -> Nat]
    /\ level_tmp \in [Readers -> Nat]

Complete == file = SaveToFile(built)

\* The tree that plotting works with, levels left out.
Loaded(r) == [p \in DOMAIN tree[r] |-> tree[r][p].kind]

\* However much of the file there was when it was opened, the loop of
\* VPQTreeNodeS.cpp:57-102 never climbs above the root, puts every record at
\* its own place and loses none.
ReadsWhatIsThere ==
    \A r \in Readers :
        /\ rpc[r] # "segv"
        /\ \A p \in DOMAIN tree[r] : p \in DOMAIN built
                                        /\ tree[r][p] = [level |-> Len(p), kind |-> built[p]]
        /\ rpc[r] # "off" => Cardinality(DOMAIN tree[r]) = next[r]

\* A tree that was wholly in the file when it was opened is read back.
RoundTrip ==
    \A r \in Readers : rpc[r] = "successfully" /\ size[r] = Len(SaveToFile(built))
                          => Loaded(r) = built

\* A complete index is never touched again, by no later run of buildIndex
\* (the stat of buildIndex_main.cpp:82 comes before every ofstream).
CompleteIndexStays == [][Complete => file' = file]_vars

\* README.md, 4.3: the map may be opened once plotting.log says "read ...
\* successfully".  So a process that says so with no build under way, and with
\* nothing more in the file than it has read, has the whole index.
SuccessMeansComplete ==
    \A r \in Readers : rpc[r] = "successfully" /\ bpc = "off" /\ size[r] = Len(file)
                          => Loaded(r) = built
=============================================================================
