---------------------------- MODULE DriverProofs ----------------------------
(***************************************************************************)
(* Proofs about Driver, for any number of processes and sources: what the  *)
(* tpcc processes of one directory do to each other's files.               *)
(***************************************************************************)
EXTENDS Driver, TLAPS

-----------------------------------------------------------------------------
(* The inductive invariant: types. *)

OutputKinds == {"asm", "object", "exe"}
Kinds == OutputKinds \cup {"source"}

Commands ==
  [src : Source \cup {Anon}, n : BOOLEAN, x : BOOLEAN, h : BOOLEAN]

Items ==
  {Text(c) : c \in Program} \cup {Code(c) : c \in Program} \cup {Other}

Inodes ==
  {Given(s) : s \in Source} \cup {Own(q, kind) : q \in Proc, kind \in Kinds}

Contents == [holds : SUBSET Items, mode : BOOLEAN]

ProcRecord ==
  [pc : Steps, inv : Commands, input : SUBSET Items,
   stdin : Inodes \cup {NoInode}, output : Inodes \cup {NoInode},
   text : SUBSET Items, outcome : Outcomes, code : Int, alone : BOOLEAN]

Typed ==
  /\ procs \in [Proc -> ProcRecord]
  /\ data \in [DOMAIN data -> Contents]
  /\ DOMAIN data \subseteq Inodes

-----------------------------------------------------------------------------
(* The inductive invariant: who made the inode a name leads to. *)

Started(p) == ~At(p, "start")
SrcOf(p) == procs[p].inv.src
StemOf(p) == Stem(SrcOf(p))

(* The name of the file of a kind that process q makes.                    *)
SuffixOf(kind) ==
  CASE kind = "asm"    -> ".asm"
    [] kind = "object" -> ".o"
    [] kind = "exe"    -> ""
    [] kind = "source" -> ".tpc"

MyName(q, kind) == <<".", StemOf(q), SuffixOf(kind)>>

(* The inode i was there as the source n, or a process made it and gave it *)
(* the name n.                                                             *)
GivenAs(i, n) == n \in Source /\ i = Given(n)

MadeBy(i, n, q, kind) ==
  /\ i = Own(q, kind) /\ Started(q) /\ n = MyName(q, kind)
  /\ kind = "source" => Anonymous(q)

MadeAs(i, n) ==
  GivenAs(i, n) \/ \E q \in Proc, kind \in Kinds : MadeBy(i, n, q, kind)

(* A name leads to an inode that was made for this very name.              *)
LinkOK(n) == fs[n] \in DOMAIN data /\ MadeAs(fs[n], n)

Linked == \A n \in DOMAIN fs : LinkOK(n)

(* What process p writes to was made for its files, and only -x makes an   *)
(* object and an executable.                                               *)
OpenedBy(p) ==
  /\ At(p, "create") => Anonymous(p)
  /\ At(p, "copy") => /\ Anonymous(p) /\ procs[p].stdin \in DOMAIN data
                      /\ MadeAs(procs[p].stdin, Anon)
  /\ At(p, "parse") => procs[p].stdin \in DOMAIN data
  /\ procs[p].pc \in {"translate", "close"} =>
       /\ procs[p].output \in DOMAIN data
       /\ MadeAs(procs[p].output, MyName(p, "asm"))
  /\ procs[p].pc \in {"assemble", "link", "rm_object"} => procs[p].inv.x

Opened == \A p \in Proc : OpenedBy(p)

-----------------------------------------------------------------------------
(* Names and inodes. *)

(* An inode determines what it is made of, and the inode of a source is    *)
(* none that a process makes.                                              *)
LEMMA InodesDiffer ==
  /\ \A s, q, kind : Given(s) # Own(q, kind)
  /\ \A q, r, kind, other : Own(q, kind) = Own(r, other) =>
                              q = r /\ kind = other
  /\ \A s, t : Given(s) = Given(t) => s = t
<1>1. \A s, q, kind : Given(s) # Own(q, kind)
  BY DEF Given, Own
<1>2. \A q, r, kind, other : Own(q, kind) = Own(r, other) =>
                              q = r /\ kind = other
  BY DEF Own
<1>3. \A s, t : Given(s) = Given(t) => s = t
  BY DEF Given
<1>. QED
  BY <1>1, <1>2, <1>3

(* The kinds have different suffixes.                                      *)
LEMMA SuffixesDiffer ==
  /\ SuffixOf("asm") = ".asm" /\ SuffixOf("object") = ".o"
  /\ SuffixOf("exe") = "" /\ SuffixOf("source") = ".tpc"
  /\ \A k, l \in Kinds : SuffixOf(k) = SuffixOf(l) => k = l
<1>1. /\ SuffixOf("asm") = ".asm" /\ SuffixOf("object") = ".o"
      /\ SuffixOf("exe") = "" /\ SuffixOf("source") = ".tpc"
  BY DEF SuffixOf
<1>. QED
  BY <1>1 DEF Kinds, OutputKinds

(* An inode is made for one name only.                                     *)
LEMMA OneName ==
  ASSUME NEW i, NEW m, NEW n, MadeAs(i, m), MadeAs(i, n)
  PROVE  m = n
<1>1. CASE GivenAs(i, m)
  BY <1>1, InodesDiffer DEF MadeAs, MadeBy, GivenAs
<1>2. CASE ~GivenAs(i, m)
  <2>1. PICK q \in Proc, k \in Kinds : MadeBy(i, m, q, k)
    BY <1>2 DEF MadeAs
  <2>2. ~GivenAs(i, n)
    BY <2>1, InodesDiffer DEF MadeBy, GivenAs
  <2>3. PICK r \in Proc, l \in Kinds : MadeBy(i, n, r, l)
    BY <2>2 DEF MadeAs
  <2>4. Own(q, k) = Own(r, l)
    BY <2>1, <2>3 DEF MadeBy
  <2>5. q = r /\ k = l
    BY <2>4, InodesDiffer
  <2>. QED
    BY <2>1, <2>3, <2>5 DEF MadeBy
<1>. QED
  BY <1>1, <1>2

-----------------------------------------------------------------------------
(* What a step of one process may do to the files. *)

(* The kinds of files process q may write or remove.                       *)
MyKinds(q) ==
  {kind \in Kinds : /\ kind \in {"object", "exe"} => procs[q].inv.x
                    /\ kind = "source" => Anonymous(q)}

(* q removes one of its names.                                             *)
Removes(q, kind) == fs' = Removed(fs, MyName(q, kind)) /\ data' = data

(* q writes to a file made for one of its names.                           *)
Writes(q, kind) ==
  /\ fs' = fs
  /\ \E i \in DOMAIN data :
       /\ MadeAs(i, MyName(q, kind))
       /\ DOMAIN data' = DOMAIN data
       /\ data' \in [DOMAIN data -> Contents]
       /\ \A j \in DOMAIN data : j # i => data'[j] = data[j]

(* q makes a file of its own and gives it one of its names.                *)
Makes(q, kind) ==
  \E v \in Contents :
    /\ fs' = Extend(fs, MyName(q, kind), Own(q, kind))
    /\ data' = Extend(data, Own(q, kind), v)

Effect(q) ==
  \/ UNCHANGED <<fs, data>>
  \/ /\ Running(q)
     /\ \E kind \in MyKinds(q) :
          Removes(q, kind) \/ Writes(q, kind) \/ Makes(q, kind)

(* The names of a process.                                                 *)
LEMMA TheNames ==
  ASSUME NEW q
  PROVE  /\ AsmName(SrcOf(q)) = MyName(q, "asm")
         /\ ObjectName(SrcOf(q)) = MyName(q, "object")
         /\ ExeName(SrcOf(q)) = MyName(q, "exe")
         /\ Anonymous(q) => Anon = MyName(q, "source")
<1>1. /\ AsmName(SrcOf(q)) = MyName(q, "asm")
      /\ ObjectName(SrcOf(q)) = MyName(q, "object")
      /\ ExeName(SrcOf(q)) = MyName(q, "exe")
  BY SuffixesDiffer DEF AsmName, ObjectName, ExeName, MyName, StemOf
<1>2. Anon = <<".", Stem(Anon), ".tpc">>
  BY DEF Anon, Stem
<1>3. Anonymous(q) => StemOf(q) = Stem(Anon)
  BY DEF Anonymous, StemOf, SrcOf
<1>. QED
  BY <1>1, <1>2, <1>3, SuffixesDiffer DEF MyName

(* The kinds of process q.                                                 *)
LEMMA TheKinds ==
  ASSUME NEW q
  PROVE  /\ "asm" \in MyKinds(q)
         /\ procs[q].inv.x => {"object", "exe"} \subseteq MyKinds(q)
         /\ Anonymous(q) => "source" \in MyKinds(q)
BY DEF MyKinds, Kinds, OutputKinds

(* A file that is opened for writing is truncated or made.                 *)
LEMMA CreateEffect ==
  ASSUME Typed, Linked, NEW q \in Proc, Running(q), NEW kind \in MyKinds(q),
         NEW mode \in BOOLEAN,
         Create(MyName(q, kind), Own(q, kind), mode)
  PROVE  Effect(q)
<1>. DEFINE n == MyName(q, kind)
<1>1. CASE Exists(n)
  <2>1. fs[n] \in DOMAIN data /\ MadeAs(fs[n], n)
    BY <1>1 DEF Linked, Exists, LinkOK
  <2>2. fs' = fs /\ data' = [data EXCEPT ![fs[n]].holds = {}]
    BY <1>1 DEF Create
  <2>3. data' \in [DOMAIN data -> Contents]
    BY <2>1, <2>2 DEF Typed, Contents
  <2>4. Writes(q, kind)
    BY <2>1, <2>2, <2>3 DEF Writes
  <2>. QED
    BY <2>4 DEF Effect
<1>2. CASE ~Exists(n)
  <2>1. /\ data' = Extend(data, Own(q, kind), Inode({}, mode))
        /\ fs' = Extend(fs, n, Own(q, kind))
    BY <1>2 DEF Create
  <2>2. Inode({}, mode) \in Contents
    BY DEF Inode, Contents
  <2>3. Makes(q, kind)
    BY <2>1, <2>2 DEF Makes
  <2>. QED
    BY <2>3 DEF Effect
<1>. QED
  BY <1>1, <1>2

(* A tool that makes one of the files of q.                                *)
LEMMA ToolEffect ==
  ASSUME Typed, Linked, NEW q \in Proc, Running(q), NEW kind \in MyKinds(q),
         NEW from, Tool(MyName(q, from), MyName(q, kind), Own(q, kind))
  PROVE  Effect(q)
<1>. DEFINE n == MyName(q, from)
<1>1. Exists(n) /\ fs[n] \in DOMAIN data
  BY DEF Tool, Linked, LinkOK, Exists
<1>2. Inode(data[fs[n]].holds, TRUE) \in Contents
  BY <1>1 DEF Typed, Contents, Inode
<1>3. Makes(q, kind)
  BY <1>2 DEF Makes, Tool
<1>. QED
  BY <1>3 DEF Effect

(* Writing an item to an open file.                                        *)
LEMMA WriteEffect ==
  ASSUME Typed, NEW q \in Proc, Running(q), NEW kind \in MyKinds(q),
         NEW i \in DOMAIN data, MadeAs(i, MyName(q, kind)), NEW item \in Items,
         NEW holds \in Overwritten(data[i].holds, item),
         data' = [data EXCEPT ![i].holds = holds], fs' = fs
  PROVE  Effect(q)
<1>1. data[i] \in Contents
  BY DEF Typed
<1>2. holds \in SUBSET Items
  BY <1>1 DEF Overwritten, Contents
<1>3. data' \in [DOMAIN data -> Contents]
  BY <1>2 DEF Typed, Contents
<1>4. Writes(q, kind)
  BY <1>3 DEF Writes
<1>. QED
  BY <1>4 DEF Effect

(* What a translation writes is an item, and what is said of an input is   *)
(* an outcome.                                                             *)
LEMMA ItemsAndOutcomes ==
  /\ \A input : CodeOf(input) \in Items
  /\ \A input : OutcomesOf(input) \subseteq Outcomes
<1>1. ASSUME NEW input PROVE CodeOf(input) \in Items
  <2>1. CASE \E c \in Program : input = {Text(c)}
    <3>1. (CHOOSE c \in Program : input = {Text(c)}) \in Program
      BY <2>1
    <3>. QED
      BY <2>1, <3>1 DEF CodeOf, Items
  <2>2. CASE ~\E c \in Program : input = {Text(c)}
    BY <2>2 DEF CodeOf, Items
  <2>. QED
    BY <2>1, <2>2
<1>2. ASSUME NEW input PROVE OutcomesOf(input) \subseteq Outcomes
  BY ProgramAssumption DEF OutcomesOf, Outcomes
<1>. QED
  BY <1>1, <1>2

(* Every step of a process keeps to the names and inodes of its own files. *)
LEMMA StepEffect ==
  ASSUME Typed, Linked, Opened, NEW q \in Proc, Step(q)
  PROVE  Effect(q)
<1>0. procs[q] \in ProcRecord
  BY DEF Typed
<1>1. CASE \/ StartHelp(q) \/ StartAnonymous(q) \/ StartFile(q)
           \/ OpenSource(q) \/ Parse(q) \/ CreateTable(q) \/ Translate(q)
  BY <1>1 DEF StartHelp, StartAnonymous, StartFile, OpenSource, Parse,
              CreateTable, Translate, Effect
<1>2. CASE CreateAnonymous(q)
  <2>1. Anonymous(q) /\ Running(q) /\ "source" \in MyKinds(q)
    BY <1>2, TheKinds
       DEF CreateAnonymous, Opened, OpenedBy, Running, At, Exited
  <2>2. CASE UNCHANGED <<fs, data>>
    BY <2>2 DEF Effect
  <2>3. CASE \E mode \in Modes : Create(Anon, Own(q, "source"), mode)
    BY <2>1, <2>3, TheNames, CreateEffect, EnvironmentAssumption
  <2>. QED
    BY <1>2, <2>2, <2>3 DEF CreateAnonymous
<1>3. CASE CopyInput(q)
  <2>1. /\ Anonymous(q) /\ Running(q) /\ "source" \in MyKinds(q)
        /\ procs[q].stdin \in DOMAIN data
        /\ MadeAs(procs[q].stdin, Anon)
    BY <1>3, TheKinds DEF CopyInput, Opened, OpenedBy, Running, At, Exited
  <2>2. Anon = MyName(q, "source")
    BY <2>1, TheNames
  <2>3. PICK text \in procs[q].input :
          \E holds \in Overwritten(data[procs[q].stdin].holds, text) :
            data' = [data EXCEPT ![procs[q].stdin].holds = holds]
    BY <1>3 DEF CopyInput
  <2>4. text \in Items
    BY <1>0 DEF ProcRecord
  <2>. QED
    BY <1>3, <2>1, <2>2, <2>3, <2>4, WriteEffect DEF CopyInput
<1>4. CASE OpenOutput(q)
  <2>1. Running(q) /\ "asm" \in MyKinds(q)
    BY <1>4, TheKinds DEF OpenOutput, Running, At, Exited
  <2>2. CASE UNCHANGED <<fs, data>>
    BY <2>2 DEF Effect
  <2>3. CASE Create(AsmName(SrcOf(q)), Own(q, "asm"), TRUE)
    BY <2>1, <2>3, TheNames, CreateEffect
  <2>. QED
    BY <1>4, <2>2, <2>3 DEF OpenOutput, SrcOf
<1>5. CASE CloseOutput(q)
  <2>1. /\ Running(q) /\ "asm" \in MyKinds(q)
        /\ procs[q].output \in DOMAIN data
        /\ MadeAs(procs[q].output, MyName(q, "asm"))
    BY <1>5, TheKinds DEF CloseOutput, Opened, OpenedBy, Running, At, Exited
  <2>2. CodeOf(procs[q].text) \in Items
    BY ItemsAndOutcomes
  <2>. QED
    BY <1>5, <2>1, <2>2, WriteEffect DEF CloseOutput
<1>6. CASE Assemble(q)
  <2>1. Running(q) /\ "object" \in MyKinds(q)
    BY <1>6, TheKinds DEF Assemble, Opened, OpenedBy, Running, At, Exited
  <2>2. CASE Tool(AsmName(SrcOf(q)), ObjectName(SrcOf(q)), Own(q, "object"))
    BY <2>1, <2>2, TheNames, ToolEffect
  <2>3. CASE fs' = Removed(fs, ObjectName(SrcOf(q))) /\ UNCHANGED data
    BY <2>1, <2>3, TheNames DEF Effect, Removes
  <2>. QED
    BY <1>6, <2>2, <2>3 DEF Assemble, SrcOf
<1>7. CASE Link(q)
  <2>1. Running(q) /\ "exe" \in MyKinds(q)
    BY <1>7, TheKinds DEF Link, Opened, OpenedBy, Running, At, Exited
  <2>2. CASE Tool(ObjectName(SrcOf(q)), ExeName(SrcOf(q)), Own(q, "exe"))
    BY <2>1, <2>2, TheNames, ToolEffect
  <2>3. CASE UNCHANGED <<fs, data>>
    BY <2>3 DEF Effect
  <2>. QED
    BY <1>7, <2>2, <2>3 DEF Link, SrcOf
<1>8. CASE RemoveObject(q)
  <2>1. Running(q) /\ "object" \in MyKinds(q)
    BY <1>8, TheKinds DEF RemoveObject, Opened, OpenedBy, Running, At, Exited
  <2>. QED
    BY <1>8, <2>1, TheNames DEF RemoveObject, Effect, Removes, SrcOf
<1>9. CASE NoOutput(q) \/ HandlerOutput(q)
  <2>1. Running(q) /\ "asm" \in MyKinds(q)
    BY <1>9, TheKinds DEF NoOutput, HandlerOutput, Running, At, Exited
  <2>. QED
    BY <1>9, <2>1, TheNames
       DEF NoOutput, HandlerOutput, Effect, Removes, SrcOf
<1>10. CASE Finish(q) \/ HandlerExit(q)
  <2>1. Running(q) /\ (Anonymous(q) => "source" \in MyKinds(q))
    BY <1>10, TheKinds DEF Finish, HandlerExit, Running, At, Exited
  <2>. QED
    BY <1>10, <2>1, TheNames DEF Finish, HandlerExit, Effect, Removes
<1>. QED
  BY <1>1, <1>2, <1>3, <1>4, <1>5, <1>6, <1>7, <1>8, <1>9, <1>10 DEF Step

(* A name that is not one of q's, and what the file holds, are the same    *)
(* after a step of q.                                                      *)
LEMMA Locality ==
  ASSUME Linked, NEW q \in Proc, Effect(q), NEW n,
         \A kind \in MyKinds(q) : n # MyName(q, kind)
  PROVE  /\ n \in DOMAIN fs' <=> n \in DOMAIN fs
         /\ n \in DOMAIN fs => fs'[n] = fs[n] /\ data'[fs[n]] = data[fs[n]]
<1>1. CASE UNCHANGED <<fs, data>>
  BY <1>1
<1>2. ASSUME NEW kind \in MyKinds(q), Removes(q, kind)
      PROVE  /\ n \in DOMAIN fs' <=> n \in DOMAIN fs
             /\ n \in DOMAIN fs => fs'[n] = fs[n] /\ data'[fs[n]] = data[fs[n]]
  BY <1>2 DEF Removes, Removed
<1>3. ASSUME n \in DOMAIN fs, NEW kind \in MyKinds(q), NEW i,
             MadeAs(i, MyName(q, kind))
      PROVE  fs[n] # i
  BY <1>3, OneName DEF Linked, LinkOK
<1>4. ASSUME NEW kind \in MyKinds(q), Writes(q, kind)
      PROVE  /\ n \in DOMAIN fs' <=> n \in DOMAIN fs
             /\ n \in DOMAIN fs => fs'[n] = fs[n] /\ data'[fs[n]] = data[fs[n]]
  <2>1. PICK i \in DOMAIN data :
          /\ MadeAs(i, MyName(q, kind))
          /\ \A j \in DOMAIN data : j # i => data'[j] = data[j]
    BY <1>4 DEF Writes
  <2>2. n \in DOMAIN fs => fs[n] # i /\ fs[n] \in DOMAIN data
    BY <1>3, <2>1 DEF Linked, LinkOK
  <2>. QED
    BY <1>4, <2>1, <2>2 DEF Writes
<1>5. ASSUME NEW kind \in MyKinds(q), Makes(q, kind), Running(q)
      PROVE  /\ n \in DOMAIN fs' <=> n \in DOMAIN fs
             /\ n \in DOMAIN fs => fs'[n] = fs[n] /\ data'[fs[n]] = data[fs[n]]
  <2>1. MadeBy(Own(q, kind), MyName(q, kind), q, kind) /\ kind \in Kinds
    BY <1>5 DEF MadeBy, Running, Started, MyKinds
  <2>2. n \in DOMAIN fs => fs[n] # Own(q, kind) /\ fs[n] \in DOMAIN data
    BY <1>3, <2>1 DEF MadeAs, Linked, LinkOK
  <2>. QED
    BY <1>5, <2>2 DEF Makes, Extend
<1>. QED
  BY <1>1, <1>2, <1>4, <1>5 DEF Effect

(* No inode is forgotten, and each keeps the type of its contents.         *)
LEMMA DataTyped ==
  ASSUME Typed, NEW q \in Proc, Effect(q)
  PROVE  /\ DOMAIN data \subseteq DOMAIN data'
         /\ DOMAIN data' \subseteq Inodes
         /\ data' \in [DOMAIN data' -> Contents]
<1>1. CASE UNCHANGED <<fs, data>>
  BY <1>1 DEF Typed
<1>2. ASSUME NEW kind \in MyKinds(q), Removes(q, kind)
      PROVE  data' = data
  BY <1>2 DEF Removes
<1>3. ASSUME NEW kind \in MyKinds(q), Writes(q, kind)
      PROVE  /\ DOMAIN data' = DOMAIN data
             /\ data' \in [DOMAIN data' -> Contents]
  BY <1>3 DEF Writes
<1>4. ASSUME NEW kind \in MyKinds(q), Makes(q, kind)
      PROVE  /\ DOMAIN data' = DOMAIN data \cup {Own(q, kind)}
             /\ Own(q, kind) \in Inodes
             /\ data' \in [DOMAIN data' -> Contents]
  BY <1>4 DEF Makes, Extend, Typed, MyKinds, Inodes
<1>. QED
  BY <1>1, <1>2, <1>3, <1>4 DEF Effect, Typed

(* What a name leads to.                                                   *)
LEMMA LinkedTo ==
  ASSUME Typed, Linked, NEW n, Exists(n)
  PROVE  fs[n] \in DOMAIN data /\ MadeAs(fs[n], n) /\ fs[n] \in Inodes
BY DEF Typed, Linked, LinkOK, Exists

(* A process has started when a name leads to an inode it made.            *)
LEMMA MakerStarted ==
  ASSUME Linked, NEW n \in DOMAIN fs, NEW q \in Proc, NEW kind,
         fs[n] = Own(q, kind)
  PROVE  Started(q)
<1>1. MadeAs(Own(q, kind), n)
  BY DEF Linked, LinkOK
<1>2. ~GivenAs(Own(q, kind), n)
  BY InodesDiffer DEF GivenAs
<1>3. PICK r \in Proc, k \in Kinds : MadeBy(Own(q, kind), n, r, k)
  BY <1>1, <1>2 DEF MadeAs
<1>4. r = q
  BY <1>3, InodesDiffer DEF MadeBy
<1>. QED
  BY <1>3, <1>4 DEF MadeBy

-----------------------------------------------------------------------------
(* What a step does to the processes. *)

(* Another process's record changes only when a rival starts.              *)
Kept(r) == procs'[r] \in {procs[r], [procs[r] EXCEPT !.alone = FALSE]}

(* The command line of a started process never changes.                    *)
SameCommand(r) ==
  Started(r) => Started(r)' /\ procs'[r].inv = procs[r].inv

(* The record of the process that takes the step keeps its type.           *)
LEMMA ProcsTyped ==
  ASSUME Typed, Linked, Opened, NEW q \in Proc, Step(q)
  PROVE  /\ procs' \in [Proc -> ProcRecord]
         /\ \A r \in Proc \ {q} : Kept(r)
         /\ SameCommand(q)
<1>0. procs \in [Proc -> ProcRecord] /\ procs[q] \in ProcRecord
  BY DEF Typed
<1>. DEFINE Good == /\ procs' \in [Proc -> ProcRecord]
                    /\ \A r \in Proc \ {q} : Kept(r)
                    /\ SameCommand(q)
<1>. SUFFICES Good
  OBVIOUS
<1>1. ASSUME NEW pc \in Steps \ {"start"}, Go(q, pc)
      PROVE  Good
  BY <1>0, <1>1 DEF Go, ProcRecord, Kept, SameCommand, Started, At
<1>2. ASSUME NEW code \in Int, ExitWith(q, code)
      PROVE  Good
  BY <1>0, <1>2 DEF ExitWith, ProcRecord, Kept, SameCommand, Started, At, Steps
<1>3. ASSUME NEW s, Report(q, s), s \in Steps \ {"start"}
      PROVE  Good
  BY <1>1, <1>2, <1>3 DEF Report
<1>4. ASSUME NEW new \in ProcRecord, Begin(q, new), At(q, "start")
      PROVE  Good
  <2>1. \A r \in Proc : procs'[r] =
          IF r = q THEN [new EXCEPT !.alone = Rivals(q, new.inv.src) = {}]
          ELSE IF r \in Rivals(q, new.inv.src)
               THEN [procs[r] EXCEPT !.alone = FALSE] ELSE procs[r]
    BY <1>4 DEF Begin
  <2>2. \A r \in Proc \ {q} : Kept(r)
    BY <2>1 DEF Kept
  <2>3. procs'[q] \in ProcRecord
    <3>1. (Rivals(q, new.inv.src) = {}) \in BOOLEAN
      OBVIOUS
    <3>2. [new EXCEPT !.alone = Rivals(q, new.inv.src) = {}] \in ProcRecord
      BY <3>1 DEF ProcRecord
    <3>. QED
      BY <2>1, <3>2
  <2>4. \A r \in Proc \ {q} : procs'[r] \in ProcRecord
    <3>1. SUFFICES ASSUME NEW r \in Proc \ {q} PROVE procs'[r] \in ProcRecord
      OBVIOUS
    <3>2. procs[r] \in ProcRecord /\ FALSE \in BOOLEAN
      BY <1>0
    <3>3. [procs[r] EXCEPT !.alone = FALSE] \in ProcRecord
      BY <3>2 DEF ProcRecord
    <3>. QED
      BY <2>2, <3>1, <3>2, <3>3 DEF Kept
  <2>5. DOMAIN procs' = Proc
    BY <1>4 DEF Begin
  <2>6. procs' \in [Proc -> ProcRecord]
    <3>1. procs' = [r \in Proc |-> procs'[r]]
      BY <1>4 DEF Begin
    <3>. QED
      BY <2>3, <2>4, <3>1
  <2>. QED
    BY <1>4, <2>2, <2>6 DEF SameCommand, Started
<1>5. CASE StartHelp(q)
  <2>1. PICK inv \in Invocations :
          procs' = [procs EXCEPT ![q].pc = "exited", ![q].code = 0,
                                 ![q].inv = inv]
    BY <1>5 DEF StartHelp
  <2>2. inv \in Commands
    BY InvocationAssumption DEF Commands
  <2>3. ~Started(q)
    BY <1>5 DEF StartHelp, Started
  <2>4. procs' \in [Proc -> ProcRecord]
    <3>1. [procs[q] EXCEPT !.pc = "exited", !.code = 0, !.inv = inv]
            \in ProcRecord
      <4>1. ASSUME NEW code \in Int, NEW pc \in Steps
            PROVE  [procs[q] EXCEPT !.pc = pc, !.code = code, !.inv = inv]
                     \in ProcRecord
        BY <1>0, <2>2 DEF ProcRecord
      <4>2. "exited" \in Steps
        BY DEF Steps
      <4>3. \A code \in Int :
              [procs[q] EXCEPT !.pc = "exited", !.code = code, !.inv = inv]
                \in ProcRecord
        BY <4>1, <4>2
      <4>4. 0 \in Int
        OBVIOUS
      <4>. QED
        BY <4>3, <4>4, Zenon
    <3>2. procs' = [procs EXCEPT ![q] =
                      [procs[q] EXCEPT !.pc = "exited", !.code = 0,
                                       !.inv = inv]]
      BY <1>0, <2>1
    <3>. QED
      BY <1>0, <3>1, <3>2
  <2>5. \A r \in Proc \ {q} : procs'[r] = procs[r]
    BY <1>0, <2>1
  <2>. QED
    BY <2>3, <2>4, <2>5 DEF Kept, SameCommand
<1>6. CASE StartAnonymous(q)
  <2>1. PICK inv \in Invocations, c \in Program :
          Begin(q, [procs[q] EXCEPT !.pc = "create", !.inv = inv,
                                    !.input = {Text(c)}])
    BY <1>6 DEF StartAnonymous
  <2>2. [procs[q] EXCEPT !.pc = "create", !.inv = inv, !.input = {Text(c)}]
          \in ProcRecord
    <3>1. {Text(c)} \in SUBSET Items
      BY DEF Items
    <3>. QED
      BY <1>0, <3>1, InvocationAssumption DEF ProcRecord, Commands, Steps
  <2>. HIDE DEF Good
  <2>. QED
    BY <1>4, <1>6, <2>1, <2>2 DEF StartAnonymous
<1>7. CASE StartFile(q)
  <2>1. PICK inv \in Invocations :
          /\ inv.src # Anon
          /\ IF Exists(inv.src)
             THEN Begin(q, [procs[q] EXCEPT !.pc = "open", !.inv = inv,
                              !.input = data[fs[inv.src]].holds])
             ELSE procs' = [procs EXCEPT ![q].pc = "exited", ![q].code = 3,
                                         ![q].inv = inv]
    BY <1>7 DEF StartFile
  <2>2. CASE Exists(inv.src)
    <3>1. data[fs[inv.src]].holds \in SUBSET Items
      BY <2>2, LinkedTo DEF Typed, Contents
    <3>2. [procs[q] EXCEPT !.pc = "open", !.inv = inv,
             !.input = data[fs[inv.src]].holds] \in ProcRecord
      BY <1>0, <3>1, InvocationAssumption DEF ProcRecord, Commands, Steps
    <3>. HIDE DEF Good
    <3>. QED
      BY <1>4, <1>7, <2>1, <2>2, <3>2 DEF StartFile
  <2>3. CASE ~Exists(inv.src)
    BY <1>0, <1>7, <2>1, <2>3, InvocationAssumption, SMTT(30)
       DEF StartFile, ProcRecord, Kept, SameCommand, Started, At, Steps,
           Commands
  <2>. QED
    BY <2>2, <2>3
<1>8. CASE CreateAnonymous(q)
  <2>1. Exists(Anon) => fs[Anon] \in Inodes
    BY LinkedTo
  <2>2. Own(q, "source") \in Inodes
    BY DEF Inodes, Kinds
  <2>3. CASE Go(q, "open")
    BY <1>1, <2>3 DEF Steps
  <2>4. CASE procs' = [procs EXCEPT ![q].pc = "copy",
                         ![q].stdin = IF Exists(Anon)
                                      THEN fs[Anon]
                                      ELSE Own(q, "source")]
    BY <1>0, <2>1, <2>2, <2>4
       DEF ProcRecord, Kept, SameCommand, Started, At, Steps
  <2>. QED
    BY <1>8, <2>3, <2>4 DEF CreateAnonymous
<1>9. CASE OpenSource(q)
  <2>1. Exists(procs[q].inv.src) =>
          fs[procs[q].inv.src] \in Inodes
    BY LinkedTo
  <2>2. CASE ExitWith(q, 3)
    BY <1>2, <2>2
  <2>3. CASE /\ Exists(procs[q].inv.src)
             /\ procs' = [procs EXCEPT ![q].pc = "parse",
                            ![q].stdin = fs[procs[q].inv.src]]
    BY <1>0, <2>1, <2>3
       DEF ProcRecord, Kept, SameCommand, Started, At, Steps
  <2>. QED
    BY <1>9, <2>2, <2>3 DEF OpenSource
<1>10. CASE Parse(q)
  <2>1. PICK outcome \in OutcomesOf(data[procs[q].stdin].holds) :
          IF outcome = "syntax" THEN ExitWith(q, 1)
          ELSE procs' = [procs EXCEPT ![q].pc = "table",
                           ![q].text = data[procs[q].stdin].holds,
                           ![q].outcome = outcome]
    BY <1>10 DEF Parse
  <2>2. procs[q].stdin \in DOMAIN data
    BY <1>10 DEF Parse, Opened, OpenedBy
  <2>3. data[procs[q].stdin].holds \in SUBSET Items
    BY <2>2 DEF Typed, Contents
  <2>4. outcome \in Outcomes
    BY <2>1, ItemsAndOutcomes
  <2>5. CASE outcome = "syntax"
    BY <1>2, <2>1, <2>5
  <2>6. CASE outcome # "syntax"
    BY <1>0, <2>1, <2>3, <2>4, <2>6
       DEF ProcRecord, Kept, SameCommand, Started, At, Steps
  <2>. QED
    BY <2>5, <2>6
<1>11. CASE OpenOutput(q)
  <2>1. Exists(AsmName(procs[q].inv.src)) =>
          fs[AsmName(procs[q].inv.src)] \in Inodes
    BY LinkedTo
  <2>2. Own(q, "asm") \in Inodes
    BY DEF Inodes, Kinds, OutputKinds
  <2>3. CASE Go(q, "raise3")
    BY <1>1, <2>3 DEF Steps
  <2>4. CASE procs' = [procs EXCEPT ![q].pc = "translate",
                         ![q].output = IF Exists(AsmName(procs[q].inv.src))
                                       THEN fs[AsmName(procs[q].inv.src)]
                                       ELSE Own(q, "asm")]
    BY <1>0, <2>1, <2>2, <2>4
       DEF ProcRecord, Kept, SameCommand, Started, At, Steps
  <2>. QED
    BY <1>11, <2>3, <2>4 DEF OpenOutput
<1>12. CASE CreateTable(q) \/ Translate(q)
  <2>. HIDE DEF Good
  <2>1. {"raise2", "close", "output"} \subseteq Steps \ {"start"}
    BY DEF Steps
  <2>2. CASE CreateTable(q)
    BY <1>1, <1>3, <2>1, <2>2 DEF CreateTable
  <2>3. CASE Translate(q)
    BY <1>1, <1>2, <1>3, <2>1, <2>3 DEF Translate, Crashes
  <2>. QED
    BY <1>12, <2>2, <2>3
<1>13. CASE \/ CopyInput(q) \/ CloseOutput(q) \/ Assemble(q) \/ Link(q)
            \/ RemoveObject(q) \/ NoOutput(q) \/ HandlerOutput(q)
  <2>. HIDE DEF Good
  <2>1. {"open", "assemble", "no_output", "link", "rm_object", "end",
         "exit2", "exit3"} \subseteq Steps \ {"start"}
    BY DEF Steps
  <2>. QED
    BY <1>1, <1>13, <2>1
       DEF CopyInput, CloseOutput, Assemble, Link, RemoveObject, NoOutput,
           HandlerOutput
<1>14. CASE Finish(q) \/ HandlerExit(q)
  <2>. HIDE DEF Good
  <2>. QED
    BY <1>2, <1>14 DEF Finish, HandlerExit
<1>. QED
  BY <1>5, <1>6, <1>7, <1>8, <1>9, <1>10, <1>11, <1>12, <1>13, <1>14 DEF Step

(* What the record of another process keeps.                               *)
LEMMA KeptFields ==
  ASSUME Typed, NEW r \in Proc, Kept(r)
  PROVE  /\ procs'[r].pc = procs[r].pc /\ procs'[r].inv = procs[r].inv
         /\ procs'[r].stdin = procs[r].stdin
         /\ procs'[r].output = procs[r].output
         /\ procs'[r].code = procs[r].code
         /\ procs'[r].alone => procs'[r] = procs[r]
         /\ SameCommand(r)
<1>1. procs[r] \in ProcRecord
  BY DEF Typed
<1>2. CASE procs'[r] = procs[r]
  BY <1>2 DEF SameCommand, Started, At
<1>3. CASE procs'[r] = [procs[r] EXCEPT !.alone = FALSE]
  BY <1>1, <1>3 DEF ProcRecord, SameCommand, Started, At
<1>. QED
  BY <1>2, <1>3 DEF Kept

(* What was made for a name is so after any step.                          *)
LEMMA MadeAsKept ==
  ASSUME \A r \in Proc : SameCommand(r), NEW i, NEW n, MadeAs(i, n)
  PROVE  MadeAs(i, n)'
<1>1. CASE GivenAs(i, n)
  BY <1>1 DEF MadeAs, GivenAs, Given
<1>2. ASSUME NEW q \in Proc, NEW kind \in Kinds, MadeBy(i, n, q, kind)
      PROVE  MadeBy(i, n, q, kind)'
  BY <1>2 DEF MadeBy, SameCommand, MyName, StemOf, SrcOf, Anonymous, Own
<1>. QED
  BY <1>1, <1>2 DEF MadeAs, Kinds, OutputKinds

(* The names of a process that has started stay the same.                  *)
LEMMA SameNames ==
  ASSUME NEW q \in Proc, procs'[q].inv = procs[q].inv
  PROVE  /\ \A kind : MyName(q, kind)' = MyName(q, kind)
         /\ StemOf(q)' = StemOf(q) /\ SrcOf(q)' = SrcOf(q)
         /\ Anonymous(q)' <=> Anonymous(q)
BY DEF MyName, StemOf, SrcOf, Anonymous, SuffixOf

(* Every name still leads to an inode made for it.                         *)
LEMMA LinkedKept ==
  ASSUME Typed, Linked, NEW q \in Proc, Effect(q),
         \A r \in Proc : SameCommand(r)
  PROVE  Linked'
<1>1. ASSUME NEW n \in DOMAIN fs, n \in DOMAIN fs', fs'[n] = fs[n]
      PROVE  LinkOK(n)'
  <2>1. fs[n] \in DOMAIN data' /\ MadeAs(fs[n], n)
    BY DataTyped DEF Linked, LinkOK
  <2>2. ASSUME NEW i, i = fs[n] PROVE MadeAs(i, n)'
    BY <2>1, <2>2, MadeAsKept
  <2>. QED
    BY <1>1, <2>1, <2>2 DEF LinkOK
<1>2. CASE UNCHANGED <<fs, data>>
  BY <1>1, <1>2 DEF Linked
<1>3. ASSUME NEW kind \in MyKinds(q), Removes(q, kind)
      PROVE  Linked'
  BY <1>1, <1>3 DEF Linked, Removes, Removed
<1>4. ASSUME NEW kind \in MyKinds(q), Writes(q, kind)
      PROVE  Linked'
  BY <1>1, <1>4 DEF Linked, Writes
<1>5. ASSUME NEW kind \in MyKinds(q), Makes(q, kind), Running(q)
      PROVE  Linked'
  <2>. DEFINE n == MyName(q, kind)
  <2>1. /\ DOMAIN fs' = DOMAIN fs \cup {n}
        /\ fs'[n] = Own(q, kind)
        /\ \A m \in DOMAIN fs : m # n => fs'[m] = fs[m]
        /\ Own(q, kind) \in DOMAIN data'
    BY <1>5 DEF Makes, Extend
  <2>2. MadeBy(Own(q, kind), n, q, kind) /\ kind \in Kinds
    BY <1>5 DEF MadeBy, Running, Started, MyKinds
  <2>3. MadeAs(Own(q, kind), n)
    BY <2>2 DEF MadeAs
  <2>4. ASSUME NEW m \in DOMAIN fs'
        PROVE  LinkOK(m)'
    <3>1. CASE m = n
      <4>1. ASSUME NEW i, i = Own(q, kind) PROVE MadeAs(i, m)'
        BY <2>3, <3>1, <4>1, MadeAsKept
      <4>. QED
        BY <2>1, <3>1, <4>1 DEF LinkOK
    <3>2. CASE m # n
      BY <1>1, <2>1, <3>2
    <3>. QED
      BY <3>1, <3>2
  <2>. QED
    BY <2>4 DEF Linked
<1>. QED
  BY <1>2, <1>3, <1>4, <1>5 DEF Effect

(* Another process's open files are not affected.                          *)
LEMMA OpenedOthers ==
  ASSUME Typed, Opened, NEW q \in Proc, Effect(q),
         \A r \in Proc : SameCommand(r),
         NEW p \in Proc, Kept(p)
  PROVE  OpenedBy(p)'
<1>1. OpenedBy(p)
  BY DEF Opened, OpenedBy
<1>2. /\ procs'[p].pc = procs[p].pc /\ procs'[p].inv = procs[p].inv
      /\ procs'[p].stdin = procs[p].stdin
      /\ procs'[p].output = procs[p].output
  BY KeptFields
<1>3. DOMAIN data \subseteq DOMAIN data'
  BY DataTyped
<1>4. /\ MyName(p, "asm")' = MyName(p, "asm")
      /\ Anonymous(p)' <=> Anonymous(p)
  BY <1>2, SameNames
<1>5. ASSUME NEW i, NEW n, MadeAs(i, n)
      PROVE  MadeAs(i, n)'
  BY <1>5, MadeAsKept
<1>6. At(p, "copy")' => MadeAs(procs[p].stdin, Anon)'
  <2>. SUFFICES ASSUME At(p, "copy")' PROVE MadeAs(procs[p].stdin, Anon)'
    OBVIOUS
  <2>1. MadeAs(procs[p].stdin, Anon)
    BY <1>1, <1>2 DEF OpenedBy, At
  <2>2. ASSUME NEW i, i = procs[p].stdin PROVE MadeAs(i, Anon)'
    BY <1>5, <2>1, <2>2
  <2>. QED
    BY <1>2, <2>2 DEF MadeAs, GivenAs, MadeBy
<1>7. procs'[p].pc \in {"translate", "close"} =>
        MadeAs(procs[p].output, MyName(p, "asm"))'
  <2>. SUFFICES ASSUME procs'[p].pc \in {"translate", "close"}
                PROVE  MadeAs(procs[p].output, MyName(p, "asm"))'
    OBVIOUS
  <2>1. MadeAs(procs[p].output, MyName(p, "asm"))
    BY <1>1, <1>2 DEF OpenedBy
  <2>2. ASSUME NEW i, i = procs[p].output, NEW n, n = MyName(p, "asm")
        PROVE  MadeAs(i, n)'
    BY <1>5, <2>1, <2>2
  <2>. QED
    BY <1>2, <1>4, <2>2 DEF MadeAs, GivenAs, MadeBy
<1>. QED
  BY <1>1, <1>2, <1>3, <1>4, <1>6, <1>7 DEF OpenedBy, At

(* What the process that takes the step has open.                          *)
LEMMA OpenedOwn ==
  ASSUME Typed, Linked, Opened, NEW q \in Proc, Step(q), Effect(q),
         \A r \in Proc : SameCommand(r)
  PROVE  OpenedBy(q)'
<1>1. procs \in [Proc -> ProcRecord] /\ procs[q] \in ProcRecord
  BY DEF Typed
<1>2. DOMAIN data \subseteq DOMAIN data'
  BY DataTyped
<1>. DEFINE Opens == {"create", "copy", "parse", "translate", "close",
                      "assemble", "link", "rm_object"}
<1>3. ASSUME procs'[q].pc \notin Opens
      PROVE  OpenedBy(q)'
  BY <1>3 DEF OpenedBy, At
<1>4. ASSUME NEW pc, Go(q, pc), pc \notin Opens
      PROVE  procs'[q].pc \notin Opens
  BY <1>1, <1>4 DEF Go, ProcRecord
<1>5. ASSUME NEW code \in Int, ExitWith(q, code)
      PROVE  procs'[q].pc \notin Opens
  BY <1>1, <1>5 DEF ExitWith, ProcRecord
<1>6. CASE StartHelp(q)
  <2>1. procs'[q].pc = "exited"
    BY <1>1, <1>6 DEF StartHelp, ProcRecord
  <2>. QED
    BY <1>3, <2>1
<1>7. CASE StartAnonymous(q)
  <2>1. PICK inv \in Invocations, c \in Program :
          /\ inv.src = Anon
          /\ Begin(q, [procs[q] EXCEPT !.pc = "create", !.inv = inv,
                                       !.input = {Text(c)}])
    BY <1>7 DEF StartAnonymous
  <2>2. procs'[q].pc = "create" /\ procs'[q].inv.src = Anon
    BY <1>1, <2>1 DEF Begin, ProcRecord
  <2>. QED
    BY <2>2 DEF OpenedBy, At, Anonymous
<1>8. CASE StartFile(q)
  <2>1. procs'[q].pc \in {"open", "exited"}
    <3>1. PICK inv \in Invocations :
            IF Exists(inv.src)
            THEN Begin(q, [procs[q] EXCEPT !.pc = "open", !.inv = inv,
                             !.input = data[fs[inv.src]].holds])
            ELSE procs' = [procs EXCEPT ![q].pc = "exited", ![q].code = 3,
                                        ![q].inv = inv]
      BY <1>8 DEF StartFile
    <3>2. CASE Exists(inv.src)
      BY <1>1, <3>1, <3>2, ZenonT(40) DEF Begin, ProcRecord
    <3>3. CASE ~Exists(inv.src)
      BY <1>1, <3>1, <3>3 DEF ProcRecord
    <3>. QED
      BY <3>2, <3>3
  <2>. QED
    BY <1>3, <2>1
<1>9. CASE CreateAnonymous(q)
  <2>1. CASE Go(q, "open")
    BY <1>3, <1>4, <2>1
  <2>2. CASE /\ \E mode \in Modes :
                  Create(Anon, Own(q, "source"), mode)
             /\ procs' = [procs EXCEPT ![q].pc = "copy",
                            ![q].stdin = IF Exists(Anon)
                                         THEN fs[Anon]
                                         ELSE Own(q, "source")]
    <3>. DEFINE i == IF Exists(Anon) THEN fs[Anon] ELSE Own(q, "source")
    <3>1. Anonymous(q) /\ Started(q)
      BY <1>9 DEF CreateAnonymous, Opened, OpenedBy, At, Started
    <3>2. procs'[q].pc = "copy" /\ procs'[q].stdin = i
          /\ procs'[q].inv = procs[q].inv
      BY <1>1, <2>2 DEF ProcRecord
    <3>3. i \in DOMAIN data'
      BY <1>2, <2>2, LinkedTo DEF Create, Extend
    <3>4. MadeAs(i, Anon)
      <4>1. CASE Exists(Anon)
        BY <4>1, LinkedTo
      <4>2. CASE ~Exists(Anon)
        BY <3>1, <4>2, TheNames DEF MadeAs, MadeBy, Kinds
      <4>. QED
        BY <4>1, <4>2
    <3>. HIDE DEF i
    <3>5. ASSUME NEW j, j = i PROVE MadeAs(j, Anon)'
      BY <3>4, <3>5, MadeAsKept
    <3>6. MadeAs(procs[q].stdin, Anon)'
      BY <3>2, <3>5 DEF MadeAs, GivenAs, MadeBy
    <3>. QED
      BY <3>1, <3>2, <3>3, <3>6 DEF OpenedBy, At, Anonymous
  <2>. QED
    BY <1>9, <2>1, <2>2 DEF CreateAnonymous
<1>10. CASE OpenSource(q)
  <2>1. CASE ExitWith(q, 3)
    BY <1>3, <1>5, <2>1
  <2>2. CASE /\ Exists(SrcOf(q))
             /\ procs' = [procs EXCEPT ![q].pc = "parse",
                            ![q].stdin = fs[SrcOf(q)]]
    <3>1. fs[SrcOf(q)] \in DOMAIN data'
      BY <1>2, <2>2, LinkedTo
    <3>2. /\ procs'[q].pc = "parse"
          /\ procs'[q].stdin = fs[SrcOf(q)]
      BY <1>1, <2>2 DEF ProcRecord
    <3>. QED
      BY <3>1, <3>2 DEF OpenedBy, At
  <2>. QED
    BY <1>10, <2>1, <2>2 DEF OpenSource, SrcOf
<1>11. CASE Parse(q)
  <2>1. procs'[q].pc \in {"exited", "table"}
    BY <1>1, <1>11 DEF Parse, ExitWith, ProcRecord
  <2>. QED
    BY <1>3, <2>1
<1>12. CASE CreateTable(q)
  <2>1. procs'[q].pc \in {"exited", "raise2", "output"}
    BY <1>1, <1>12 DEF CreateTable, Report, Go, ExitWith, ProcRecord
  <2>. QED
    BY <1>3, <2>1
<1>13. CASE OpenOutput(q)
  <2>1. CASE Go(q, "raise3")
    BY <1>3, <1>4, <2>1
  <2>2. CASE /\ Create(AsmName(SrcOf(q)), Own(q, "asm"), TRUE)
             /\ procs' = [procs EXCEPT ![q].pc = "translate",
                            ![q].output = IF Exists(AsmName(SrcOf(q)))
                                          THEN fs[AsmName(SrcOf(q))]
                                          ELSE Own(q, "asm")]
    <3>. DEFINE n == AsmName(SrcOf(q))
                i == IF Exists(n) THEN fs[n] ELSE Own(q, "asm")
    <3>1. Started(q) /\ "asm" \in Kinds /\ n = MyName(q, "asm")
      BY <1>13, TheNames DEF OpenOutput, At, Started, Kinds, OutputKinds
    <3>2. procs'[q].pc = "translate" /\ procs'[q].output = i
          /\ procs'[q].inv = procs[q].inv
      BY <1>1, <2>2 DEF ProcRecord
    <3>3. i \in DOMAIN data'
      BY <1>2, <2>2, LinkedTo DEF Create, Extend
    <3>4. MadeAs(i, n)
      <4>1. CASE Exists(n)
        BY <4>1, LinkedTo
      <4>2. CASE ~Exists(n)
        BY <3>1, <4>2 DEF MadeAs, MadeBy
      <4>. QED
        BY <4>1, <4>2
    <3>. HIDE DEF i, n
    <3>5. MyName(q, "asm")' = n
      BY <3>1, <3>2, SameNames
    <3>6. ASSUME NEW j, j = i, NEW m, m = n PROVE MadeAs(j, m)'
      BY <3>4, <3>6, MadeAsKept
    <3>7. MadeAs(procs[q].output, MyName(q, "asm"))'
      BY <3>2, <3>5, <3>6 DEF MadeAs, GivenAs, MadeBy
    <3>. QED
      BY <3>2, <3>3, <3>7 DEF OpenedBy, At
  <2>. QED
    BY <1>13, <2>1, <2>2 DEF OpenOutput, SrcOf
<1>14. CASE Translate(q)
  <2>1. CASE \/ \E code \in Int : ExitWith(q, code)
             \/ Go(q, "raise2")
    BY <1>3, <1>4, <1>5, <2>1
  <2>2. CASE Go(q, "close")
    <3>1. /\ procs'[q].pc = "close" /\ procs'[q].inv = procs[q].inv
          /\ procs'[q].output = procs[q].output
      BY <1>1, <2>2 DEF Go, ProcRecord
    <3>2. /\ procs[q].output \in DOMAIN data
          /\ MadeAs(procs[q].output, MyName(q, "asm"))
      BY <1>14 DEF Translate, At, Opened, OpenedBy
    <3>3. MyName(q, "asm")' = MyName(q, "asm")
      BY <3>1, SameNames
    <3>4. ASSUME NEW j, j = procs[q].output, NEW m, m = MyName(q, "asm")
          PROVE  MadeAs(j, m)'
      BY <3>2, <3>4, MadeAsKept
    <3>5. MadeAs(procs[q].output, MyName(q, "asm"))'
      BY <3>1, <3>3, <3>4 DEF MadeAs, GivenAs, MadeBy
    <3>. QED
      BY <1>2, <3>1, <3>2, <3>5 DEF OpenedBy, At
  <2>. QED
    BY <1>14, <2>1, <2>2 DEF Translate, Report, Crashes
<1>15. CASE CloseOutput(q) \/ Assemble(q) \/ Link(q)
  <2>1. \/ Go(q, "no_output")
        \/ /\ procs[q].inv.x
           /\ \E pc \in {"assemble", "link", "rm_object"} : Go(q, pc)
    BY <1>15 DEF CloseOutput, Assemble, Link, Opened, OpenedBy, At
  <2>2. CASE Go(q, "no_output")
    BY <1>3, <1>4, <2>2
  <2>3. ASSUME procs[q].inv.x,
               NEW pc \in {"assemble", "link", "rm_object"}, Go(q, pc)
        PROVE  OpenedBy(q)'
    <3>1. procs'[q].pc = pc /\ procs'[q].inv = procs[q].inv
      BY <1>1, <2>3 DEF Go, ProcRecord
    <3>. QED
      BY <2>3, <3>1 DEF OpenedBy, At
  <2>. QED
    BY <2>1, <2>2, <2>3
<1>16. CASE \/ CopyInput(q) \/ RemoveObject(q) \/ NoOutput(q)
            \/ HandlerOutput(q) \/ Finish(q) \/ HandlerExit(q)
  <2>1. procs'[q].pc \notin Opens
    BY <1>4, <1>5, <1>16
       DEF CopyInput, RemoveObject, NoOutput, HandlerOutput, Finish,
           HandlerExit
  <2>. QED
    BY <1>3, <2>1
<1>. QED
  BY <1>6, <1>7, <1>8, <1>9, <1>10, <1>11, <1>12, <1>13, <1>14, <1>15, <1>16
     DEF Step

-----------------------------------------------------------------------------
(* Steps of a running process, and how it ends. *)

(* Only a start disturbs the records of others, and what a process was     *)
(* given stays with it.                                                    *)
LEMMA RunStep ==
  ASSUME Typed, NEW q \in Proc, Step(q), ~At(q, "start")
  PROVE  /\ Running(q)
         /\ \A r \in Proc \ {q} : procs'[r] = procs[r]
         /\ procs'[q].inv = procs[q].inv
         /\ procs'[q].input = procs[q].input
         /\ procs'[q].alone = procs[q].alone
<1>1. procs \in [Proc -> ProcRecord] /\ procs[q] \in ProcRecord
  BY DEF Typed
<1>. DEFINE Good == /\ \A r \in Proc \ {q} : procs'[r] = procs[r]
                    /\ procs'[q].inv = procs[q].inv
                    /\ procs'[q].input = procs[q].input
                    /\ procs'[q].alone = procs[q].alone
<1>2. ASSUME NEW pc, Go(q, pc)
      PROVE  Good
  BY <1>1, <1>2 DEF Go, ProcRecord
<1>3. ASSUME NEW code, ExitWith(q, code)
      PROVE  Good
  BY <1>1, <1>3 DEF ExitWith, ProcRecord
<1>4. Good
  <2>1. CASE CreateAnonymous(q)
    <3>1. CASE Go(q, "open")
      BY <1>2, <3>1
    <3>2. CASE ~Go(q, "open")
      BY <1>1, <2>1, <3>2 DEF CreateAnonymous, ProcRecord
    <3>. QED
      BY <3>1, <3>2
  <2>2. CASE OpenSource(q)
    <3>1. CASE ExitWith(q, 3)
      BY <1>3, <3>1
    <3>2. CASE ~ExitWith(q, 3)
      BY <1>1, <2>2, <3>2 DEF OpenSource, ProcRecord
    <3>. QED
      BY <3>1, <3>2
  <2>3. CASE Parse(q)
    <3>1. CASE ExitWith(q, 1)
      BY <1>3, <3>1
    <3>2. CASE ~ExitWith(q, 1)
      BY <1>1, <2>3, <3>2 DEF Parse, ProcRecord
    <3>. QED
      BY <3>1, <3>2
  <2>4. CASE OpenOutput(q)
    <3>1. CASE Go(q, "raise3")
      BY <1>2, <3>1
    <3>2. CASE ~Go(q, "raise3")
      BY <1>1, <2>4, <3>2, ZenonT(40) DEF OpenOutput, ProcRecord
    <3>. QED
      BY <3>1, <3>2
  <2>5. CASE \/ CreateTable(q) \/ Translate(q) \/ CopyInput(q)
             \/ CloseOutput(q) \/ Assemble(q) \/ Link(q) \/ RemoveObject(q)
             \/ NoOutput(q) \/ HandlerOutput(q) \/ Finish(q) \/ HandlerExit(q)
    <3>. HIDE DEF Good
    <3>. QED
      BY <1>2, <1>3, <2>5
         DEF CreateTable, Translate, Report, CopyInput, CloseOutput, Assemble,
             Link, RemoveObject, NoOutput, HandlerOutput, Finish, HandlerExit
  <2>6. ~(StartHelp(q) \/ StartAnonymous(q) \/ StartFile(q))
    BY DEF StartHelp, StartAnonymous, StartFile
  <2>. QED
    BY <2>1, <2>2, <2>3, <2>4, <2>5, <2>6 DEF Step
<1>5. Running(q)
  BY DEF Step, Running, At, Exited, StartHelp, StartAnonymous, StartFile,
         CreateAnonymous, OpenSource, Parse, OpenOutput, CreateTable,
         Translate, CopyInput, CloseOutput, Assemble, Link, RemoveObject,
         NoOutput, HandlerOutput, Finish, HandlerExit
<1>. QED
  BY <1>4, <1>5

(* The ways a process can end, and the status of each.                     *)
Ends(q) ==
  \/ StartHelp(q) /\ procs'[q].inv.h
  \/ StartFile(q) /\ procs'[q].code = 3
  \/ OpenSource(q) /\ procs'[q].code = 3
  \/ Parse(q) /\ procs'[q].code = 1
             /\ "syntax" \in OutcomesOf(data[procs[q].stdin].holds)
  \/ /\ CreateTable(q) \/ Translate(q)
     /\ procs'[q].code = 134 /\ ~Exists(SrcOf(q))
  \/ /\ Translate(q) /\ procs[q].outcome = "crash"
     /\ procs'[q].code \in Crashes
  \/ Finish(q) /\ procs'[q].code = 0
  \/ HandlerExit(q) /\ At(q, "exit2") /\ procs'[q].code = 2
  \/ HandlerExit(q) /\ At(q, "exit3") /\ procs'[q].code = 3

(* A process ends in one of the ways of Ends, with its status.             *)
LEMMA EndsHow ==
  ASSUME Typed, NEW q \in Proc, Step(q), Exited(q)'
  PROVE  Ends(q)
<1>1. procs \in [Proc -> ProcRecord] /\ procs[q] \in ProcRecord
  BY DEF Typed
<1>2. ASSUME NEW pc, Go(q, pc), pc # "exited"
      PROVE  FALSE
  BY <1>1, <1>2 DEF Go, ProcRecord, Exited
<1>3. ASSUME NEW code, ExitWith(q, code)
      PROVE  procs'[q].code = code
  BY <1>1, <1>3 DEF ExitWith, ProcRecord
<1>4. CASE StartHelp(q)
  <2>1. PICK inv \in Invocations :
          /\ inv.h
          /\ procs' = [procs EXCEPT ![q].pc = "exited", ![q].code = 0,
                                    ![q].inv = inv]
    BY <1>4 DEF StartHelp
  <2>2. procs'[q].inv = inv
    BY <1>1, <2>1 DEF ProcRecord
  <2>. QED
    BY <1>4, <2>1, <2>2 DEF Ends
<1>5. CASE StartAnonymous(q)
  BY <1>1, <1>5 DEF StartAnonymous, Begin, ProcRecord, Exited
<1>6. CASE StartFile(q)
  <2>1. PICK inv \in Invocations :
          IF Exists(inv.src)
          THEN Begin(q, [procs[q] EXCEPT !.pc = "open", !.inv = inv,
                           !.input = data[fs[inv.src]].holds])
          ELSE procs' = [procs EXCEPT ![q].pc = "exited", ![q].code = 3,
                                      ![q].inv = inv]
    BY <1>6 DEF StartFile
  <2>2. CASE Exists(inv.src)
    BY <1>1, <2>1, <2>2, ZenonT(40) DEF Begin, ProcRecord, Exited
  <2>3. CASE ~Exists(inv.src)
    <3>1. procs'[q].code = 3
      BY <1>1, <2>1, <2>3 DEF ProcRecord
    <3>. QED
      BY <1>6, <3>1 DEF Ends
  <2>. QED
    BY <2>2, <2>3
<1>7. CASE CreateAnonymous(q)
  <2>1. CASE Go(q, "open")
    BY <1>2, <2>1
  <2>2. CASE ~Go(q, "open")
    BY <1>1, <1>7, <2>2 DEF CreateAnonymous, ProcRecord, Exited
  <2>. QED
    BY <2>1, <2>2
<1>8. CASE OpenSource(q)
  <2>1. CASE ExitWith(q, 3)
    BY <1>3, <1>8, <2>1 DEF Ends
  <2>2. CASE ~ExitWith(q, 3)
    BY <1>1, <1>8, <2>2 DEF OpenSource, ProcRecord, Exited
  <2>. QED
    BY <2>1, <2>2
<1>9. CASE Parse(q)
  <2>1. PICK outcome \in OutcomesOf(data[procs[q].stdin].holds) :
          IF outcome = "syntax" THEN ExitWith(q, 1)
          ELSE procs' = [procs EXCEPT ![q].pc = "table",
                           ![q].text = data[procs[q].stdin].holds,
                           ![q].outcome = outcome]
    BY <1>9 DEF Parse
  <2>2. CASE outcome = "syntax"
    BY <1>3, <1>9, <2>1, <2>2 DEF Ends
  <2>3. CASE outcome # "syntax"
    BY <1>1, <2>1, <2>3 DEF ProcRecord, Exited
  <2>. QED
    BY <2>2, <2>3
<1>10. CASE CreateTable(q) \/ Translate(q)
  <2>1. Go(q, "raise2") \/ Go(q, "close") \/ Go(q, "output") =>
          FALSE
    BY <1>2
  <2>2. \/ ExitWith(q, 134) /\ ~Exists(SrcOf(q))
        \/ /\ Translate(q) /\ procs[q].outcome = "crash"
           /\ \E code \in Crashes : ExitWith(q, code)
    BY <1>10, <2>1 DEF CreateTable, Translate, Report, SrcOf
  <2>. QED
    BY <1>3, <1>10, <2>2 DEF Ends
<1>11. CASE OpenOutput(q)
  <2>1. CASE Go(q, "raise3")
    BY <1>2, <2>1
  <2>2. CASE ~Go(q, "raise3")
    BY <1>1, <1>11, <2>2, ZenonT(40) DEF OpenOutput, ProcRecord, Exited
  <2>. QED
    BY <2>1, <2>2
<1>12. CASE \/ CopyInput(q) \/ CloseOutput(q) \/ Assemble(q) \/ Link(q)
            \/ RemoveObject(q) \/ NoOutput(q) \/ HandlerOutput(q)
  BY <1>2, <1>12
     DEF CopyInput, CloseOutput, Assemble, Link, RemoveObject, NoOutput,
         HandlerOutput
<1>13. CASE Finish(q) \/ HandlerExit(q)
  BY <1>3, <1>13 DEF Finish, HandlerExit, Ends
<1>. QED
  BY <1>4, <1>5, <1>6, <1>7, <1>8, <1>9, <1>10, <1>11, <1>12, <1>13 DEF Step

-----------------------------------------------------------------------------
(* The inductive invariant: the copy of the input, and who is alone. *)

(* Somebody has still to remove the copy of the standard input, or failed. *)
Owes(p) ==
  /\ Anonymous(p) /\ procs[p].pc \notin {"start", "create"}
  /\ Exited(p) => procs[p].code \notin {0, 2}

CopyOwned == Exists(Anon) => \E p \in Proc : Owes(p)

(* Two that run on the same files are not alone.                           *)
RivalsKnown ==
  \A p, q \in Proc :
    p # q /\ Running(p) /\ Running(q) /\ StemOf(p) = StemOf(q)
      => ~procs[p].alone

(* Only one step brings the copy of the standard input into being.         *)
LEMMA NewCopy ==
  ASSUME NEW q \in Proc, Step(q), ~CreateAnonymous(q)
  PROVE  Anon \in DOMAIN fs' => Anon \in DOMAIN fs
<1>. DEFINE n == Anon
<1>. SUFFICES n \in DOMAIN fs' => n \in DOMAIN fs
  OBVIOUS
<1>1. \A s : /\ n # AsmName(s) /\ n # ObjectName(s) /\ n # ExeName(s)
  BY DEF AsmName, ObjectName, ExeName, Anon
<1>. HIDE DEF n
<1>2. CASE OpenOutput(q)
  <2>1. \/ fs' = fs
        \/ fs' = Extend(fs, AsmName(procs[q].inv.src), Own(q, "asm"))
    BY <1>2 DEF OpenOutput, Create
  <2>. QED
    BY <1>1, <2>1 DEF Extend
<1>3. CASE Assemble(q) \/ Link(q)
  BY <1>1, <1>3 DEF Assemble, Link, Tool, Extend, Removed
<1>4. CASE \/ RemoveObject(q) \/ NoOutput(q) \/ HandlerOutput(q) \/ Finish(q)
           \/ HandlerExit(q)
  BY <1>4 DEF RemoveObject, NoOutput, HandlerOutput, Finish, HandlerExit,
              Removed
<1>5. CASE \/ StartHelp(q) \/ StartAnonymous(q) \/ StartFile(q)
           \/ CopyInput(q) \/ OpenSource(q) \/ Parse(q) \/ CreateTable(q)
           \/ Translate(q) \/ CloseOutput(q)
  BY <1>5 DEF StartHelp, StartAnonymous, StartFile, CopyInput, OpenSource,
              Parse, CreateTable, Translate, CloseOutput
<1>. QED
  BY <1>2, <1>3, <1>4, <1>5 DEF Step

(* As long as the copy of the standard input exists, some process has      *)
(* still to remove it, or failed.                                          *)
LEMMA CopyOwnedKept ==
  ASSUME Typed, Opened, NEW q \in Proc, Step(q), CopyOwned,
         \A r \in Proc \ {q} : Kept(r)
  PROVE  CopyOwned'
<1>. SUFFICES ASSUME Anon \in DOMAIN fs'
              PROVE  \E p \in Proc : Owes(p)'
  BY DEF CopyOwned, Exists
<1>0. procs \in [Proc -> ProcRecord] /\ procs[q] \in ProcRecord
  BY DEF Typed
<1>1. CASE CreateAnonymous(q)
  <2>1. Anonymous(q)
    BY <1>1 DEF CreateAnonymous, Opened, OpenedBy
  <2>2. procs'[q].pc \in {"open", "copy"} /\ procs'[q].inv = procs[q].inv
    <3>1. CASE Go(q, "open")
      BY <1>0, <3>1 DEF Go, ProcRecord
    <3>2. CASE ~Go(q, "open")
      BY <1>0, <1>1, <3>2 DEF CreateAnonymous, ProcRecord
    <3>. QED
      BY <3>1, <3>2
  <2>3. Owes(q)'
    BY <2>1, <2>2 DEF Owes, Anonymous, Exited
  <2>. QED
    BY <2>3
<1>2. CASE ~CreateAnonymous(q)
  <2>1. Anon \in DOMAIN fs
    BY <1>2, NewCopy
  <2>2. PICK p \in Proc : Owes(p)
    BY <2>1 DEF CopyOwned, Exists
  <2>3. CASE p # q
    <3>1. /\ procs'[p].pc = procs[p].pc /\ procs'[p].inv = procs[p].inv
          /\ procs'[p].code = procs[p].code
      BY <2>3, KeptFields
    <3>2. Owes(p)'
      BY <2>2, <3>1 DEF Owes, Anonymous, Exited
    <3>. QED
      BY <3>2
  <2>4. CASE p = q
    <3>1. ~At(q, "start") /\ Anonymous(q)
      BY <2>2, <2>4 DEF Owes, At
    <3>2. procs'[q].inv = procs[q].inv
      BY <3>1, RunStep
    <3>3. procs'[q].pc \notin {"start", "create"}
      <4>1. ~StartAnonymous(q) /\ ~StartFile(q) /\ ~StartHelp(q)
        BY <3>1 DEF StartAnonymous, StartFile, StartHelp
      <4>2. ASSUME NEW pc, Go(q, pc) PROVE procs'[q].pc = pc
        BY <1>0, <4>2 DEF Go, ProcRecord
      <4>3. ASSUME NEW code, ExitWith(q, code) PROVE procs'[q].pc = "exited"
        BY <1>0, <4>3 DEF ExitWith, ProcRecord
      <4>4. CASE OpenSource(q)
        <5>1. CASE ~ExitWith(q, 3)
          BY <1>0, <4>4, <5>1 DEF OpenSource, ProcRecord
        <5>. QED
          BY <4>3, <5>1
      <4>5. CASE Parse(q)
        <5>1. CASE ~ExitWith(q, 1)
          BY <1>0, <4>5, <5>1 DEF Parse, ProcRecord
        <5>. QED
          BY <4>3, <5>1
      <4>6. CASE OpenOutput(q)
        <5>1. CASE Go(q, "raise3")
          BY <4>2, <5>1
        <5>2. CASE ~Go(q, "raise3")
          <6>1. PICK o : procs' = [procs EXCEPT ![q].pc = "translate",
                                                ![q].output = o]
            BY <4>6, <5>2 DEF OpenOutput
          <6>. QED
            BY <1>0, <6>1 DEF ProcRecord
        <5>. QED
          BY <5>1, <5>2
      <4>7. CASE \/ CopyInput(q) \/ CloseOutput(q) \/ Assemble(q) \/ Link(q)
                 \/ RemoveObject(q) \/ NoOutput(q) \/ HandlerOutput(q)
                 \/ Finish(q) \/ HandlerExit(q) \/ CreateTable(q)
                 \/ Translate(q)
        BY <4>2, <4>3, <4>7
           DEF CopyInput, CloseOutput, Assemble, Link, RemoveObject,
               NoOutput, HandlerOutput, Finish, HandlerExit, CreateTable,
               Translate, Report
      <4>. QED
        BY <1>2, <4>1, <4>4, <4>5, <4>6, <4>7 DEF Step
    <3>4. Exited(q)' => procs'[q].code \notin {0, 2}
      <4>1. SUFFICES ASSUME Exited(q)', procs'[q].code \in {0, 2}
                     PROVE  FALSE
        OBVIOUS
      <4>2. Ends(q)
        BY <4>1, EndsHow
      <4>3. Finish(q) \/ HandlerExit(q)
        BY <3>1, <4>1, <4>2 DEF Ends, StartHelp, Crashes
      <4>4. Anon \notin DOMAIN fs'
        BY <3>1, <4>3 DEF Finish, HandlerExit, Removed
      <4>. QED
        BY <4>4
    <3>5. Owes(q)'
      BY <3>1, <3>2, <3>3, <3>4 DEF Owes, Anonymous
    <3>. QED
      BY <3>5
  <2>. QED
    BY <2>3, <2>4
<1>. QED
  BY <1>1, <1>2

(* A process that starts finds its rivals and tells them.                  *)
LEMMA StartStep ==
  ASSUME Typed, NEW q \in Proc, Step(q), At(q, "start")
  PROVE  /\ UNCHANGED <<fs, data>>
         /\ \/ Exited(q)'
            \/ /\ procs'[q].alone =>
                    \A r \in Proc \ {q} :
                      Running(r) => StemOf(r) # StemOf(q)'
               /\ \A r \in Proc \ {q} :
                    Running(r) /\ StemOf(r) = StemOf(q)'
                      => ~procs'[r].alone
<1>0. procs \in [Proc -> ProcRecord] /\ procs[q] \in ProcRecord
  BY DEF Typed
<1>1. ASSUME NEW inv, NEW pc, NEW input,
             Begin(q, [procs[q] EXCEPT !.pc = pc, !.inv = inv,
                                       !.input = input])
      PROVE  /\ procs'[q].alone =>
                  \A r \in Proc \ {q} :
                    Running(r) => StemOf(r) # StemOf(q)'
             /\ \A r \in Proc \ {q} :
                  Running(r) /\ StemOf(r) = StemOf(q)'
                    => ~procs'[r].alone
  <2>. DEFINE new == [procs[q] EXCEPT !.pc = pc, !.inv = inv, !.input = input]
  <2>1. /\ procs'[q] = [new EXCEPT !.alone = Rivals(q, new.inv.src) = {}]
        /\ \A r \in Proc \ {q} : r \in Rivals(q, new.inv.src) =>
             procs'[r] = [procs[r] EXCEPT !.alone = FALSE]
    BY <1>1 DEF Begin
  <2>2. /\ new.inv = inv /\ procs'[q].inv = inv
        /\ procs'[q].alone = (Rivals(q, inv.src) = {})
    BY <1>0, <2>1 DEF ProcRecord
  <2>3. \A r \in Proc \ {q} : r \in Rivals(q, inv.src) => ~procs'[r].alone
    <3>1. SUFFICES ASSUME NEW r \in Proc \ {q}, r \in Rivals(q, inv.src)
                   PROVE  ~procs'[r].alone
      OBVIOUS
    <3>2. procs[r] \in ProcRecord
      BY <1>0
    <3>3. procs'[r] = [procs[r] EXCEPT !.alone = FALSE]
      BY <2>1, <2>2, <3>1
    <3>. QED
      BY <3>2, <3>3 DEF ProcRecord
  <2>4. StemOf(q)' = Stem(inv.src)
    BY <2>2 DEF StemOf, SrcOf
  <2>5. \A r \in Proc \ {q} :
          r \in Rivals(q, inv.src) <=>
            Running(r) /\ StemOf(r) = Stem(inv.src)
    BY DEF Rivals, StemOf, SrcOf
  <2>. QED
    BY <2>2, <2>3, <2>4, <2>5
<1>2. CASE StartHelp(q)
  <2>1. PICK inv : procs' = [procs EXCEPT ![q].pc = "exited", ![q].code = 0,
                                          ![q].inv = inv]
    BY <1>2 DEF StartHelp
  <2>2. Exited(q)'
    BY <1>0, <2>1 DEF ProcRecord, Exited
  <2>. QED
    BY <1>2, <2>2 DEF StartHelp
<1>3. CASE StartAnonymous(q)
  <2>1. PICK inv, c : Begin(q, [procs[q] EXCEPT !.pc = "create", !.inv = inv,
                                                !.input = {Text(c)}])
    BY <1>3 DEF StartAnonymous
  <2>. QED
    BY <1>1, <1>3, <2>1 DEF StartAnonymous
<1>4. CASE StartFile(q)
  <2>1. PICK inv, input :
          \/ Begin(q, [procs[q] EXCEPT !.pc = "open", !.inv = inv,
                                       !.input = input])
          \/ procs' = [procs EXCEPT ![q].pc = "exited", ![q].code = 3,
                                    ![q].inv = inv]
    BY <1>4 DEF StartFile
  <2>2. UNCHANGED <<fs, data>>
    BY <1>4 DEF StartFile
  <2>3. CASE Begin(q, [procs[q] EXCEPT !.pc = "open", !.inv = inv,
                                       !.input = input])
    BY <1>1, <2>2, <2>3
  <2>4. CASE procs' = [procs EXCEPT ![q].pc = "exited", ![q].code = 3,
                                    ![q].inv = inv]
    <3>1. Exited(q)'
      BY <1>0, <2>4 DEF ProcRecord, Exited
    <3>. QED
      BY <2>2, <3>1
  <2>. QED
    BY <2>1, <2>3, <2>4
<1>. QED
  BY <1>2, <1>3, <1>4
     DEF Step, At, CreateAnonymous, OpenSource, Parse, OpenOutput,
         CreateTable, Translate, CopyInput, CloseOutput, Assemble, Link,
         RemoveObject, NoOutput, HandlerOutput, Finish, HandlerExit

(* Two running processes that write to the same files are not taken to be  *)
(* alone.                                                                  *)
LEMMA RivalsKnownKept ==
  ASSUME Typed, NEW q \in Proc, Step(q), RivalsKnown,
         \A r \in Proc \ {q} : Kept(r)
  PROVE  RivalsKnown'
<1>1. SUFFICES ASSUME NEW p \in Proc, NEW r \in Proc, p # r,
                      Running(p)', Running(r)', procs'[p].alone,
                      StemOf(p)' = StemOf(r)'
               PROVE  FALSE
  BY DEF RivalsKnown
<1>2. ASSUME NEW s \in Proc \ {q}
      PROVE  /\ StemOf(s)' = StemOf(s)
             /\ Running(s)' => Running(s)
             /\ procs'[s].alone => procs[s].alone
  BY KeptFields DEF StemOf, SrcOf, Running, At, Exited
<1>3. CASE ~At(q, "start")
  <2>1. /\ StemOf(q)' = StemOf(q) /\ Running(q)
        /\ procs'[q].alone = procs[q].alone
    BY <1>3, RunStep DEF StemOf, SrcOf
  <2>2. \A s \in Proc : /\ StemOf(s)' = StemOf(s)
                        /\ Running(s)' => Running(s)
                        /\ procs'[s].alone => procs[s].alone
    BY <1>2, <2>1
  <2>3. Running(p) /\ Running(r) /\ StemOf(p) = StemOf(r)
    BY <1>1, <2>2
  <2>4. procs[p].alone
    BY <1>1, <2>2
  <2>. QED
    BY <1>1, <2>3, <2>4 DEF RivalsKnown
<1>4. CASE At(q, "start")
  <2>1. CASE q \notin {p, r}
    <3>1. Running(p) /\ Running(r) /\ StemOf(p) = StemOf(r)
      BY <1>1, <1>2, <2>1
    <3>2. procs[p].alone
      BY <1>1, <1>2, <2>1
    <3>. QED
      BY <1>1, <3>1, <3>2 DEF RivalsKnown
  <2>2. CASE q \in {p, r}
    <3>1. ~Exited(q)'
      BY <1>1, <2>2 DEF Running, Exited
    <3>2. /\ procs'[q].alone => \A s \in Proc \ {q} :
               Running(s) => StemOf(s) # StemOf(q)'
          /\ \A s \in Proc \ {q} :
               Running(s) /\ StemOf(s) = StemOf(q)' => ~procs'[s].alone
      BY <1>4, <3>1, StartStep
    <3>3. CASE p = q
      <4>1. Running(r) /\ StemOf(r) = StemOf(q)'
        BY <1>1, <1>2, <3>3
      <4>. QED
        BY <1>1, <3>2, <3>3, <4>1
    <3>4. CASE r = q
      <4>1. Running(p) /\ StemOf(p) = StemOf(q)'
        BY <1>1, <1>2, <3>4
      <4>. QED
        BY <1>1, <3>2, <3>4, <4>1
    <3>. QED
      BY <2>2, <3>3, <3>4
  <2>. QED
    BY <2>1, <2>2
<1>. QED
  BY <1>3, <1>4

-----------------------------------------------------------------------------
(* The inductive invariant: what a process alone with its files finds.     *)

FileIs(name, c) == Exists(name) /\ data[fs[name]].holds = c

AsmOf(p) == AsmName(SrcOf(p))
ObjectOf(p) == ObjectName(SrcOf(p))
ExeOf(p) == ExeName(SrcOf(p))

(* It was not asked for help, and the standard input is one program.       *)
GivenTo(p) ==
  /\ ~procs[p].inv.h
  /\ Anonymous(p) => \E c \in Program : procs[p].input = {Text(c)}

(* The source holds what was given until it is parsed, if it can be read.  *)
SourceAt(p) ==
  /\ At(p, "copy") => /\ FileIs(SrcOf(p), {})
                      /\ fs[SrcOf(p)] = procs[p].stdin
  /\ At(p, "open") =>
       (Exists(SrcOf(p)) /\ data[fs[SrcOf(p)]].mode
          => FileIs(SrcOf(p), procs[p].input))
  /\ At(p, "parse") => /\ FileIs(SrcOf(p), procs[p].input)
                       /\ fs[SrcOf(p)] = procs[p].stdin
  /\ procs[p].pc \in {"table", "output", "translate"} => Exists(SrcOf(p))

(* What it found out about its input is true of it.                        *)
VerdictAt(p) ==
  LET outcome == procs[p].outcome IN
  /\ procs[p].pc \notin {"create", "copy", "open", "parse"} =>
       /\ procs[p].text = procs[p].input
       /\ outcome \in OutcomesOf(procs[p].input)
  /\ At(p, "table") => outcome # "syntax"
  /\ procs[p].pc \in {"output", "translate"} =>
       outcome \notin {"syntax", "declaration"}
  /\ procs[p].pc \in {"raise2", "exit2"} => outcome \in {"declaration", "body"}
  /\ procs[p].pc \in {"close", "assemble", "link", "rm_object", "no_output",
                      "end"} => outcome \in {"valid", "warning"}

(* Its outputs are empty, or the whole code of its input, or gone.         *)
OutputAt(p) ==
  LET code == {CodeOf(procs[p].input)} IN
  /\ procs[p].pc \in {"translate", "close"} =>
       FileIs(AsmOf(p), {}) /\ fs[AsmOf(p)] = procs[p].output
  /\ procs[p].pc \in {"assemble", "link", "rm_object", "no_output"} =>
       FileIs(AsmOf(p), code)
  /\ At(p, "end") => IF procs[p].inv.n THEN ~Exists(AsmOf(p))
                     ELSE FileIs(AsmOf(p), code)
  /\ At(p, "link") /\ Exists(ObjectOf(p)) => FileIs(ObjectOf(p), code)
  /\ procs[p].pc \in {"exit2", "exit3"} => ~Exists(AsmOf(p))
  /\ Exists(ExeOf(p)) /\ fs[ExeOf(p)] = Own(p, "exe") => FileIs(ExeOf(p), code)

FilesOf(p) == GivenTo(p) /\ SourceAt(p) /\ VerdictAt(p) /\ OutputAt(p)

AloneKept == \A p \in Proc : Running(p) /\ procs[p].alone => FilesOf(p)

(* The file called n is the same after the step.                           *)
SameFile(n) ==
  /\ n \in DOMAIN fs' <=> n \in DOMAIN fs
  /\ n \in DOMAIN fs => fs'[n] = fs[n] /\ data'[fs[n]] = data[fs[n]]

(* A process whose record and four files stay the same finds the same.     *)
LEMMA Undisturbed ==
  ASSUME NEW p \in Proc, FilesOf(p), procs'[p] = procs[p],
         SameFile(SrcOf(p)), SameFile(AsmOf(p)), SameFile(ObjectOf(p)),
         SameFile(ExeOf(p))
  PROVE  FilesOf(p)'
<1>1. /\ SrcOf(p)' = SrcOf(p) /\ AsmOf(p)' = AsmOf(p)
      /\ ObjectOf(p)' = ObjectOf(p) /\ ExeOf(p)' = ExeOf(p)
  BY DEF SrcOf, AsmOf, ObjectOf, ExeOf, AsmName, ObjectName, ExeName, Stem
<1>2. GivenTo(p)' /\ VerdictAt(p)'
  BY DEF FilesOf, GivenTo, Anonymous, VerdictAt, At
<1>3. SourceAt(p)'
  BY <1>1 DEF FilesOf, SourceAt, FileIs, Exists, SameFile, At
<1>4. OutputAt(p)'
  BY <1>1 DEF FilesOf, OutputAt, FileIs, Exists, SameFile, At, Own
<1>. QED
  BY <1>2, <1>3, <1>4 DEF FilesOf

(* A step of another process does not disturb one that is alone.           *)
LEMMA AloneOthers ==
  ASSUME Typed, Linked, Opened, RivalsKnown, AloneKept,
         NEW q \in Proc, Step(q), Effect(q),
         NEW p \in Proc \ {q}, Kept(p), Running(p)', procs'[p].alone
  PROVE  FilesOf(p)'
<1>1. /\ procs'[p] = procs[p] /\ procs[p].alone
      /\ procs'[p].pc = procs[p].pc
  BY KeptFields
<1>2. Running(p)
  BY <1>1 DEF Running, At, Exited
<1>3. FilesOf(p)
  BY <1>1, <1>2 DEF AloneKept
<1>4. ASSUME UNCHANGED <<fs, data>>
      PROVE  \A n : SameFile(n)
  BY <1>4 DEF SameFile
<1>5. CASE At(q, "start")
  <2>1. UNCHANGED <<fs, data>>
    BY <1>5, StartStep
  <2>2. \A n : SameFile(n)
    BY <1>4, <2>1
  <2>. QED
    BY <1>1, <1>3, <2>2, Undisturbed
<1>6. CASE ~At(q, "start")
  <2>1. Running(q)
    BY <1>6, RunStep
  <2>2. StemOf(q) # StemOf(p)
    BY <1>1, <1>2, <2>1 DEF RivalsKnown
  <2>3. \A kind : Stem(MyName(q, kind)) = StemOf(q)
    BY DEF MyName, Stem
  <2>4. /\ Stem(SrcOf(p)) = StemOf(p) /\ Stem(AsmOf(p)) = StemOf(p)
        /\ Stem(ObjectOf(p)) = StemOf(p) /\ Stem(ExeOf(p)) = StemOf(p)
    BY DEF StemOf, AsmOf, ObjectOf, ExeOf, AsmName, ObjectName, ExeName, Stem
  <2>5. ASSUME NEW n, Stem(n) = StemOf(p) PROVE SameFile(n)
    <3>1. \A kind \in MyKinds(q) : n # MyName(q, kind)
      BY <2>2, <2>3, <2>5
    <3>. QED
      BY <3>1, Locality DEF SameFile
  <2>. QED
    BY <1>1, <1>3, <2>4, <2>5, Undisturbed
<1>. QED
  BY <1>5, <1>6

(* The names of what a process makes differ, and different names lead to   *)
(* different inodes.                                                       *)
LEMMA DistinctFiles ==
  ASSUME Linked, NEW q \in Proc, Started(q)
  PROVE  /\ AsmOf(q) # ObjectOf(q) /\ AsmOf(q) # ExeOf(q)
         /\ ObjectOf(q) # ExeOf(q)
         /\ Anon \notin {AsmOf(q), ObjectOf(q), ExeOf(q)}
         /\ \A n \in DOMAIN fs : fs[n] \in DOMAIN data
         /\ \A m, n \in DOMAIN fs : fs[m] = fs[n] => m = n
         /\ \A n \in DOMAIN fs :
              /\ fs[n] = Own(q, "asm") => n = AsmOf(q)
              /\ fs[n] = Own(q, "object") => n = ObjectOf(q)
              /\ fs[n] = Own(q, "exe") => n = ExeOf(q)
              /\ fs[n] = Own(q, "source") /\ Anonymous(q) => n = Anon
<1>1. /\ AsmOf(q) # ObjectOf(q) /\ AsmOf(q) # ExeOf(q)
      /\ ObjectOf(q) # ExeOf(q)
      /\ Anon \notin {AsmOf(q), ObjectOf(q), ExeOf(q)}
  BY DEF AsmOf, ObjectOf, ExeOf, AsmName, ObjectName, ExeName, Anon
<1>2. \A n \in DOMAIN fs : fs[n] \in DOMAIN data /\ MadeAs(fs[n], n)
  BY DEF Linked, LinkOK
<1>3. \A m, n \in DOMAIN fs : fs[m] = fs[n] => m = n
  BY <1>2, OneName
<1>4. ASSUME NEW kind \in Kinds, kind = "source" => Anonymous(q),
             NEW n \in DOMAIN fs, fs[n] = Own(q, kind)
      PROVE  n = MyName(q, kind)
  <2>1. MadeAs(Own(q, kind), MyName(q, kind))
    BY <1>4 DEF MadeAs, MadeBy
  <2>. QED
    BY <1>2, <1>4, <2>1, OneName
<1>5. /\ AsmOf(q) = MyName(q, "asm") /\ ObjectOf(q) = MyName(q, "object")
      /\ ExeOf(q) = MyName(q, "exe")
      /\ Anonymous(q) => Anon = MyName(q, "source")
  BY TheNames DEF AsmOf, ObjectOf, ExeOf
<1>6. {"asm", "object", "exe", "source"} = Kinds
  BY DEF Kinds, OutputKinds
<1>. HIDE DEF AsmOf, ObjectOf, ExeOf
<1>7. ASSUME NEW n \in DOMAIN fs
      PROVE  /\ fs[n] = Own(q, "asm") => n = AsmOf(q)
             /\ fs[n] = Own(q, "object") => n = ObjectOf(q)
             /\ fs[n] = Own(q, "exe") => n = ExeOf(q)
             /\ fs[n] = Own(q, "source") /\ Anonymous(q) => n = Anon
  BY <1>4, <1>5, <1>6
<1>. QED
  BY <1>1, <1>2, <1>3, <1>7

(* What a process alone with its files finds after a step of its own.      *)
LEMMA AloneRuns ==
  ASSUME Typed, Linked, Opened, NEW q \in Proc, Step(q), ~At(q, "start"),
         FilesOf(q), Running(q)'
  PROVE  FilesOf(q)'
<1>. DEFINE S == SrcOf(q)
            A == AsmOf(q)
            O == ObjectOf(q)
            E == ExeOf(q)
            P == procs[q]
            N == procs'[q]
<1>0. procs \in [Proc -> ProcRecord] /\ P \in ProcRecord
  BY DEF Typed
<1>1. /\ N.inv = P.inv /\ N.input = P.input /\ N.alone = P.alone
      /\ SrcOf(q)' = S /\ AsmOf(q)' = A /\ ObjectOf(q)' = O
      /\ ExeOf(q)' = E
  <2>1. N.inv = P.inv /\ N.input = P.input /\ N.alone = P.alone
    BY RunStep
  <2>. QED
    BY <2>1 DEF SrcOf, AsmOf, ObjectOf, ExeOf, AsmName, ObjectName, ExeName,
                Stem
<1>2. /\ S = P.inv.src /\ A = AsmName(P.inv.src)
      /\ O = ObjectName(P.inv.src) /\ E = ExeName(P.inv.src)
  BY DEF AsmOf, ObjectOf, ExeOf, SrcOf
<1>3. GivenTo(q)'
  BY <1>1 DEF FilesOf, GivenTo, Anonymous
<1>4. Anonymous(q) => \E c \in Program : P.input = {Text(c)}
  BY DEF FilesOf, GivenTo
<1>5. /\ A # O /\ A # E /\ O # E /\ Anon \notin {A, O, E}
      /\ \A n \in DOMAIN fs : fs[n] \in DOMAIN data
      /\ \A m, n \in DOMAIN fs : fs[m] = fs[n] => m = n
      /\ \A n \in DOMAIN fs :
           /\ fs[n] = Own(q, "asm") => n = A
           /\ fs[n] = Own(q, "object") => n = O
           /\ fs[n] = Own(q, "exe") => n = E
           /\ fs[n] = Own(q, "source") /\ Anonymous(q) => n = Anon
  BY DistinctFiles DEF Started
<1>6. N.pc # "exited" /\ N.pc # "start"
  BY DEF Running, At, Exited
<1>7. ASSUME NEW code PROVE ~ExitWith(q, code)
  BY <1>0, <1>6 DEF ExitWith, ProcRecord
<1>8. ASSUME NEW pc, Go(q, pc)
      PROVE  /\ N.pc = pc /\ N.stdin = P.stdin /\ N.output = P.output
             /\ N.text = P.text /\ N.outcome = P.outcome
  BY <1>0, <1>8 DEF Go, ProcRecord
<1>9. SourceAt(q) /\ VerdictAt(q) /\ OutputAt(q)
  BY DEF FilesOf
<1>10. /\ Own(q, "asm") # Own(q, "exe") /\ Own(q, "object") # Own(q, "exe")
       /\ Own(q, "source") # Own(q, "exe")
  BY DEF Own
<1>. SUFFICES SourceAt(q)' /\ VerdictAt(q)' /\ OutputAt(q)'
  BY <1>3 DEF FilesOf
<1>11. CASE CreateAnonymous(q)
  <2>1. Anonymous(q) /\ S = Anon
    BY <1>2, <1>11 DEF CreateAnonymous, Opened, OpenedBy, Anonymous
  <2>2. At(q, "create")
    BY <1>11 DEF CreateAnonymous
  <2>3. CASE /\ Exists(S) /\ ~data[fs[S]].mode /\ Go(q, "open")
             /\ UNCHANGED <<fs, data>>
    <3>1. VerdictAt(q)'
      BY <1>1, <1>8, <2>3 DEF VerdictAt, At
    <3>2. SourceAt(q)'
      BY <1>1, <1>8, <2>3 DEF SourceAt, FileIs, Exists, At
    <3>3. OutputAt(q)'
      BY <1>1, <1>8, <1>9, <2>3 DEF OutputAt, FileIs, Exists, At, Own
    <3>. QED
      BY <3>1, <3>2, <3>3
  <2>4. CASE /\ \E mode \in Modes : Create(S, Own(q, "source"), mode)
             /\ procs' = [procs EXCEPT ![q].pc = "copy",
                            ![q].stdin = IF Exists(S) THEN fs[S]
                                         ELSE Own(q, "source")]
    <3>1. /\ N.pc = "copy"
          /\ N.stdin = IF S \in DOMAIN fs THEN fs[S] ELSE Own(q, "source")
      BY <1>0, <2>4 DEF ProcRecord, Exists
    <3>2. PICK mode \in Modes : Create(S, Own(q, "source"), mode)
      BY <2>4
    <3>3. VerdictAt(q)'
      BY <3>1 DEF VerdictAt, At
    <3>4. SourceAt(q)'
      <4>1. S \in DOMAIN fs' /\ fs'[S] = N.stdin /\ data'[fs'[S]].holds = {}
        <5>1. CASE S \in DOMAIN fs
          <6>1. data[fs[S]] \in Contents
            BY <1>5, <5>1 DEF Typed
          <6>. QED
            BY <1>5, <3>1, <3>2, <5>1, <6>1 DEF Create, Exists, Contents
        <5>2. CASE S \notin DOMAIN fs
          BY <3>1, <3>2, <5>2 DEF Create, Exists, Extend, Inode
        <5>. QED
          BY <5>1, <5>2
      <4>. QED
        BY <1>1, <3>1, <4>1 DEF SourceAt, FileIs, Exists, At
    <3>5. OutputAt(q)'
      <4>1. ASSUME E \in DOMAIN fs', fs'[E] = Own(q, "exe")
            PROVE  /\ E \in DOMAIN fs /\ fs[E] = Own(q, "exe")
                   /\ data'[fs'[E]] = data[fs[E]]
        <5>1. CASE S \in DOMAIN fs
          BY <1>5, <2>1, <3>2, <4>1, <5>1 DEF Create, Exists
        <5>2. CASE S \notin DOMAIN fs
          <6>1. Own(q, "exe") # Own(q, "source")
            BY InodesDiffer
          <6>. QED
            BY <1>5, <3>2, <4>1, <5>2, <6>1 DEF Create, Exists, Extend
        <5>. QED
          BY <5>1, <5>2
      <4>. QED
        BY <1>1, <1>9, <3>1, <4>1 DEF OutputAt, FileIs, Exists, At, Own
    <3>. QED
      BY <3>3, <3>4, <3>5
  <2>. QED
    BY <1>11, <2>1, <2>3, <2>4 DEF CreateAnonymous
<1>12. CASE CopyInput(q)
  <2>1. Anonymous(q) /\ S = Anon
    BY <1>12 DEF CopyInput, Opened, OpenedBy, Anonymous, SrcOf
  <2>2. PICK c \in Program : P.input = {Text(c)}
    BY <1>4, <2>1
  <2>3. PICK holds \in Overwritten(data[P.stdin].holds, Text(c)) :
          data' = [data EXCEPT ![P.stdin].holds = holds]
    BY <1>12, <2>2 DEF CopyInput
  <2>4. S \in DOMAIN fs /\ data[fs[S]].holds = {} /\ fs[S] = P.stdin
    BY <1>9, <1>12 DEF CopyInput, SourceAt, FileIs, Exists
  <2>5. Go(q, "open") /\ fs' = fs
    BY <1>12 DEF CopyInput
  <2>6. data'[fs[S]].holds = {Text(c)}
    <3>1. holds = {Text(c)}
      BY <2>3, <2>4 DEF Overwritten
    <3>2. data[fs[S]] \in Contents
      BY <1>5, <2>4 DEF Typed
    <3>. QED
      BY <1>5, <2>3, <2>4, <3>1, <3>2 DEF Contents
  <2>7. SourceAt(q)'
    BY <1>1, <1>8, <2>2, <2>4, <2>5, <2>6 DEF SourceAt, FileIs, Exists, At
  <2>8. VerdictAt(q)'
    BY <1>8, <2>5 DEF VerdictAt, At
  <2>9. E \in DOMAIN fs => data'[fs[E]] = data[fs[E]]
    BY <1>5, <2>1, <2>3, <2>4
  <2>10. OutputAt(q)'
    BY <1>1, <1>8, <1>9, <2>5, <2>9 DEF OutputAt, FileIs, Exists, At, Own
  <2>. QED
    BY <2>7, <2>8, <2>10
<1>13. CASE OpenSource(q)
  <2>1. /\ Exists(S) /\ data[fs[S]].mode
        /\ procs' = [procs EXCEPT ![q].pc = "parse", ![q].stdin = fs[S]]
        /\ At(q, "open") /\ UNCHANGED <<fs, data>>
    BY <1>2, <1>7, <1>13 DEF OpenSource
  <2>2. N.pc = "parse" /\ N.stdin = fs[S]
    BY <1>0, <2>1 DEF ProcRecord
  <2>3. SourceAt(q)'
    BY <1>1, <1>9, <2>1, <2>2 DEF SourceAt, FileIs, Exists, At
  <2>4. VerdictAt(q)'
    BY <2>2 DEF VerdictAt, At
  <2>5. OutputAt(q)'
    BY <1>1, <1>9, <2>1, <2>2 DEF OutputAt, FileIs, Exists, At, Own
  <2>. QED
    BY <2>3, <2>4, <2>5
<1>14. CASE Parse(q)
  <2>1. S \in DOMAIN fs /\ fs[S] = P.stdin /\ data[P.stdin].holds = P.input
    BY <1>9, <1>14 DEF Parse, SourceAt, FileIs, Exists
  <2>2. PICK outcome \in OutcomesOf(P.input) :
          /\ outcome # "syntax"
          /\ procs' = [procs EXCEPT ![q].pc = "table", ![q].text = P.input,
                                    ![q].outcome = outcome]
    BY <1>7, <1>14, <2>1 DEF Parse
  <2>3. outcome \in OutcomesOf(P.input)
    BY <2>2
  <2>4. N.pc = "table" /\ N.text = P.input /\ N.outcome = outcome
    BY <1>0, <2>2 DEF ProcRecord
  <2>5. UNCHANGED <<fs, data>>
    BY <1>14 DEF Parse
  <2>6. SourceAt(q)'
    BY <1>1, <2>1, <2>4, <2>5 DEF SourceAt, FileIs, Exists, At
  <2>7. VerdictAt(q)'
    BY <1>1, <2>2, <2>3, <2>4 DEF VerdictAt, At
  <2>8. OutputAt(q)'
    BY <1>1, <1>9, <2>4, <2>5 DEF OutputAt, FileIs, Exists, At, Own
  <2>. QED
    BY <2>6, <2>7, <2>8
<1>15. CASE CreateTable(q)
  <2>1. /\ At(q, "table") /\ UNCHANGED <<fs, data>>
        /\ \/ P.outcome = "declaration" /\ Go(q, "raise2")
           \/ P.outcome # "declaration" /\ Go(q, "output")
    BY <1>7, <1>15 DEF CreateTable, Report
  <2>2. /\ N.text = P.text /\ N.outcome = P.outcome
        /\ \/ P.outcome = "declaration" /\ N.pc = "raise2"
           \/ P.outcome # "declaration" /\ N.pc = "output"
    BY <1>8, <2>1
  <2>3. SourceAt(q)'
    BY <1>1, <1>9, <2>1, <2>2 DEF SourceAt, FileIs, Exists, At
  <2>4. VerdictAt(q)'
    BY <1>1, <1>9, <2>1, <2>2 DEF VerdictAt, At
  <2>5. OutputAt(q)'
    BY <1>1, <1>9, <2>1, <2>2 DEF OutputAt, FileIs, Exists, At, Own
  <2>. QED
    BY <2>3, <2>4, <2>5
<1>16. CASE OpenOutput(q)
  <2>1. CASE Go(q, "raise3") /\ UNCHANGED <<fs, data>>
    <3>1. SourceAt(q)'
      BY <1>1, <1>8, <2>1 DEF SourceAt, At
    <3>2. VerdictAt(q)'
      BY <1>1, <1>8, <1>9, <1>16, <2>1 DEF OpenOutput, VerdictAt, At
    <3>3. OutputAt(q)'
      BY <1>1, <1>8, <1>9, <2>1 DEF OutputAt, FileIs, Exists, At, Own
    <3>. QED
      BY <3>1, <3>2, <3>3
  <2>2. CASE /\ Create(A, Own(q, "asm"), TRUE)
             /\ procs' = [procs EXCEPT ![q].pc = "translate",
                            ![q].output = IF Exists(A) THEN fs[A]
                                          ELSE Own(q, "asm")]
    <3>1. /\ N.pc = "translate" /\ N.text = P.text /\ N.outcome = P.outcome
          /\ N.output = IF A \in DOMAIN fs THEN fs[A] ELSE Own(q, "asm")
      BY <1>0, <2>2 DEF ProcRecord, Exists
    <3>2. At(q, "output")
      BY <1>16 DEF OpenOutput
    <3>3. VerdictAt(q)'
      BY <1>1, <1>9, <3>1, <3>2 DEF VerdictAt, At
    <3>4. S \in DOMAIN fs'
      BY <1>9, <2>2, <3>2 DEF SourceAt, At, Create, Exists, Extend
    <3>5. SourceAt(q)'
      BY <1>1, <3>1, <3>4 DEF SourceAt, Exists, At
    <3>6. A \in DOMAIN fs' /\ fs'[A] = N.output /\ data'[fs'[A]].holds = {}
      <4>1. CASE A \in DOMAIN fs
        <5>1. data[fs[A]] \in Contents
          BY <1>5, <4>1 DEF Typed
        <5>. QED
          BY <1>5, <2>2, <3>1, <4>1, <5>1 DEF Create, Exists, Contents
      <4>2. CASE A \notin DOMAIN fs
        BY <2>2, <3>1, <4>2 DEF Create, Exists, Extend, Inode
      <4>. QED
        BY <4>1, <4>2
    <3>7. ASSUME E \in DOMAIN fs', fs'[E] = Own(q, "exe")
          PROVE  /\ E \in DOMAIN fs /\ fs[E] = Own(q, "exe")
                 /\ data'[fs'[E]] = data[fs[E]]
      <4>1. CASE A \in DOMAIN fs
        BY <1>5, <1>10, <2>2, <3>7, <4>1 DEF Create, Exists
      <4>2. CASE A \notin DOMAIN fs
        <5>1. /\ fs' = Extend(fs, A, Own(q, "asm"))
              /\ data' = Extend(data, Own(q, "asm"), Inode({}, TRUE))
          BY <2>2, <4>2 DEF Create, Exists
        <5>2. E # A
          BY <1>5
        <5>3. E \in DOMAIN fs /\ fs'[E] = fs[E]
          BY <3>7, <5>1, <5>2 DEF Extend
        <5>4. fs[E] \in DOMAIN data /\ fs[E] # Own(q, "asm")
          BY <1>5, <1>10, <3>7, <5>3
        <5>. QED
          BY <3>7, <5>1, <5>3, <5>4 DEF Extend
      <4>. QED
        BY <4>1, <4>2
    <3>8. OutputAt(q)'
      BY <1>1, <1>9, <3>1, <3>6, <3>7 DEF OutputAt, FileIs, Exists, At, Own
    <3>. QED
      BY <3>3, <3>5, <3>8
  <2>. QED
    BY <1>2, <1>16, <2>1, <2>2 DEF OpenOutput
<1>17. CASE Translate(q)
  <2>1. /\ At(q, "translate") /\ UNCHANGED <<fs, data>>
        /\ \/ P.outcome = "body" /\ Go(q, "raise2")
           \/ P.outcome \notin {"body", "crash"} /\ Go(q, "close")
    BY <1>7, <1>17 DEF Translate, Report
  <2>2. /\ N.text = P.text /\ N.outcome = P.outcome /\ N.output = P.output
        /\ \/ P.outcome = "body" /\ N.pc = "raise2"
           \/ P.outcome \notin {"body", "crash"} /\ N.pc = "close"
    BY <1>8, <2>1
  <2>3. SourceAt(q)'
    BY <2>2 DEF SourceAt, At
  <2>4. P.outcome \in Outcomes
    BY <1>0 DEF ProcRecord
  <2>5. VerdictAt(q)'
    BY <1>1, <1>9, <2>1, <2>2, <2>4 DEF VerdictAt, At, Outcomes
  <2>6. OutputAt(q)'
    BY <1>1, <1>9, <2>1, <2>2 DEF OutputAt, FileIs, Exists, At, Own
  <2>. QED
    BY <2>3, <2>5, <2>6
<1>18. CASE CloseOutput(q)
  <2>1. PICK holds \in Overwritten(data[P.output].holds, CodeOf(P.text)) :
          data' = [data EXCEPT ![P.output].holds = holds]
    BY <1>18 DEF CloseOutput
  <2>2. /\ A \in DOMAIN fs /\ data[fs[A]].holds = {} /\ fs[A] = P.output
        /\ P.text = P.input
    BY <1>9, <1>18 DEF CloseOutput, OutputAt, VerdictAt, FileIs, Exists, At
  <2>3. holds = {CodeOf(P.input)}
    BY <2>1, <2>2 DEF Overwritten
  <2>4. /\ fs' = fs
        /\ Go(q, "assemble") \/ Go(q, "no_output")
    BY <1>18 DEF CloseOutput
  <2>5. N.pc \in {"assemble", "no_output"} /\ N.text = P.text
        /\ N.outcome = P.outcome
    BY <1>8, <2>4
  <2>6. data[fs[A]] \in Contents
    BY <1>5, <2>2 DEF Typed
  <2>7. data'[fs[A]].holds = {CodeOf(P.input)}
    BY <1>5, <2>1, <2>2, <2>3, <2>6 DEF Contents
  <2>8. SourceAt(q)'
    BY <2>5 DEF SourceAt, At
  <2>9. VerdictAt(q)'
    BY <1>1, <1>9, <1>18, <2>5 DEF CloseOutput, VerdictAt, At
  <2>10. E \in DOMAIN fs => data'[fs[E]] = data[fs[E]]
    BY <1>5, <1>10, <2>1, <2>2
  <2>11. OutputAt(q)'
    BY <1>1, <1>9, <2>2, <2>4, <2>5, <2>7, <2>10
       DEF OutputAt, FileIs, Exists, At, Own
  <2>. QED
    BY <2>8, <2>9, <2>11
<1>19. CASE Assemble(q)
  <2>1. A \in DOMAIN fs /\ data[fs[A]].holds = {CodeOf(P.input)}
    BY <1>9, <1>19 DEF Assemble, OutputAt, FileIs, Exists, At
  <2>2. N.pc = "link" /\ N.text = P.text /\ N.outcome = P.outcome
    BY <1>8, <1>19 DEF Assemble
  <2>3. SourceAt(q)'
    BY <2>2 DEF SourceAt, At
  <2>4. VerdictAt(q)'
    BY <1>1, <1>9, <1>19, <2>2 DEF Assemble, VerdictAt, At
  <2>5. CASE Tool(A, O, Own(q, "object"))
    <3>1. /\ data' = Extend(data, Own(q, "object"),
                            Inode(data[fs[A]].holds, TRUE))
          /\ fs' = Extend(fs, O, Own(q, "object"))
      BY <2>5 DEF Tool
    <3>2. A \in DOMAIN fs' /\ data'[fs'[A]].holds = {CodeOf(P.input)}
      BY <1>5, <1>10, <2>1, <3>1 DEF Extend
    <3>3. O \in DOMAIN fs' /\ data'[fs'[O]].holds = {CodeOf(P.input)}
      BY <2>1, <3>1 DEF Extend, Inode
    <3>4. E \in DOMAIN fs' => /\ E \in DOMAIN fs /\ fs'[E] = fs[E]
                             /\ data'[fs'[E]] = data[fs[E]]
      BY <1>5, <1>10, <3>1 DEF Extend
    <3>. QED
      BY <1>1, <1>9, <2>2, <2>3, <2>4, <3>2, <3>3, <3>4
         DEF OutputAt, FileIs, Exists, At, Own
  <2>6. CASE fs' = Removed(fs, O) /\ UNCHANGED data
    <3>1. /\ O \notin DOMAIN fs'
          /\ A \in DOMAIN fs' /\ fs'[A] = fs[A]
          /\ E \in DOMAIN fs' => E \in DOMAIN fs /\ fs'[E] = fs[E]
      BY <1>5, <2>1, <2>6 DEF Removed
    <3>. QED
      BY <1>1, <1>9, <2>1, <2>2, <2>3, <2>4, <2>6, <3>1
         DEF OutputAt, FileIs, Exists, At, Own
  <2>. QED
    BY <1>2, <1>19, <2>5, <2>6 DEF Assemble
<1>20. CASE Link(q)
  <2>1. /\ A \in DOMAIN fs /\ data[fs[A]].holds = {CodeOf(P.input)}
        /\ O \in DOMAIN fs => data[fs[O]].holds = {CodeOf(P.input)}
    BY <1>9, <1>20 DEF Link, OutputAt, FileIs, Exists, At
  <2>2. N.pc = "rm_object" /\ N.text = P.text /\ N.outcome = P.outcome
    BY <1>8, <1>20 DEF Link
  <2>3. SourceAt(q)'
    BY <2>2 DEF SourceAt, At
  <2>4. VerdictAt(q)'
    BY <1>1, <1>9, <1>20, <2>2 DEF Link, VerdictAt, At
  <2>5. CASE Tool(O, E, Own(q, "exe"))
    <3>1. /\ data' = Extend(data, Own(q, "exe"),
                            Inode(data[fs[O]].holds, TRUE))
          /\ fs' = Extend(fs, E, Own(q, "exe")) /\ O \in DOMAIN fs
      BY <2>5 DEF Tool, Exists
    <3>2. A \in DOMAIN fs' /\ data'[fs'[A]].holds = {CodeOf(P.input)}
      BY <1>5, <1>10, <2>1, <3>1 DEF Extend
    <3>3. data'[fs'[E]].holds = {CodeOf(P.input)}
      BY <2>1, <3>1 DEF Extend, Inode
    <3>. QED
      BY <1>1, <2>2, <2>3, <2>4, <3>2, <3>3
         DEF OutputAt, FileIs, Exists, At
  <2>6. CASE UNCHANGED <<fs, data>>
    BY <1>1, <1>9, <2>1, <2>2, <2>3, <2>4, <2>6
       DEF OutputAt, FileIs, Exists, At, Own
  <2>. QED
    BY <1>2, <1>20, <2>5, <2>6 DEF Link
<1>21. CASE RemoveObject(q)
  <2>1. A \in DOMAIN fs /\ data[fs[A]].holds = {CodeOf(P.input)}
    BY <1>9, <1>21 DEF RemoveObject, OutputAt, FileIs, Exists, At
  <2>2. N.pc = "no_output" /\ N.text = P.text /\ N.outcome = P.outcome
    BY <1>8, <1>21 DEF RemoveObject
  <2>3. SourceAt(q)'
    BY <2>2 DEF SourceAt, At
  <2>4. VerdictAt(q)'
    BY <1>1, <1>9, <1>21, <2>2 DEF RemoveObject, VerdictAt, At
  <2>5. fs' = Removed(fs, O) /\ data' = data
    BY <1>2, <1>21 DEF RemoveObject
  <2>6. /\ A \in DOMAIN fs' /\ fs'[A] = fs[A]
        /\ E \in DOMAIN fs' => E \in DOMAIN fs /\ fs'[E] = fs[E]
    BY <1>5, <2>1, <2>5 DEF Removed
  <2>. QED
    BY <1>1, <1>9, <2>1, <2>2, <2>3, <2>4, <2>5, <2>6
       DEF OutputAt, FileIs, Exists, At, Own
<1>22. CASE NoOutput(q)
  <2>1. A \in DOMAIN fs /\ data[fs[A]].holds = {CodeOf(P.input)}
    BY <1>9, <1>22 DEF NoOutput, OutputAt, FileIs, Exists, At
  <2>2. N.pc = "end" /\ N.text = P.text /\ N.outcome = P.outcome
    BY <1>8, <1>22 DEF NoOutput
  <2>3. SourceAt(q)'
    BY <2>2 DEF SourceAt, At
  <2>4. VerdictAt(q)'
    BY <1>1, <1>9, <1>22, <2>2 DEF NoOutput, VerdictAt, At
  <2>5. fs' = (IF P.inv.n THEN Removed(fs, A) ELSE fs) /\ data' = data
    BY <1>2, <1>22 DEF NoOutput
  <2>6. /\ IF P.inv.n THEN A \notin DOMAIN fs' ELSE fs' = fs
        /\ E \in DOMAIN fs' => E \in DOMAIN fs /\ fs'[E] = fs[E]
    BY <1>5, <2>5 DEF Removed
  <2>. QED
    BY <1>1, <1>9, <2>1, <2>2, <2>3, <2>4, <2>5, <2>6
       DEF OutputAt, FileIs, Exists, At, Own
<1>23. CASE HandlerOutput(q)
  <2>1. /\ N.text = P.text /\ N.outcome = P.outcome
        /\ \/ At(q, "raise2") /\ N.pc = "exit2"
           \/ At(q, "raise3") /\ N.pc = "exit3"
    BY <1>8, <1>23 DEF HandlerOutput
  <2>2. SourceAt(q)'
    BY <2>1 DEF SourceAt, At
  <2>3. VerdictAt(q)'
    BY <1>1, <1>9, <2>1 DEF VerdictAt, At
  <2>4. fs' = Removed(fs, A) /\ data' = data
    BY <1>2, <1>23 DEF HandlerOutput
  <2>5. /\ A \notin DOMAIN fs'
        /\ E \in DOMAIN fs' => E \in DOMAIN fs /\ fs'[E] = fs[E]
    BY <1>5, <2>4 DEF Removed
  <2>. QED
    BY <1>1, <1>9, <2>1, <2>2, <2>3, <2>4, <2>5
       DEF OutputAt, FileIs, Exists, At, Own
<1>24. ~StartHelp(q) /\ ~StartAnonymous(q) /\ ~StartFile(q)
  BY DEF StartHelp, StartAnonymous, StartFile
<1>25. ~Finish(q) /\ ~HandlerExit(q)
  BY <1>7 DEF Finish, HandlerExit
<1>. QED
  BY <1>11, <1>12, <1>13, <1>14, <1>15, <1>16, <1>17, <1>18, <1>19, <1>20,
     <1>21, <1>22, <1>23, <1>24, <1>25 DEF Step

(* A process that starts alone finds the input it was given, and none of   *)
(* its own outputs.                                                        *)
LEMMA AloneStarts ==
  ASSUME Typed, Linked, NEW q \in Proc, Step(q),
         At(q, "start"), Running(q)'
  PROVE  FilesOf(q)'
<1>0. procs \in [Proc -> ProcRecord] /\ procs[q] \in ProcRecord
  BY DEF Typed
<1>1. UNCHANGED <<fs, data>>
  BY StartStep
<1>2. ASSUME NEW inv \in Commands, NEW pc \in Steps, NEW input \in SUBSET Items,
             Begin(q, [procs[q] EXCEPT !.pc = pc, !.inv = inv,
                                       !.input = input])
      PROVE  /\ procs'[q].pc = pc /\ procs'[q].inv = inv
             /\ procs'[q].input = input
  <2>. DEFINE new == [procs[q] EXCEPT !.pc = pc, !.inv = inv, !.input = input]
  <2>1. procs'[q] = [new EXCEPT !.alone = Rivals(q, new.inv.src) = {}]
    BY <1>2 DEF Begin
  <2>2. new \in ProcRecord /\ new.pc = pc /\ new.inv = inv /\ new.input = input
    BY <1>0 DEF ProcRecord
  <2>. HIDE DEF new
  <2>. QED
    BY <2>1, <2>2 DEF ProcRecord
<1>3. ~(ExeOf(q)' \in DOMAIN fs /\ fs[ExeOf(q)'] = Own(q, "exe"))
  <2>1. SUFFICES ASSUME NEW n \in DOMAIN fs, n = ExeOf(q)',
                        fs[n] = Own(q, "exe")
                 PROVE  FALSE
    OBVIOUS
  <2>2. Started(q)
    BY <2>1, MakerStarted
  <2>. QED
    BY <2>2 DEF Started
<1>4. procs'[q].pc \in {"create", "open"} => VerdictAt(q)' /\ OutputAt(q)'
  <2>1. ASSUME procs'[q].pc \in {"create", "open"}
        PROVE  VerdictAt(q)'
    BY <2>1 DEF VerdictAt, At
  <2>2. ASSUME procs'[q].pc \in {"create", "open"}
        PROVE  OutputAt(q)'
    BY <1>1, <1>3, <2>2 DEF OutputAt, At, Exists, Own
  <2>. QED
    BY <2>1, <2>2
<1>5. CASE StartHelp(q)
  BY <1>0, <1>5 DEF StartHelp, ProcRecord, Running, Exited
<1>6. CASE StartAnonymous(q)
  <2>1. PICK inv \in Invocations, c \in Program :
          /\ ~inv.h
          /\ Begin(q, [procs[q] EXCEPT !.pc = "create", !.inv = inv,
                                       !.input = {Text(c)}])
    BY <1>6 DEF StartAnonymous
  <2>2. inv \in Commands /\ "create" \in Steps /\ {Text(c)} \in SUBSET Items
    BY InvocationAssumption DEF Commands, Steps, Items
  <2>3. /\ procs'[q].pc = "create" /\ procs'[q].inv = inv
        /\ procs'[q].input = {Text(c)}
    BY <1>2, <2>1, <2>2
  <2>4. GivenTo(q)'
    BY <2>1, <2>3 DEF GivenTo
  <2>5. SourceAt(q)'
    BY <2>3 DEF SourceAt, At
  <2>. QED
    BY <1>4, <2>3, <2>4, <2>5 DEF FilesOf
<1>7. CASE StartFile(q)
  <2>1. PICK inv \in Invocations :
          LET name == inv.src IN
          /\ ~inv.h /\ inv.src # Anon
          /\ IF Exists(name)
             THEN Begin(q, [procs[q] EXCEPT !.pc = "open", !.inv = inv,
                              !.input = data[fs[name]].holds])
             ELSE procs' = [procs EXCEPT ![q].pc = "exited", ![q].code = 3,
                                         ![q].inv = inv]
    BY <1>7 DEF StartFile
  <2>. DEFINE n == inv.src
  <2>2. inv \in Commands /\ "open" \in Steps /\ inv.src \in Source
    BY <2>1, InvocationAssumption DEF Commands, Steps
  <2>3. Exists(n)
    BY <1>0, <2>1 DEF ProcRecord, Running, Exited
  <2>4. data[fs[n]].holds \in SUBSET Items
    BY <2>3, LinkedTo DEF Typed, Contents
  <2>6. /\ procs'[q].pc = "open" /\ procs'[q].inv = inv
        /\ procs'[q].input = data[fs[n]].holds
    BY <1>2, <2>1, <2>2, <2>3, <2>4
  <2>7. GivenTo(q)'
    BY <2>1, <2>6 DEF GivenTo, Anonymous
  <2>8. SrcOf(q)' = n
    BY <2>6 DEF SrcOf
  <2>9. SourceAt(q)'
    BY <1>1, <2>3, <2>6, <2>8 DEF SourceAt, At, FileIs, Exists
  <2>. QED
    BY <1>4, <2>6, <2>7, <2>9 DEF FilesOf
<1>. QED
  BY <1>5, <1>6, <1>7
     DEF Step, At, CreateAnonymous, OpenSource, Parse, OpenOutput,
         CreateTable, Translate, CopyInput, CloseOutput, Assemble, Link,
         RemoveObject, NoOutput, HandlerOutput, Finish, HandlerExit

(* What a process that runs alone has read and written stays as it left    *)
(* it.                                                                     *)
LEMMA AloneKeptKept ==
  ASSUME Typed, Linked, Opened, RivalsKnown, AloneKept,
         NEW q \in Proc, Step(q), Effect(q), \A r \in Proc \ {q} : Kept(r)
  PROVE  AloneKept'
<1>1. SUFFICES ASSUME NEW p \in Proc, Running(p)', procs'[p].alone
               PROVE  FilesOf(p)'
  BY DEF AloneKept
<1>2. CASE p # q
  BY <1>1, <1>2, AloneOthers
<1>3. CASE p = q /\ At(q, "start")
  BY <1>1, <1>3, AloneStarts
<1>4. CASE p = q /\ ~At(q, "start")
  <2>1. Running(q) /\ procs[q].alone
    BY <1>1, <1>4, RunStep
  <2>2. FilesOf(q)
    BY <2>1 DEF AloneKept
  <2>. QED
    BY <1>1, <1>4, <2>2, AloneRuns
<1>. QED
  BY <1>2, <1>3, <1>4

-----------------------------------------------------------------------------
(* The inductive invariant. *)

IInv ==
  /\ Typed
  /\ Linked
  /\ Opened
  /\ CopyOwned
  /\ RivalsKnown
  /\ AloneKept

(* No process has started, and the directory holds nothing but sources.    *)
LEMMA InitInvariant == Init => IInv
<1>. SUFFICES ASSUME Init PROVE IInv
  OBVIOUS
<1>1. PICK present \in SUBSET Source :
        \E text \in [present -> Program] :
          /\ fs = [s \in present |-> Given(s)]
          /\ data = [i \in {Given(s) : s \in present} |->
                       Inode({Text(text[i[2]])}, TRUE)]
  BY DEF Init
<1>2. PICK text \in [present -> Program] :
        /\ fs = [s \in present |-> Given(s)]
        /\ data = [i \in {Given(s) : s \in present} |->
                     Inode({Text(text[i[2]])}, TRUE)]
  BY <1>1
<1>3. \A s \in present : /\ data[Given(s)] = Inode({Text(text[s])}, TRUE)
                         /\ fs[s] = Given(s) /\ text[s] \in Program
  BY <1>2 DEF Given
<1>4. DOMAIN fs = present /\ DOMAIN data = {Given(s) : s \in present}
  BY <1>2
<1>5. procs = [p \in Proc |->
         [pc |-> "start", inv |-> [src |-> Anon, n |-> FALSE, x |-> FALSE,
                                   h |-> FALSE],
          input |-> {}, stdin |-> NoInode, output |-> NoInode, text |-> {},
          outcome |-> "valid", code |-> -1, alone |-> TRUE]]
  BY DEF Init
<1>6. \A p \in Proc : procs[p].pc = "start"
  BY <1>5
<1>7. Typed
  <2>1. procs \in [Proc -> ProcRecord]
    BY <1>5 DEF ProcRecord, Steps, Commands, Outcomes
  <2>2. DOMAIN data \subseteq Inodes
    BY <1>4 DEF Inodes
  <2>3. data \in [DOMAIN data -> Contents]
    <3>1. \A s \in present : data[Given(s)] \in Contents
      <4>1. SUFFICES ASSUME NEW s \in present PROVE data[Given(s)] \in Contents
        OBVIOUS
      <4>2. {Text(text[s])} \in SUBSET Items
        BY <1>3 DEF Items
      <4>3. data[Given(s)] = [holds |-> {Text(text[s])}, mode |-> TRUE]
        BY <1>3 DEF Inode
      <4>. QED
        BY <4>2, <4>3 DEF Contents
    <3>2. data = [i \in DOMAIN data |-> data[i]]
      BY <1>2
    <3>. QED
      BY <1>4, <3>1, <3>2
  <2>. QED
    BY <2>1, <2>2, <2>3 DEF Typed
<1>8. Linked
  BY <1>3, <1>4 DEF Linked, LinkOK, MadeAs, GivenAs
<1>9. Opened
  BY <1>6 DEF Opened, OpenedBy, At
<1>11. CopyOwned
  <2>1. Anon \notin DOMAIN fs
    BY <1>4, SourceAssumption
  <2>. QED
    BY <2>1 DEF CopyOwned, Exists
<1>12. RivalsKnown /\ AloneKept
  BY <1>6 DEF RivalsKnown, AloneKept, Running, At
<1>. QED
  BY <1>7, <1>8, <1>9, <1>11, <1>12 DEF IInv

(* A step of one process keeps every part of the invariant.                *)
LEMMA StepInvariant ==
  ASSUME IInv, NEW q \in Proc, Step(q)
  PROVE  /\ IInv' /\ Effect(q)
         /\ \A r \in Proc \ {q} : Kept(r)
         /\ \A r \in Proc : SameCommand(r)
<1>1. Typed /\ Linked /\ Opened /\ CopyOwned /\ RivalsKnown /\ AloneKept
  BY DEF IInv
<1>2. Effect(q)
  BY <1>1, StepEffect
<1>3. /\ procs' \in [Proc -> ProcRecord]
      /\ \A r \in Proc \ {q} : Kept(r)
      /\ SameCommand(q)
  BY <1>1, ProcsTyped
<1>4. \A r \in Proc : SameCommand(r)
  <2>1. \A r \in Proc \ {q} : SameCommand(r)
    BY <1>1, <1>3, KeptFields
  <2>. QED
    BY <1>3, <2>1
<1>5. Typed'
  <2>1. DOMAIN data' \subseteq Inodes /\ data' \in [DOMAIN data' -> Contents]
    BY <1>1, <1>2, DataTyped
  <2>. QED
    BY <1>3, <2>1 DEF Typed
<1>6. Linked'
  BY <1>1, <1>2, <1>4, LinkedKept
<1>7. Opened'
  <2>1. \A r \in Proc \ {q} : OpenedBy(r)'
    BY <1>1, <1>2, <1>3, <1>4, OpenedOthers
  <2>2. OpenedBy(q)'
    BY <1>1, <1>2, <1>4, OpenedOwn
  <2>. QED
    BY <2>1, <2>2 DEF Opened
<1>9. CopyOwned'
  BY <1>1, <1>3, CopyOwnedKept
<1>10. RivalsKnown'
  BY <1>1, <1>3, RivalsKnownKept
<1>11. AloneKept'
  BY <1>1, <1>2, <1>3, AloneKeptKept
<1>. QED
  BY <1>2, <1>3, <1>4, <1>5, <1>6, <1>7, <1>9, <1>10, <1>11 DEF IInv

(* Every reachable state satisfies the inductive invariant: names lead to  *)
(* inodes made for that very name, a process that writes has such a file   *)
(* open, and one that is alone with its files finds there what it left.    *)
THEOREM Invariance == Spec => []IInv
<1>1. Init => IInv
  BY InitInvariant
<1>2. IInv /\ [Next]_vars => IInv'
  <2>1. ASSUME IInv, Next PROVE IInv'
    BY <2>1, StepInvariant DEF Next
  <2>2. ASSUME IInv, UNCHANGED vars PROVE IInv'
    <3>1. Typed' /\ Linked'
      BY <2>2 DEF IInv, vars, Typed, Linked, LinkOK, MadeAs, GivenAs, MadeBy,
                  Started, At, Anonymous, MyName, StemOf, SrcOf
    <3>2. Opened'
      BY <2>2 DEF IInv, vars, Opened, OpenedBy, MadeAs, GivenAs, MadeBy,
                  Started, At, Anonymous, MyName, StemOf, SrcOf
    <3>3. CopyOwned' /\ RivalsKnown'
      BY <2>2 DEF IInv, vars, CopyOwned, RivalsKnown, Exists, Owes,
                  Anonymous, Running, Exited, At, StemOf, SrcOf
    <3>4. AloneKept'
      <4>1. \A n : SameFile(n)
        BY <2>2 DEF vars, SameFile
      <4>2. SUFFICES ASSUME NEW p \in Proc, Running(p)', procs'[p].alone
                     PROVE  FilesOf(p)'
        BY DEF AloneKept
      <4>3. procs'[p] = procs[p] /\ Running(p) /\ procs[p].alone
        BY <2>2, <4>2 DEF vars, Running, At, Exited
      <4>4. FilesOf(p)
        BY <2>2, <4>3 DEF IInv, AloneKept
      <4>. QED
        BY <4>1, <4>3, <4>4, Undisturbed
    <3>. QED
      BY <3>1, <3>2, <3>3, <3>4 DEF IInv
  <2>. QED
    BY <2>1, <2>2
<1>. QED
  BY <1>1, <1>2, PTL DEF Spec

-----------------------------------------------------------------------------
(* What the runs check. *)

(* A source that no running process has among its outputs is never written *)
(* nor removed, by any number of processes: a process writes to its        *)
(* outputs and to the copy of the standard input only, and an inode        *)
(* belongs to one name.                                                    *)
THEOREM SourcesSafe == Spec => SourcesKept
<1>1. IInv /\ [Next]_vars =>
        \A s \in Source :
          Exists(s) /\ (\A p \in Proc : Running(p) => s \notin OutputNames(p)) =>
            /\ s \in DOMAIN fs'
            /\ fs'[s] = fs[s]
            /\ data'[fs[s]] = data[fs[s]]
  <2>1. SUFFICES ASSUME IInv, [Next]_vars, NEW s \in Source, Exists(s),
                        \A p \in Proc : Running(p) => s \notin OutputNames(p)
                 PROVE  /\ s \in DOMAIN fs'
                        /\ fs'[s] = fs[s]
                        /\ data'[fs[s]] = data[fs[s]]
    OBVIOUS
  <2>2. CASE Next
    <3>1. PICK q \in Proc : Step(q)
      BY <2>2 DEF Next
    <3>2. Linked /\ Effect(q)
      BY <2>1, <3>1, StepInvariant DEF IInv
    <3>3. CASE UNCHANGED <<fs, data>>
      BY <2>1, <3>3 DEF Exists
    <3>4. CASE Running(q)
      <4>1. s \notin OutputNames(q)
        BY <2>1, <3>4
      <4>2. s # Anon
        BY SourceAssumption
      <4>3. ASSUME NEW kind \in MyKinds(q) PROVE s # MyName(q, kind)
        <5>1. CASE kind = "source"
          BY <4>2, <5>1, TheNames DEF MyKinds
        <5>2. CASE kind # "source"
          <6>1. kind \in {"asm", "object", "exe"}
            BY <5>2 DEF MyKinds, Kinds, OutputKinds
          <6>2. kind \in {"object", "exe"} => procs[q].inv.x
            BY DEF MyKinds
          <6>3. /\ MyName(q, "asm") \in OutputNames(q)
                /\ procs[q].inv.x => /\ MyName(q, "object") \in OutputNames(q)
                                     /\ MyName(q, "exe") \in OutputNames(q)
            BY TheNames DEF OutputNames, SrcOf
          <6>. QED
            BY <4>1, <6>1, <6>2, <6>3
        <5>. QED
          BY <5>1, <5>2
      <4>. QED
        BY <2>1, <3>2, <4>3, Locality DEF Exists
    <3>. QED
      BY <3>2, <3>3, <3>4 DEF Effect
  <2>3. CASE UNCHANGED vars
    BY <2>1, <2>3 DEF vars, Exists
  <2>. QED
    BY <2>1, <2>2, <2>3
<1>. QED
  BY <1>1, Invariance, PTL DEF Spec, SourcesKept

(* Once every process has ended with a program compiled or a semantic      *)
(* error, the copy of the standard input is gone, however many processes   *)
(* shared it: the last one to create it still owes its removal.            *)
THEOREM CopyGone == Spec => []AnonymousGone
<1>1. IInv => AnonymousGone
  <2>1. SUFFICES ASSUME IInv, NEW p \in Proc, Owes(p),
                        \A r \in Proc : Exited(r) /\ procs[r].code \in {0, 2}
                 PROVE  FALSE
    BY DEF IInv, CopyOwned, AnonymousGone
  <2>. QED
    BY <2>1 DEF Owes
<1>. QED
  BY <1>1, Invariance, PTL

(* The step with which a process that was alone ends is its own, and it    *)
(* found its files as it left them.                                        *)
LEMMA LastStep ==
  ASSUME IInv, [Next]_vars, NEW p \in Proc, EndsAlone(p)
  PROVE  /\ Step(p) /\ Ends(p)
         /\ \/ StartFile(p) /\ Status(p) = 3
            \/ /\ Running(p) /\ FilesOf(p) /\ GivenTo(p)
               /\ procs'[p].inv = procs[p].inv
               /\ procs'[p].input = procs[p].input
<1>1. PICK q \in Proc : Step(q)
  BY DEF EndsAlone, vars, Exited, Next
<1>2. Typed /\ AloneKept
  BY DEF IInv
<1>3. p = q
  <2>1. SUFFICES ASSUME p # q PROVE FALSE
    OBVIOUS
  <2>2. Kept(p)
    BY <1>1, <2>1, StepInvariant
  <2>3. procs'[p].pc = procs[p].pc
    BY <1>2, <2>2, KeptFields
  <2>. QED
    BY <2>3 DEF EndsAlone, Exited
<1>4. Step(p) /\ Ends(p)
  BY <1>1, <1>2, <1>3, EndsHow DEF EndsAlone
<1>5. CASE At(p, "start")
  BY <1>4, <1>5 DEF Ends, EndsAlone, Status, OpenSource, Parse, CreateTable,
                    Translate, Finish, HandlerExit, At
<1>6. CASE ~At(p, "start")
  <2>1. /\ Running(p) /\ procs'[p].alone = procs[p].alone
        /\ procs'[p].inv = procs[p].inv /\ procs'[p].input = procs[p].input
    BY <1>2, <1>4, <1>6, RunStep
  <2>2. FilesOf(p)
    BY <1>2, <2>1 DEF AloneKept, EndsAlone
  <2>. QED
    BY <1>4, <2>1, <2>2 DEF FilesOf
<1>. QED
  BY <1>4, <1>5, <1>6

(* A process that was alone and reports a semantic error, or cannot create *)
(* its output, leaves no .asm file: sig_handler removes it, and nothing    *)
(* makes it again between that and the exit.                               *)
THEOREM ErrorsLeaveNothing == Spec => ErrorLeavesNoOutput
<1>1. IInv /\ [Next]_vars =>
        \A p \in Proc :
          EndsAlone(p) /\ procs[p].pc \in {"exit2", "exit3"} =>
            AsmName(procs'[p].inv.src) \notin DOMAIN fs'
  <2>1. SUFFICES ASSUME IInv, [Next]_vars, NEW p \in Proc, EndsAlone(p),
                        procs[p].pc \in {"exit2", "exit3"}
                 PROVE  AsmName(procs'[p].inv.src) \notin DOMAIN fs'
    OBVIOUS
  <2>2. /\ HandlerExit(p) /\ OutputAt(p) /\ procs'[p].inv = procs[p].inv
    BY <2>1, LastStep
       DEF Ends, StartHelp, StartFile, OpenSource, Parse, CreateTable,
           Translate, Finish, At, FilesOf
  <2>3. AsmName(procs[p].inv.src) \notin DOMAIN fs
    BY <2>1, <2>2 DEF OutputAt, Exists, AsmOf, SrcOf
  <2>4. DOMAIN fs' \subseteq DOMAIN fs
    BY <2>2 DEF HandlerExit, Removed
  <2>. QED
    BY <2>2, <2>3, <2>4
<1>. QED
  BY <1>1, Invariance, PTL DEF Spec, ErrorLeavesNoOutput

(* The status of a process that was alone is the verdict on what it was    *)
(* given: what it parsed is that input, and what it found out is still     *)
(* true of it when it ends; only a program on which the compiler crashes   *)
(* makes it crash.                                                         *)
THEOREM VerdictIsStatus == Spec => StatusIsVerdict
<1>1. ASSUME IInv, [Next]_vars, NEW p \in Proc, EndsAlone(p), Status(p) # 3
      PROVE  \E outcome \in OutcomesOf(procs'[p].input) :
               Status(p) \in StatusesOf(outcome)
  <2>1. /\ Ends(p) /\ FilesOf(p) /\ Running(p)
        /\ procs'[p].input = procs[p].input
    BY <1>1, LastStep
  <2>2. SourceAt(p) /\ VerdictAt(p)
    BY <2>1 DEF FilesOf
  <2>3. /\ StatusesOf("valid") = {0} /\ StatusesOf("warning") = {0}
        /\ StatusesOf("syntax") = {1} /\ StatusesOf("declaration") = {2}
        /\ StatusesOf("body") = {2} /\ StatusesOf("crash") = Crashes
    BY DEF StatusesOf
  <2>4. CASE Parse(p) /\ Status(p) = 1
             /\ "syntax" \in OutcomesOf(data[procs[p].stdin].holds)
    <3>1. data[procs[p].stdin].holds = procs[p].input
      BY <2>2, <2>4 DEF Parse, SourceAt, FileIs
    <3>. QED
      BY <2>1, <2>3, <2>4, <3>1
  <2>5. CASE CreateTable(p) \/ Translate(p)
    <3>1. Exists(SrcOf(p))
      BY <2>2, <2>5 DEF CreateTable, Translate, SourceAt, At
    <3>2. /\ Translate(p) /\ procs[p].outcome = "crash"
          /\ Status(p) \in Crashes
      BY <2>1, <2>5, <3>1
         DEF Ends, StartHelp, StartFile, OpenSource, Parse, Finish,
             HandlerExit, CreateTable, Translate, At, Status
    <3>3. procs[p].outcome \in OutcomesOf(procs[p].input)
      BY <2>2, <3>2 DEF Translate, VerdictAt, At
    <3>. QED
      BY <2>1, <2>3, <3>2, <3>3
  <2>6. CASE Finish(p) /\ Status(p) = 0
    <3>1. procs[p].outcome \in {"valid", "warning"}
          /\ procs[p].outcome \in OutcomesOf(procs[p].input)
      BY <2>2, <2>6 DEF Finish, VerdictAt, At
    <3>2. Status(p) \in StatusesOf(procs[p].outcome)
      BY <2>3, <2>6, <3>1
    <3>. QED
      BY <2>1, <3>1, <3>2
  <2>7. CASE HandlerExit(p) /\ At(p, "exit2") /\ Status(p) = 2
    <3>1. procs[p].outcome \in {"declaration", "body"}
          /\ procs[p].outcome \in OutcomesOf(procs[p].input)
      BY <2>2, <2>7 DEF VerdictAt, At
    <3>2. Status(p) \in StatusesOf(procs[p].outcome)
      BY <2>3, <2>7, <3>1
    <3>. QED
      BY <2>1, <3>1, <3>2
  <2>8. ~StartHelp(p)
    BY <2>1 DEF StartHelp, Running
  <2>. QED
    BY <1>1, <2>1, <2>4, <2>5, <2>6, <2>7, <2>8 DEF Ends, Status
<1>2. IInv /\ [Next]_vars =>
        \A p \in Proc :
          EndsAlone(p) /\ Status(p) # 3 =>
            \E outcome \in OutcomesOf(procs'[p].input) :
              Status(p) \in StatusesOf(outcome)
  BY <1>1
<1>. QED
  BY <1>2, Invariance, PTL DEF Spec, StatusIsVerdict

(* A status of 0 of a process that was alone means that its .asm file is   *)
(* the whole code of its program, or gone if -n asked so; an executable it *)
(* made is the program's.                                                  *)
THEOREM OutputSound == Spec => OutputIsOwn
<1>1. ASSUME IInv, [Next]_vars, NEW p \in Proc, EndsAlone(p),
             NEW asm, asm = AsmName(procs'[p].inv.src),
             NEW exe, exe = ExeName(procs'[p].inv.src)
      PROVE  /\ Status(p) = 0 =>
                  IF procs'[p].inv.n THEN asm \notin DOMAIN fs'
                  ELSE /\ asm \in DOMAIN fs'
                       /\ data'[fs'[asm]].holds = {CodeOf(procs'[p].input)}
             /\ exe \in DOMAIN fs' /\ fs'[exe] = Own(p, "exe") =>
                  data'[fs'[exe]].holds = {CodeOf(procs'[p].input)}
  <2>1. Step(p) /\ Ends(p)
    BY <1>1, LastStep
  <2>2. CASE StartFile(p) /\ Status(p) = 3
    <3>1. exe \in DOMAIN fs => fs[exe] # Own(p, "exe")
      <4>1. SUFFICES ASSUME exe \in DOMAIN fs, fs[exe] = Own(p, "exe")
                     PROVE  FALSE
        OBVIOUS
      <4>2. Started(p)
        BY <1>1, <4>1, MakerStarted DEF IInv
      <4>. QED
        BY <2>2, <4>2 DEF StartFile, Started
    <3>. QED
      BY <2>2, <3>1 DEF StartFile
  <2>3. CASE /\ Running(p) /\ FilesOf(p) /\ GivenTo(p)
             /\ procs'[p].inv = procs[p].inv
             /\ procs'[p].input = procs[p].input
    <3>1. /\ asm = AsmOf(p) /\ exe = ExeOf(p)
      BY <1>1, <2>3 DEF AsmOf, ExeOf, SrcOf
    <3>2. data' = data
      BY <2>1, <2>3
         DEF Ends, StartHelp, StartFile, OpenSource, Parse, CreateTable,
             Translate, Finish, HandlerExit, Running
    <3>3. \/ fs' = fs
          \/ fs' = Removed(fs, Anon)
      BY <2>1, <2>3
         DEF Ends, StartHelp, StartFile, OpenSource, Parse, CreateTable,
             Translate, Finish, HandlerExit, Running
    <3>4. asm # Anon /\ exe # Anon
      BY <1>1 DEF AsmName, ExeName, Anon
    <3>5. /\ asm \in DOMAIN fs' <=> asm \in DOMAIN fs
          /\ asm \in DOMAIN fs => fs'[asm] = fs[asm]
          /\ exe \in DOMAIN fs' <=> exe \in DOMAIN fs
          /\ exe \in DOMAIN fs => fs'[exe] = fs[exe]
      BY <3>3, <3>4 DEF Removed
    <3>6. Status(p) = 0 => At(p, "end")
      BY <2>1, <2>3
         DEF Ends, StartHelp, StartFile, Status, Finish, Running, Crashes
    <3>7. OutputAt(p)
      BY <2>3 DEF FilesOf
    <3>. QED
      BY <2>3, <3>1, <3>2, <3>5, <3>6, <3>7 DEF OutputAt, FileIs, Exists
  <2>. QED
    BY <1>1, <2>2, <2>3, LastStep
<1>2. IInv /\ [Next]_vars =>
        \A p \in Proc :
          EndsAlone(p) =>
            LET asm == AsmName(procs'[p].inv.src)
                exe == ExeName(procs'[p].inv.src)
            IN  /\ Status(p) = 0 =>
                     IF procs'[p].inv.n THEN asm \notin DOMAIN fs'
                     ELSE /\ asm \in DOMAIN fs'
                          /\ data'[fs'[asm]].holds = {CodeOf(procs'[p].input)}
                /\ exe \in DOMAIN fs' /\ fs'[exe] = Own(p, "exe") =>
                     data'[fs'[exe]].holds = {CodeOf(procs'[p].input)}
  BY <1>1
<1>. QED
  BY <1>2, Invariance, PTL DEF Spec, OutputIsOwn
=============================================================================
