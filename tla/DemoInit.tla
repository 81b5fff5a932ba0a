------------------------------- MODULE DemoInit -------------------------------
(***************************************************************************)
(* src/proofflow/demo_init.py: init-demo copies a fixed bundle into a new  *)
(* directory, through descriptors it pinned, while other processes may     *)
(* rename, replace, add or change entries under the same parent; it        *)
(* verifies what is there at the end, and on failure removes what it finds *)
(* to be its own.  Every system call on the tree is a step.                *)
(*                                                                         *)
(* Data.  node is the inode table: kind, who made it and what it holds;    *)
(* links are the directory entries.  A file holds the name of the asset    *)
(* written into it, or something else.  Inode 1 is the parent directory.   *)
(***************************************************************************)
EXTENDS Naturals, Sequences, FiniteSets

CONSTANTS
    Procs,      \* init-demo processes with the same output
    Children,   \* the directories of the bundle, in order
    Bundle,     \* its files in order: [dir, name], dir "" for the root
    Output,     \* the name of the output directory
    Nobody,     \* maker of everything that is not a Proc's
    MaxMoves,   \* bound on what others do to the tree
    MaxFaults   \* bound on failing system calls

ASSUME InitAssumption ==
    /\ Nobody \notin Procs
    /\ Children \in Seq(STRING)
    /\ Bundle \in Seq([dir : STRING, name : STRING]) \ {<<>>}
    /\ \A k \in 1..Len(Bundle) : Bundle[k].dir = "" \/ \E c \in 1..Len(Children) :
                                                          Bundle[k].dir = Children[c]
    /\ MaxMoves \in Nat
    /\ MaxFaults \in Nat

VARIABLES
    node,    \* the inodes, in the order they were made
    links,   \* directory entries: [dir, name, ino]
    above,   \* the parent: "missing", "there" at its path, or "moved"
    me,      \* the call of each process
    calm,    \* history: processes nobody disturbed since they last looked
    alone,   \* history: processes nobody disturbed since they began
    stuck,   \* history: inodes whose entry a system call failed over
    moves, faults

tree == <<node, links, above>>
vars == <<node, links, above, me, calm, alone, stuck, moves, faults>>

Parent == 1
None == 0

-----------------------------------------------------------------------------
Entry(d, n) ==
    IF \E l \in links : l.dir = d /\ l.name = n
    THEN (CHOOSE l \in links : l.dir = d /\ l.name = n).ino ELSE None

IsDir(i) == i # None /\ node[i].kind = "dir"
Listing(d) == {l.name : l \in {k \in links : k.dir = d}}

(* Directories of a call by the name the bundle gives them.                *)
DirOf(p, name) ==
    IF name = "" THEN me[p].root
    ELSE me[p].kids[CHOOSE c \in 1..Len(Children) : Children[c] = name]

NamesIn(name) == {Bundle[k].name : k \in {j \in 1..Len(Bundle) : Bundle[j].dir = name}}
RootNames == NamesIn("") \cup {Children[c] : c \in 1..Len(Children)}

(* Anybody's change of the tree disturbs everybody else.                   *)
DisturbedBy(x) ==
    /\ calm' = calm \cap {x}
    /\ alone' = alone \cap {x}

Make(d, n, kind, who, content) ==
    /\ node' = Append(node, [kind |-> kind, owner |-> who, holds |-> content])
    /\ links' = links \cup {[dir |-> d, name |-> n, ino |-> Len(node) + 1]}
    /\ UNCHANGED above
    /\ DisturbedBy(who)

Remove(p, d, n) ==
    /\ links' = {l \in links : ~(l.dir = d /\ l.name = n)}
    /\ UNCHANGED <<node, above>>
    /\ DisturbedBy(p)

-----------------------------------------------------------------------------
Idle == [pc |-> "start", at |-> 0, seen |-> None, root |-> None, kids |-> <<>>,
         files |-> <<>>, code |-> "NONE"]

Init ==
    /\ node = <<[kind |-> "dir", owner |-> Nobody, holds |-> ""]>>
    /\ links = {}
    /\ above \in {"missing", "there"}
    /\ me = [p \in Procs |-> Idle]
    /\ calm = {} /\ alone = Procs /\ stuck = {}
    /\ moves = 0 /\ faults = 0

Goto(p, pc) == me' = [me EXCEPT ![p].pc = pc]

(* The call fails: the except clauses clean up and raise.                  *)
Fail(p, code) ==
    me' = [me EXCEPT ![p].pc = "cleanfile", ![p].at = Len(me[p].files), ![p].code = code]

(* A step that changes nothing in the tree.                                *)
Look == UNCHANGED <<tree, calm, alone, stuck, moves, faults>>

(* The call is over before there is anything to clean up.                  *)
Refuse(p, code) == me' = [me EXCEPT ![p].pc = "done", ![p].code = code]

(* The assets are missing or altered, or the platform is not supported.    *)
Begin(p) ==
    /\ me[p].pc = "start"
    /\ \/ Goto(p, "mkparent")
       \/ Refuse(p, "DEMO_ASSET_INVALID")
    /\ Look

(* mkdir(parents=True) of what is missing above the output; no failure     *)
(* takes it away again.  A call that finds the parent moved away makes     *)
(* another one and works in a tree of its own: not modelled.               *)
MkdirParent(p) ==
    /\ me[p].pc = "mkparent" /\ above # "moved"
    /\ Goto(p, "openparent")
    /\ IF above = "missing" THEN above' = "there" /\ DisturbedBy(p)
                            ELSE UNCHANGED <<above, calm, alone>>
    /\ UNCHANGED <<node, links, stuck, moves, faults>>

OpenParent(p) ==
    /\ me[p].pc = "openparent"
    /\ IF above = "there" THEN Goto(p, "stat") ELSE Refuse(p, "DEMO_OUTPUT_UNAVAILABLE")
    /\ Look

ParentFails(p) ==
    /\ faults < MaxFaults
    /\ faults' = faults + 1
    /\ me[p].pc \in {"mkparent", "openparent"}
    /\ Refuse(p, "DEMO_OUTPUT_UNAVAILABLE")
    /\ UNCHANGED <<tree, calm, alone, stuck, moves>>

StatOutput(p) ==
    /\ me[p].pc = "stat"
    /\ IF Entry(Parent, Output) = None THEN Goto(p, "mkdir") ELSE Fail(p, "DEMO_OUTPUT_EXISTS")
    /\ Look

(* mkdir, of the output or of a directory in it, fails on anything there.  *)
MakeDirectory(p, d, n, from, to) ==
    /\ me[p].pc = from
    /\ \/ /\ Entry(d, n) = None
          /\ Make(d, n, "dir", p, "")
          /\ Goto(p, to)
       \/ /\ Entry(d, n) # None
          /\ Fail(p, "DEMO_OUTPUT_EXISTS")
          /\ UNCHANGED <<tree, calm, alone>>
    /\ UNCHANGED <<stuck, moves, faults>>

(* _open_pinned_directory: what is opened may not be what was made.        *)
OpenDirectory(p, d, n, from, to, code) ==
    /\ me[p].pc = from
    /\ IF IsDir(Entry(d, n))
         THEN me' = [me EXCEPT ![p].pc = to, ![p].seen = Entry(d, n)]
         ELSE Fail(p, code)
    /\ Look

MkdirOutput(p) == MakeDirectory(p, Parent, Output, "mkdir", "open")
OpenOutput(p) == OpenDirectory(p, Parent, Output, "open", "pin", "DEMO_OUTPUT_RACE_DETECTED")

PinOutput(p) ==
    /\ me[p].pc = "pin"
    /\ IF Entry(Parent, Output) = me[p].seen
         THEN me' = [me EXCEPT ![p].pc = "child", ![p].root = me[p].seen]
         ELSE Fail(p, "DEMO_OUTPUT_RACE_DETECTED")
    /\ Look

NextChild(p) == Children[Len(me[p].kids) + 1]
MoreChildren(p) == Len(me[p].kids) < Len(Children)

MkdirChild(p) ==
    /\ MoreChildren(p)
    /\ MakeDirectory(p, me[p].root, NextChild(p), "child", "openchild")

OpenChild(p) ==
    /\ MoreChildren(p)
    /\ OpenDirectory(p, me[p].root, NextChild(p), "openchild", "pinchild",
                     "DEMO_OUTPUT_WRITE_FAILED")

PinChild(p) ==
    /\ me[p].pc = "pinchild"
    /\ IF Entry(me[p].root, NextChild(p)) = me[p].seen
         THEN me' = [me EXCEPT ![p].pc = "child", ![p].kids = Append(@, me[p].seen)]
         ELSE Fail(p, "DEMO_OUTPUT_RACE_DETECTED")
    /\ Look

NextFile(p) == Bundle[Len(me[p].files) + 1]
MoreFiles(p) == Len(me[p].files) < Len(Bundle)
InFiles(p) == me[p].pc = "child" /\ ~MoreChildren(p)

(* An existing file is opened and written over.                            *)
BadCreateFile(p) ==
    LET d == DirOf(p, NextFile(p).dir)
        n == NextFile(p).name
    IN  /\ InFiles(p) /\ MoreFiles(p)
        /\ \/ /\ Entry(d, n) = None
              /\ Make(d, n, "file", p, "")
              /\ me' = [me EXCEPT ![p].pc = "write", ![p].seen = Len(node) + 1]
           \/ /\ Entry(d, n) # None
              /\ me' = [me EXCEPT ![p].pc = "write", ![p].seen = Entry(d, n)]
              /\ UNCHANGED <<tree, calm, alone>>
        /\ UNCHANGED <<stuck, moves, faults>>

(* open with O_CREAT and O_EXCL, below the pinned directory.               *)
CreateFile(p) ==
    LET d == DirOf(p, NextFile(p).dir)
        n == NextFile(p).name
    IN  /\ InFiles(p) /\ MoreFiles(p)
        /\ \/ /\ Entry(d, n) = None
              /\ Make(d, n, "file", p, "")
              /\ me' = [me EXCEPT ![p].pc = "write", ![p].seen = Len(node) + 1]
           \/ /\ Entry(d, n) # None
              /\ Fail(p, "DEMO_OUTPUT_EXISTS")
              /\ UNCHANGED <<tree, calm, alone>>
        /\ UNCHANGED <<stuck, moves, faults>>

(* _write_payload; only a file written as a whole is recorded.             *)
WriteFile(p) ==
    /\ me[p].pc = "write"
    /\ node' = [node EXCEPT ![me[p].seen].holds = NextFile(p).name]
    /\ me' = [me EXCEPT ![p].pc = "child", ![p].files = Append(@, me[p].seen)]
    /\ DisturbedBy(p)
    /\ UNCHANGED <<links, above, stuck, moves, faults>>

WriteFails(p) ==
    /\ faults < MaxFaults
    /\ faults' = faults + 1
    /\ me[p].pc = "write"
    /\ node' = [node EXCEPT ![me[p].seen].holds = "part"]
    /\ Fail(p, "DEMO_OUTPUT_WRITE_FAILED")
    /\ stuck' = stuck \cup {me[p].seen}
    /\ DisturbedBy(p)
    /\ UNCHANGED <<links, above, moves>>

(* The directory a call made and has not recorded yet.                     *)
Unrecorded(p) ==
    CASE me[p].pc = "open" -> {Entry(Parent, Output)}
      [] me[p].pc = "openchild" -> {Entry(me[p].root, NextChild(p))}
      [] me[p].pc \in {"pin", "pinchild"} -> {me[p].seen}
      [] OTHER -> {}

(* Any other call of the operating system fails; a failing stat of an      *)
(* entry is taken for a mismatch.                                          *)
CallFails(p) ==
    /\ faults < MaxFaults
    /\ faults' = faults + 1
    /\ me[p].pc \in {"stat", "mkdir", "open", "pin", "child", "openchild", "pinchild",
                     "verifyroot", "verifyfile", "verifykids"}
    /\ \E code \in {"DEMO_OUTPUT_RACE_DETECTED", "DEMO_OUTPUT_WRITE_FAILED"} :
           /\ me[p].pc \in {"open", "pin"} => code = "DEMO_OUTPUT_RACE_DETECTED"
           /\ me[p].pc \in {"stat", "mkdir", "openchild", "verifykids"} =>
                  code = "DEMO_OUTPUT_WRITE_FAILED"
           /\ Fail(p, code)
    /\ stuck' = stuck \cup Unrecorded(p)
    /\ UNCHANGED <<tree, calm, alone, moves>>

-----------------------------------------------------------------------------
(* _verify_completed_output.  First the paths: the parent and the output   *)
(* are still where the caller asked for them.                              *)
VerifyPath(p) ==
    /\ InFiles(p) /\ ~MoreFiles(p)
    /\ IF above = "there" /\ Entry(Parent, Output) = me[p].root
         THEN Goto(p, "verifyroot") ELSE Fail(p, "DEMO_OUTPUT_RACE_DETECTED")
    /\ calm' = calm \cup {p}
    /\ UNCHANGED <<tree, alone, stuck, moves, faults>>

ChildMatches(p, c) == Entry(me[p].root, Children[c]) = me[p].kids[c]

(* Then what the root holds, and that its directories are the pinned ones. *)
VerifyRoot(p) ==
    /\ me[p].pc = "verifyroot"
    /\ IF /\ Listing(me[p].root) = RootNames
          /\ \A c \in 1..Len(Children) : ChildMatches(p, c)
         THEN me' = [me EXCEPT ![p].pc = "verifyfile", ![p].at = 1]
         ELSE Fail(p, "DEMO_OUTPUT_RACE_DETECTED")
    /\ Look

FileMatches(p, k) ==
    Entry(DirOf(p, Bundle[k].dir), Bundle[k].name) = me[p].files[k]

(* Then each file: the entry is still the file written, and it holds what  *)
(* was written.                                                            *)
VerifyFile(p) ==
    LET k == me[p].at
    IN  /\ me[p].pc = "verifyfile"
        /\ \/ /\ FileMatches(p, k)
              /\ node[me[p].files[k]].holds = Bundle[k].name
              /\ IF k < Len(Bundle) THEN me' = [me EXCEPT ![p].at = k + 1]
                                    ELSE Goto(p, "verifykids")
           \/ /\ ~FileMatches(p, k) \/ node[me[p].files[k]].holds # Bundle[k].name
              /\ Fail(p, "DEMO_OUTPUT_RACE_DETECTED")
        /\ Look

(* The listing of the directories is not compared.                         *)
BadVerifyChildren(p) ==
    /\ me[p].pc = "verifykids"
    /\ me' = [me EXCEPT ![p].pc = "done", ![p].code = "OK"]
    /\ Look

(* Last, that the directories hold nothing else.                           *)
VerifyChildren(p) ==
    /\ me[p].pc = "verifykids"
    /\ IF \A c \in 1..Len(Children) : Listing(me[p].kids[c]) = NamesIn(Children[c])
         THEN me' = [me EXCEPT ![p].pc = "done", ![p].code = "OK"]
         ELSE Fail(p, "DEMO_OUTPUT_RACE_DETECTED")
    /\ Look

-----------------------------------------------------------------------------
(* _cleanup_owned_entries: each entry is compared with the inode recorded, *)
(* and removed in a second call.                                           *)
Compared(p, matches, remove, else) ==
    IF matches
      THEN me' = [me EXCEPT ![p].pc = remove] /\ calm' = calm \cup {p}
      ELSE else /\ UNCHANGED calm

PreviousAt(p) == me' = [me EXCEPT ![p].at = @ - 1]

CleanFile(p) ==
    /\ me[p].pc = "cleanfile" /\ me[p].at > 0
    /\ Compared(p, FileMatches(p, me[p].at), "unlink", PreviousAt(p))
    /\ UNCHANGED <<tree, alone, stuck, moves, faults>>

(* unlink does not remove a directory; its failure is suppressed.          *)
Unlink(p) ==
    LET file == Bundle[me[p].at]
        d == DirOf(p, file.dir)
    IN  /\ me[p].pc = "unlink"
        /\ \/ /\ Entry(d, file.name) # None /\ ~IsDir(Entry(d, file.name))
              /\ Remove(p, d, file.name)
           \/ /\ Entry(d, file.name) = None \/ IsDir(Entry(d, file.name))
              /\ UNCHANGED <<tree, calm, alone>>
        /\ me' = [me EXCEPT ![p].pc = "cleanfile", ![p].at = @ - 1]
        /\ UNCHANGED <<stuck, moves, faults>>

(* No directory was pinned: there is nothing to compare with.              *)
CleanedFiles(p) ==
    /\ me[p].pc = "cleanfile" /\ me[p].at = 0
    /\ IF me[p].root = None
         THEN Goto(p, "done")
         ELSE me' = [me EXCEPT ![p].pc = "cleanchild", ![p].at = Len(me[p].kids)]
    /\ Look

CleanChild(p) ==
    /\ me[p].pc = "cleanchild" /\ me[p].at > 0
    /\ Compared(p, ChildMatches(p, me[p].at), "rmchild", PreviousAt(p))
    /\ UNCHANGED <<tree, alone, stuck, moves, faults>>

(* rmdir removes empty directories only; its failure is suppressed.        *)
RemoveDirectory(p, d, n) ==
    \/ /\ IsDir(Entry(d, n)) /\ Listing(Entry(d, n)) = {}
       /\ Remove(p, d, n)
    \/ /\ ~IsDir(Entry(d, n)) \/ Listing(Entry(d, n)) # {}
       /\ UNCHANGED <<tree, calm, alone>>

RmdirChild(p) ==
    /\ me[p].pc = "rmchild"
    /\ RemoveDirectory(p, me[p].root, Children[me[p].at])
    /\ me' = [me EXCEPT ![p].pc = "cleanchild", ![p].at = @ - 1]
    /\ UNCHANGED <<stuck, moves, faults>>

(* The directories in the output are left to themselves.                   *)
BadCleanOutput(p) ==
    /\ me[p].pc = "cleanchild"
    /\ Compared(p, Entry(Parent, Output) = me[p].root, "rmoutput", Goto(p, "done"))
    /\ UNCHANGED <<tree, alone, stuck, moves, faults>>

CleanOutput(p) ==
    /\ me[p].pc = "cleanchild" /\ me[p].at = 0
    /\ Compared(p, Entry(Parent, Output) = me[p].root, "rmoutput", Goto(p, "done"))
    /\ UNCHANGED <<tree, alone, stuck, moves, faults>>

RmdirOutput(p) ==
    /\ me[p].pc = "rmoutput"
    /\ RemoveDirectory(p, Parent, Output)
    /\ Goto(p, "done")
    /\ UNCHANGED <<stuck, moves, faults>>

(* A call of the clean-up fails: a stat is taken for a mismatch, an unlink *)
(* or rmdir is suppressed, and the clean-up goes on with the next entry.   *)
CleanCallFails(p) ==
    /\ faults < MaxFaults
    /\ faults' = faults + 1
    /\ \/ /\ me[p].pc \in {"cleanfile", "unlink"} /\ me[p].at > 0
          /\ me' = [me EXCEPT ![p].pc = "cleanfile", ![p].at = @ - 1]
          /\ stuck' = stuck \cup {me[p].files[me[p].at]}
       \/ /\ me[p].pc \in {"cleanchild", "rmchild"} /\ me[p].at > 0
          /\ me' = [me EXCEPT ![p].pc = "cleanchild", ![p].at = @ - 1]
          /\ stuck' = stuck \cup {me[p].kids[me[p].at]}
       \/ /\ me[p].pc = "rmoutput" \/ (me[p].pc = "cleanchild" /\ me[p].at = 0)
          /\ Goto(p, "done")
          /\ stuck' = stuck \cup {me[p].root}
    /\ UNCHANGED <<tree, calm, alone, moves>>

-----------------------------------------------------------------------------
(* What other processes do to the tree: rename an entry away, the parent   *)
(* included, put something of theirs in a free place, change a file.       *)
Others == /\ moves < MaxMoves
          /\ moves' = moves + 1
          /\ UNCHANGED <<me, stuck, faults>>

MoveAway ==
    /\ Others
    /\ \E l \in links : links' = links \ {l}
    /\ UNCHANGED <<node, above>>
    /\ DisturbedBy(Nobody)

MoveParent ==
    /\ Others
    /\ above = "there"
    /\ above' = "moved"
    /\ UNCHANGED <<node, links>>
    /\ DisturbedBy(Nobody)

(* Places: the output, and the names of the bundle in any directory.       *)
Places ==
    {[dir |-> Parent, name |-> Output]} \cup
    [dir : {i \in 2..Len(node) : IsDir(i)}, name : RootNames \cup UNION {NamesIn(Children[c]) :
                                                             c \in 1..Len(Children)}]

Plant ==
    /\ Others
    /\ above # "missing"
    /\ \E place \in Places, kind \in {"dir", "file", "symlink"} :
           /\ Entry(place.dir, place.name) = None
           /\ Make(place.dir, place.name, kind, Nobody, "theirs")

Tamper ==
    /\ Others
    /\ \E i \in 2..Len(node) :
           /\ node[i].kind = "file" /\ node[i].holds # "theirs"
           /\ node' = [node EXCEPT ![i].holds = "theirs"]
    /\ UNCHANGED <<links, above>>
    /\ DisturbedBy(Nobody)

Step(p) ==
    \/ Begin(p) \/ MkdirParent(p) \/ OpenParent(p) \/ ParentFails(p) \/ StatOutput(p) \/ MkdirOutput(p) \/ OpenOutput(p) \/ PinOutput(p)
    \/ MkdirChild(p) \/ OpenChild(p) \/ PinChild(p)
    \/ CreateFile(p) \/ WriteFile(p) \/ WriteFails(p) \/ CallFails(p)
    \/ VerifyPath(p) \/ VerifyRoot(p) \/ VerifyFile(p) \/ VerifyChildren(p)
    \/ CleanFile(p) \/ Unlink(p) \/ CleanedFiles(p) \/ CleanChild(p) \/ RmdirChild(p)
    \/ CleanOutput(p) \/ RmdirOutput(p) \/ CleanCallFails(p)

Next == MoveAway \/ MoveParent \/ Plant \/ Tamper \/ \E p \in Procs : Step(p)

Spec == Init /\ [][Next]_vars

-----------------------------------------------------------------------------
(* The output is at its path and is exactly the bundle.                    *)
Whole(p) ==
    /\ above = "there"
    /\ Entry(Parent, Output) = me[p].root
    /\ Listing(me[p].root) = RootNames
    /\ \A c \in 1..Len(Children) : Listing(Entry(me[p].root, Children[c])) = NamesIn(Children[c])
    /\ \A k \in 1..Len(Bundle) :
           LET d == IF Bundle[k].dir = "" THEN me[p].root
                    ELSE Entry(me[p].root, Bundle[k].dir)
           IN  node[Entry(d, Bundle[k].name)].holds = Bundle[k].name

(* A call that reports success left exactly the bundle at the path it was  *)
(* asked for, whatever others did to the tree before its verification      *)
(* began; what they do during the verification may escape it.              *)
SuccessIsWhole ==
    [][\A p \in Procs : /\ me[p].pc # "done" /\ me'[p].pc = "done"
                        /\ me'[p].code = "OK" /\ p \in calm
                        => Whole(p)]_vars

Linked(i) == \E l \in links : l.ino = i

(* init-demo writes over nothing and removes no file it did not make, be   *)
(* it in the middle of its output or in its place.  A file put in place    *)
(* between the comparison and the removal is excepted.                     *)
NothingForeignHarmed ==
    [][\A p \in Procs : me'[p] # me[p] =>
          \A i \in 1..Len(node) : node[i].kind # "dir" /\ node[i].owner # p =>
              /\ node'[i].holds = node[i].holds
              /\ Linked(i) => Linked(i)' \/ p \notin calm]_vars

(* A call that failed and was not disturbed leaves nothing of its output   *)
(* behind but what a system call failed over, as it was being made or as   *)
(* it was being cleaned up, and the directories that hold it: whatever the *)
(* call failed at, the clean-up tries every entry it made and recorded, in *)
(* the order in which they can be removed.  The directories made above the *)
(* output are not part of it: they stay.                                   *)
FailureLeavesNothing ==
    \A p \in Procs : me[p].pc = "done" /\ me[p].code # "OK" /\ p \in alone =>
        \A l \in links : node[l.ino].owner = p =>
            l.ino \in stuck \/ Listing(l.ino) # {}
=============================================================================
