---------------------------- MODULE DemoInitProofs ----------------------------
(***************************************************************************)
(* Proofs about init-demo for any number of processes with the same        *)
(* output, every bundle, and whatever others do to the tree.               *)
(*                                                                         *)
(* The invariant speaks of a call c of process p over inodes nd and        *)
(* entries L, so that its parts are stated once for the tree before and    *)
(* the tree after a step.                                                  *)
(***************************************************************************)
EXTENDS DemoInit, TLAPS

Codes == {"NONE", "OK", "DEMO_ASSET_INVALID", "DEMO_OUTPUT_EXISTS",
          "DEMO_OUTPUT_UNAVAILABLE", "DEMO_OUTPUT_RACE_DETECTED", "DEMO_OUTPUT_WRITE_FAILED"}
Beginning == {"start", "mkparent", "openparent", "stat", "mkdir", "open", "pin"}
Filling == {"child", "openchild", "pinchild", "write"}
Verifying == {"verifyroot", "verifyfile", "verifykids"}
CleaningFiles == {"cleanfile", "unlink"}
CleaningChildren == {"cleanchild", "rmchild"}
Labels == Beginning \cup Filling \cup Verifying \cup CleaningFiles \cup CleaningChildren
              \cup {"rmoutput", "done"}

Call == [pc : Labels, at : Nat, seen : Nat, root : Nat, kids : Seq(Nat),
         files : Seq(Nat), code : Codes]

Kinds == {"dir", "file", "symlink"}
Contents == {"", "part", "theirs"} \cup {Bundle[k].name : k \in 1..Len(Bundle)}
Inode == [kind : Kinds, owner : Procs \cup {Nobody}, holds : Contents]

(* Entry, Listing and DirOf over any tree and any call.                    *)
Has(L, d, n, i) == \E l \in L : l.dir = d /\ l.name = n /\ l.ino = i
Names(L, d) == {l.name : l \in {k \in L : k.dir = d}}
DirIn(c, name) ==
    IF name = "" THEN c.root
    ELSE c.kids[CHOOSE j \in 1..Len(Children) : Children[j] = name]

(* A name means one thing in a directory, and an inode is younger than the *)
(* directory it was made in.                                               *)
TreeOK(nd, L) ==
    /\ nd \in Seq(Inode)
    /\ Len(nd) >= 1
    /\ \A l \in L : l.dir \in 1..Len(nd) /\ l.ino \in 1..Len(nd) /\ l.dir < l.ino
    /\ \A l, m \in L : l.dir = m.dir /\ l.name = m.name => l = m

(* What a call has pinned and recorded: the directories are directories,   *)
(* one below the other, and the files are the call's own.                  *)
PinnedOK(nd, p, c) ==
    /\ c.root # None => c.root \in 2..Len(nd) /\ nd[c.root].kind = "dir"
    /\ c.root = None => Len(c.kids) = 0
    /\ Len(c.kids) <= Len(Children) /\ Len(c.files) <= Len(Bundle)
    /\ \A j \in 1..Len(c.kids) :
           c.kids[j] \in 2..Len(nd) /\ c.root < c.kids[j] /\ nd[c.kids[j]].kind = "dir"
    /\ Len(c.files) > 0 => c.root # None /\ Len(c.kids) = Len(Children)
    /\ \A k \in 1..Len(c.files) :
           /\ c.files[k] \in 1..Len(nd)
           /\ nd[c.files[k]].kind = "file" /\ nd[c.files[k]].owner = p

(* How far a call is.                                                      *)
ControlOK(nd, p, c) ==
    /\ c.pc \in Beginning => c.root = None
    /\ c.pc \in Filling \cup Verifying \cup CleaningChildren \cup {"rmoutput"} => c.root # None
    /\ c.pc \in {"openchild", "pinchild"} => Len(c.kids) < Len(Children)
    /\ c.pc \in {"pin", "pinchild"} => c.seen \in 1..Len(nd) /\ nd[c.seen].kind = "dir"
    /\ c.pc = "write" =>
           /\ c.seen \in 1..Len(nd) /\ nd[c.seen].kind = "file" /\ nd[c.seen].owner = p
           /\ Len(c.kids) = Len(Children) /\ Len(c.files) < Len(Bundle)
    /\ c.pc \in Verifying => Len(c.kids) = Len(Children) /\ Len(c.files) = Len(Bundle)
    /\ c.pc = "verifyfile" => c.at \in 1..Len(Bundle)
    /\ c.pc \in CleaningFiles => c.at <= Len(c.files)
    /\ c.pc \in CleaningChildren => c.at <= Len(c.kids)
    /\ c.pc \in {"unlink", "rmchild"} => c.at > 0
    /\ c.pc # "done" => c.code # "OK"

CallOK(nd, p, c) == PinnedOK(nd, p, c) /\ ControlOK(nd, p, c)

FileAt(L, c, k) == Has(L, DirIn(c, Bundle[k].dir), Bundle[k].name, c.files[k])

(* What an undisturbed call has seen is still so: the entry it is about to *)
(* unlink, and what its verification has been through.                     *)
CalmOK(nd, L, up, c) ==
    /\ c.pc = "unlink" => FileAt(L, c, c.at)
    /\ c.pc \in Verifying => up = "there" /\ Has(L, Parent, Output, c.root)
    /\ c.pc \in {"verifyfile", "verifykids"} =>
           /\ Names(L, c.root) = RootNames
           /\ \A j \in 1..Len(Children) : Has(L, c.root, Children[j], c.kids[j])
    /\ c.pc = "verifyfile" => \A k \in 1..c.at - 1 :
           FileAt(L, c, k) /\ nd[c.files[k]].holds = Bundle[k].name
    /\ c.pc = "verifykids" => \A k \in 1..Len(Bundle) :
           FileAt(L, c, k) /\ nd[c.files[k]].holds = Bundle[k].name

-----------------------------------------------------------------------------
(* The entries a call has recorded, with the first n of its directories or *)
(* files.                                                                  *)
RootEntry(c, l) == c.root # None /\ l.dir = Parent /\ l.name = Output /\ l.ino = c.root
ChildEntry(c, l, n) ==
    \E j \in 1..n : l.dir = c.root /\ l.name = Children[j] /\ l.ino = c.kids[j]
FileEntry(c, l, n) ==
    \E k \in 1..n : /\ l.dir = DirIn(c, Bundle[k].dir) /\ l.name = Bundle[k].name
                    /\ l.ino = c.files[k]

Recorded(c, l) ==
    RootEntry(c, l) \/ ChildEntry(c, l, Len(c.kids)) \/ FileEntry(c, l, Len(c.files))

(* What stays once the files are cleaned up: an entry whose own call       *)
(* failed, or a directory below the root with something left in it.        *)
Left(L, S, c, l) == l.ino \in S \/ (l.ino # c.root /\ \E m \in L : m.dir = l.ino)

(* The entries there can be when nobody but the call itself has changed    *)
(* the tree; calls failed over the entries of the inodes in S.             *)
Allowed(nd, L, S, c, l) ==
    /\ c.pc \notin {"start", "mkparent", "openparent", "stat", "mkdir"}
    /\ c.pc = "open" => l.dir = Parent /\ l.name = Output /\ nd[l.ino].kind = "dir"
    /\ c.pc = "pin" => l.dir = Parent /\ l.name = Output /\ l.ino = c.seen
    /\ c.pc \in Verifying \cup {"child"} => Recorded(c, l)
    /\ c.pc = "openchild" =>
           \/ Recorded(c, l)
           \/ /\ l.dir = c.root /\ l.name = Children[Len(c.kids) + 1]
              /\ nd[l.ino].kind = "dir"
    /\ c.pc = "pinchild" =>
           \/ Recorded(c, l)
           \/ l.dir = c.root /\ l.name = Children[Len(c.kids) + 1] /\ l.ino = c.seen
    /\ c.pc = "write" =>
           \/ Recorded(c, l)
           \/ /\ l.dir = DirIn(c, Bundle[Len(c.files) + 1].dir)
              /\ l.name = Bundle[Len(c.files) + 1].name /\ l.ino = c.seen
    /\ c.pc \in CleaningFiles =>
           \/ RootEntry(c, l) \/ ChildEntry(c, l, Len(c.kids)) \/ FileEntry(c, l, c.at)
           \/ l.ino \in S
    /\ c.pc \in CleaningChildren =>
           RootEntry(c, l) \/ ChildEntry(c, l, c.at) \/ Left(L, S, c, l)
    /\ c.pc = "rmoutput" => RootEntry(c, l) \/ Left(L, S, c, l)
    /\ c.pc = "done" => c.code = "OK" \/ l.ino \in S \/ \E m \in L : m.dir = l.ino

AloneOK(nd, L, S, c) == \A l \in L : Allowed(nd, L, S, c, l)

BundleInv ==
    /\ TreeOK(node, links)
    /\ me \in [Procs -> Call]
    /\ \A p \in Procs :
           /\ CallOK(node, p, me[p])
           /\ p \in calm => CalmOK(node, links, above, me[p])
           /\ p \in alone => AloneOK(node, links, stuck, me[p])

-----------------------------------------------------------------------------
(* Inodes are only added, and keep their kind and their maker.             *)
Grown(nd, nd2) ==
    /\ Len(nd) <= Len(nd2)
    /\ \A i \in 1..Len(nd) : nd2[i].kind = nd[i].kind /\ nd2[i].owner = nd[i].owner

(* The call of p, field by field, after a step of p.                       *)
Becomes(p, pc, at, seen, root, kids, files, code) ==
    /\ me' \in [Procs -> Call]
    /\ \A q \in Procs : q # p => me'[q] = me[q]
    /\ me'[p].pc = pc /\ me'[p].at = at /\ me'[p].seen = seen /\ me'[p].root = root
    /\ me'[p].kids = kids /\ me'[p].files = files /\ me'[p].code = code

(* The tree after a step of p: what others have seen of it is still so, or *)
(* they are disturbed.                                                     *)
OwnTree(p) ==
    /\ Grown(node, node') /\ TreeOK(node', links')
    /\ \/ UNCHANGED tree /\ calm' \subseteq calm \cup {p} /\ alone' = alone
       \/ DisturbedBy(p)
    /\ stuck \subseteq stuck'

(* Entry finds the one entry of a name in a directory.                     *)
LEMMA EntryFacts ==
    ASSUME TreeOK(node, links), NEW d, NEW n
    PROVE  /\ \A l \in links : l.dir = d /\ l.name = n => Entry(d, n) = l.ino /\ l.ino # None
           /\ Entry(d, n) # None => /\ Has(links, d, n, Entry(d, n))
                                    /\ Entry(d, n) \in 2..Len(node) /\ d < Entry(d, n)
           /\ \A i : Has(links, d, n, i) => Entry(d, n) = i
<1> USE DEF TreeOK, None
<1>1. CASE \E l \in links : l.dir = d /\ l.name = n
  <2> DEFINE e == CHOOSE l \in links : l.dir = d /\ l.name = n
  <2>1. e \in links /\ e.dir = d /\ e.name = n
    BY <1>1
  <2>2. Entry(d, n) = e.ino
    BY <1>1 DEF Entry
  <2> HIDE DEF e
  <2>3. \A l \in links : l.dir = d /\ l.name = n => l = e
    BY <2>1
  <2>4. e.dir \in 1..Len(node) /\ e.ino \in 1..Len(node) /\ e.dir < e.ino /\ Len(node) \in Nat
    BY <2>1
  <2>5. e.ino \in 2..Len(node) /\ d < e.ino /\ e.ino # 0
    BY <2>1, <2>4
  <2>6. Has(links, d, n, e.ino) /\ \A i : Has(links, d, n, i) => i = e.ino
    BY <2>1, <2>3 DEF Has
  <2> QED
    BY <2>2, <2>3, <2>5, <2>6
<1>2. CASE ~ \E l \in links : l.dir = d /\ l.name = n
  BY <1>2 DEF Entry, Has
<1> QED
  BY <1>1, <1>2

(* The bundle is finite and not empty.                                     *)
LEMMA BundleLengths == Len(Children) \in Nat /\ Len(Bundle) \in Nat /\ Len(Bundle) >= 1
<1>1. Children \in Seq(STRING) /\ Bundle \in Seq([dir : STRING, name : STRING]) /\ Bundle # <<>>
  BY InitAssumption
<1>2. Len(Children) \in Nat /\ Len(Bundle) \in Nat
  BY <1>1
<1>3. Len(Bundle) # 0
  BY <1>1
<1> QED
  BY <1>2, <1>3

(* Bundle directories are the root or one of the children.                 *)
LEMMA ChildOf ==
    ASSUME NEW k \in 1..Len(Bundle), Bundle[k].dir # "", NEW j,
           j = CHOOSE i \in 1..Len(Children) : Children[i] = Bundle[k].dir
    PROVE  j \in 1..Len(Children) /\ Children[j] = Bundle[k].dir
  BY InitAssumption

LEMMA DirInBounds ==
    ASSUME NEW nd, NEW p, NEW c \in Call, PinnedOK(nd, p, c), c.root # None,
           Len(c.kids) = Len(Children), NEW k \in 1..Len(Bundle)
    PROVE  DirIn(c, Bundle[k].dir) \in 2..Len(nd) /\ nd[DirIn(c, Bundle[k].dir)].kind = "dir"
<1>1. CASE Bundle[k].dir = ""
  BY <1>1 DEF DirIn, PinnedOK
<1>2. CASE Bundle[k].dir # ""
  <2> DEFINE j == CHOOSE i \in 1..Len(Children) : Children[i] = Bundle[k].dir
  <2>1. j \in 1..Len(Children)
    BY <1>2, ChildOf
  <2>2. DirIn(c, Bundle[k].dir) = c.kids[j]
    BY <1>2 DEF DirIn
  <2> QED
    BY <2>1, <2>2 DEF PinnedOK
<1> QED
  BY <1>1, <1>2

LEMMA CallKept ==
    ASSUME NEW nd \in Seq(Inode), NEW nd2 \in Seq(Inode), NEW p, NEW c \in Call,
           CallOK(nd, p, c), Grown(nd, nd2)
    PROVE  CallOK(nd2, p, c)
<1>1. Len(nd) \in Nat /\ Len(nd2) \in Nat
  OBVIOUS
<1>2. PinnedOK(nd2, p, c)
  <2>1. c.root # None => c.root \in 2..Len(nd2) /\ nd2[c.root].kind = "dir"
    BY <1>1 DEF CallOK, PinnedOK, Grown
  <2>2. ASSUME NEW j \in 1..Len(c.kids)
        PROVE  c.kids[j] \in 2..Len(nd2) /\ c.root < c.kids[j] /\ nd2[c.kids[j]].kind = "dir"
    <3>1. c.kids[j] \in 2..Len(nd) /\ c.root < c.kids[j] /\ nd[c.kids[j]].kind = "dir"
      BY DEF CallOK, PinnedOK
    <3> QED
      BY <1>1, <3>1 DEF Grown
  <2>3. ASSUME NEW k \in 1..Len(c.files)
        PROVE  /\ c.files[k] \in 1..Len(nd2)
               /\ nd2[c.files[k]].kind = "file" /\ nd2[c.files[k]].owner = p
    <3>1. /\ c.files[k] \in 1..Len(nd)
          /\ nd[c.files[k]].kind = "file" /\ nd[c.files[k]].owner = p
      BY DEF CallOK, PinnedOK
    <3> QED
      BY <1>1, <3>1 DEF Grown
  <2> QED
    BY <2>1, <2>2, <2>3, Zenon DEF CallOK, PinnedOK
<1>3. ControlOK(nd2, p, c)
  BY <1>1 DEF CallOK, ControlOK, Grown, None
<1> QED
  BY <1>2, <1>3 DEF CallOK

(* More calls that failed excuse no less.                                  *)
LEMMA MoreStuck ==
    ASSUME NEW nd, NEW L, NEW c, NEW S, NEW S2, S \subseteq S2, AloneOK(nd, L, S, c)
    PROVE  AloneOK(nd, L, S2, c)
<1>1. ASSUME NEW l PROVE (l.ino \in S => l.ino \in S2) /\ (Left(L, S, c, l) => Left(L, S2, c, l))
  BY DEF Left
<1>2. ASSUME NEW l, Allowed(nd, L, S, c, l) PROVE Allowed(nd, L, S2, c, l)
  BY <1>1, <1>2, Zenon DEF Allowed
<1> QED
  BY <1>2, Zenon DEF AloneOK

(* What a step of p leaves to be shown.                                    *)
LEMMA OwnStep ==
    ASSUME BundleInv, NEW p \in Procs, OwnTree(p), me' \in [Procs -> Call],
           \A q \in Procs : q # p => me'[q] = me[q],
           CallOK(node', p, me'[p]),
           p \in calm' => CalmOK(node', links', above', me'[p]),
           p \in alone' => AloneOK(node', links', stuck', me'[p])
    PROVE  BundleInv'
<1>1. ASSUME NEW q \in Procs, q # p PROVE CallOK(node', q, me'[q])
  <2>1. me'[q] = me[q] /\ me[q] \in Call /\ CallOK(node, q, me[q])
    BY <1>1 DEF BundleInv
  <2>2. node \in Seq(Inode) /\ node' \in Seq(Inode) /\ Grown(node, node')
    BY DEF BundleInv, TreeOK, OwnTree
  <2> QED
    BY <2>1, <2>2, CallKept
<1>2. ASSUME NEW q \in Procs, q # p
      PROVE  /\ q \in calm' => CalmOK(node', links', above', me'[q])
             /\ q \in alone' => AloneOK(node', links', stuck', me'[q])
  <2>1. CASE DisturbedBy(p)
    BY <1>2, <2>1 DEF DisturbedBy
  <2>2. CASE UNCHANGED tree /\ calm' \subseteq calm \cup {p} /\ alone' = alone
    <3>1. node' = node /\ links' = links /\ above' = above /\ me'[q] = me[q]
      BY <1>2, <2>2 DEF tree
    <3>2. stuck \subseteq stuck'
      BY DEF OwnTree
    <3>3. q \in calm' => CalmOK(node', links', above', me'[q])
      BY <1>2, <2>2, <3>1 DEF BundleInv
    <3>4. q \in alone' => AloneOK(node, links, stuck, me[q])
      BY <1>2, <2>2, <3>1 DEF BundleInv
    <3>5. q \in alone' => AloneOK(node', links', stuck', me'[q])
      <4>1. q \in alone' => AloneOK(node, links, stuck', me[q])
        BY <3>2, <3>4, MoreStuck, Zenon
      <4> QED
        BY <3>1, <4>1
    <3> QED
      BY <3>3, <3>5
  <2> QED
    BY <2>1, <2>2 DEF OwnTree
<1> QED
  BY <1>1, <1>2 DEF BundleInv, OwnTree

-----------------------------------------------------------------------------
(* The steps of a call, field by field.                                    *)
LEMMA GoneTo ==
    ASSUME me \in [Procs -> Call], NEW p \in Procs, NEW pc \in Labels, Goto(p, pc)
    PROVE  Becomes(p, pc, me[p].at, me[p].seen, me[p].root, me[p].kids, me[p].files, me[p].code)
  BY DEF Goto, Becomes, Call

LEMMA Failed ==
    ASSUME me \in [Procs -> Call], NEW p \in Procs, NEW code \in Codes, Fail(p, code)
    PROVE  Becomes(p, "cleanfile", Len(me[p].files), me[p].seen, me[p].root, me[p].kids,
                   me[p].files, code)
<1>1. "cleanfile" \in Labels /\ Len(me[p].files) \in Nat
  BY DEF Labels, CleaningFiles, Call
<1> QED
  BY <1>1 DEF Fail, Becomes, Call

LEMMA Ended ==
    ASSUME me \in [Procs -> Call], NEW p \in Procs, NEW code \in Codes,
           me' = [me EXCEPT ![p].pc = "done", ![p].code = code]
    PROVE  Becomes(p, "done", me[p].at, me[p].seen, me[p].root, me[p].kids, me[p].files, code)
<1>1. "done" \in Labels
  BY DEF Labels
<1> QED
  BY <1>1 DEF Becomes, Call

LEMMA Seen ==
    ASSUME me \in [Procs -> Call], NEW p \in Procs, NEW pc \in Labels, NEW i \in Nat,
           me' = [me EXCEPT ![p].pc = pc, ![p].seen = i]
    PROVE  Becomes(p, pc, me[p].at, i, me[p].root, me[p].kids, me[p].files, me[p].code)
  BY DEF Becomes, Call

LEMMA Placed ==
    ASSUME me \in [Procs -> Call], NEW p \in Procs, NEW pc \in Labels, NEW i \in Nat,
           me' = [me EXCEPT ![p].pc = pc, ![p].at = i]
    PROVE  Becomes(p, pc, i, me[p].seen, me[p].root, me[p].kids, me[p].files, me[p].code)
  BY DEF Becomes, Call

LEMMA Stepped ==
    ASSUME me \in [Procs -> Call], NEW p \in Procs, NEW i \in Nat,
           me' = [me EXCEPT ![p].at = i]
    PROVE  Becomes(p, me[p].pc, i, me[p].seen, me[p].root, me[p].kids, me[p].files, me[p].code)
  BY DEF Becomes, Call

LEMMA PinnedRoot ==
    ASSUME me \in [Procs -> Call], NEW p \in Procs,
           me' = [me EXCEPT ![p].pc = "child", ![p].root = me[p].seen]
    PROVE  Becomes(p, "child", me[p].at, me[p].seen, me[p].seen, me[p].kids, me[p].files, me[p].code)
<1>1. "child" \in Labels
  BY DEF Labels, Filling
<1> QED
  BY <1>1 DEF Becomes, Call

LEMMA PinnedKid ==
    ASSUME me \in [Procs -> Call], NEW p \in Procs,
           me' = [me EXCEPT ![p].pc = "child", ![p].kids = Append(@, me[p].seen)]
    PROVE  Becomes(p, "child", me[p].at, me[p].seen, me[p].root,
                   Append(me[p].kids, me[p].seen), me[p].files, me[p].code)
<1>1. "child" \in Labels /\ Append(me[p].kids, me[p].seen) \in Seq(Nat)
  BY DEF Labels, Filling, Call
<1> QED
  BY <1>1 DEF Becomes, Call

LEMMA RecordedFile ==
    ASSUME me \in [Procs -> Call], NEW p \in Procs,
           me' = [me EXCEPT ![p].pc = "child", ![p].files = Append(@, me[p].seen)]
    PROVE  Becomes(p, "child", me[p].at, me[p].seen, me[p].root, me[p].kids,
                   Append(me[p].files, me[p].seen), me[p].code)
<1>1. "child" \in Labels /\ Append(me[p].files, me[p].seen) \in Seq(Nat)
  BY DEF Labels, Filling, Call
<1> QED
  BY <1>1 DEF Becomes, Call

-----------------------------------------------------------------------------
(* The steps of the tree.                                                  *)
LEMMA Looked ==
    ASSUME BundleInv, NEW p \in Procs, UNCHANGED tree, calm' \subseteq calm \cup {p},
           alone' = alone, stuck \subseteq stuck'
    PROVE  OwnTree(p)
  BY DEF BundleInv, OwnTree, Grown, tree, TreeOK

LEMMA Made ==
    ASSUME TreeOK(node, links), NEW d \in 1..Len(node), NEW n, NEW kind \in Kinds,
           NEW who \in Procs \cup {Nobody}, NEW content \in Contents, Entry(d, n) = None,
           Make(d, n, kind, who, content)
    PROVE  /\ Grown(node, node') /\ TreeOK(node', links')
           /\ Len(node') = Len(node) + 1 /\ Len(node) \in Nat
           /\ \A i \in 1..Len(node) : node'[i] = node[i]
           /\ node'[Len(node) + 1].kind = kind /\ node'[Len(node) + 1].owner = who
           /\ node'[Len(node) + 1].holds = content
           /\ DisturbedBy(who) /\ above' = above
<1> DEFINE new == [kind |-> kind, owner |-> who, holds |-> content]
           e == [dir |-> d, name |-> n, ino |-> Len(node) + 1]
<1>1. new \in Inode /\ new.kind = kind /\ new.owner = who /\ new.holds = content
  BY DEF Inode
<1>2. e.dir = d /\ e.name = n /\ e.ino = Len(node) + 1
  OBVIOUS
<1>3. node' = Append(node, new) /\ links' = links \cup {e} /\ DisturbedBy(who)
      /\ above' = above
  BY DEF Make
<1>4. \A l \in links : ~(l.dir = d /\ l.name = n)
  BY EntryFacts
<1> HIDE DEF new, e
<1>5. node \in Seq(Inode) /\ Len(node) \in Nat /\ Len(node) >= 1
  BY DEF TreeOK
<1>6. node' \in Seq(Inode) /\ Len(node') = Len(node) + 1 /\ node'[Len(node) + 1] = new
      /\ \A i \in 1..Len(node) : node'[i] = node[i]
  BY <1>1, <1>3, <1>5
<1>7. \A l \in links' : l.dir \in 1..Len(node') /\ l.ino \in 1..Len(node') /\ l.dir < l.ino
  <2>1. ASSUME NEW l \in links
        PROVE  l.dir \in 1..Len(node') /\ l.ino \in 1..Len(node') /\ l.dir < l.ino
    BY <1>5, <1>6 DEF TreeOK
  <2>2. e.dir \in 1..Len(node') /\ e.ino \in 1..Len(node') /\ e.dir < e.ino
    BY <1>2, <1>5, <1>6
  <2> QED
    BY <1>3, <2>1, <2>2
<1>8. \A l, m \in links' : l.dir = m.dir /\ l.name = m.name => l = m
  BY <1>2, <1>3, <1>4 DEF TreeOK
<1>9. TreeOK(node', links')
  BY <1>5, <1>6, <1>7, <1>8 DEF TreeOK
<1>10. Grown(node, node')
  BY <1>5, <1>6 DEF Grown
<1> QED
  BY <1>1, <1>3, <1>5, <1>6, <1>9, <1>10

LEMMA Removed ==
    ASSUME BundleInv, NEW p \in Procs, NEW d, NEW n, Remove(p, d, n), stuck' = stuck
    PROVE  OwnTree(p) /\ links' \subseteq links /\ node' = node
           /\ \A l \in links' : ~(l.dir = d /\ l.name = n)
  BY DEF BundleInv, OwnTree, Grown, TreeOK, Remove

(* p has made an entry n of directory d.                                   *)
OwnEntry(p, d, n, kind) ==
    /\ OwnTree(p)
    /\ Len(node') = Len(node) + 1 /\ Len(node) \in Nat
    /\ \A i \in 1..Len(node) : node'[i] = node[i]
    /\ node'[Len(node) + 1].kind = kind /\ node'[Len(node) + 1].owner = p
    /\ \A l \in links' : l \in links \/ (l.dir = d /\ l.name = n /\ l.ino = Len(node) + 1)
    /\ p \in alone' => p \in alone

LEMMA MadeOwn ==
    ASSUME BundleInv, NEW p \in Procs, NEW d \in 1..Len(node), NEW n, NEW kind \in Kinds,
           Entry(d, n) = None, Make(d, n, kind, p, ""), stuck' = stuck
    PROVE  OwnEntry(p, d, n, kind)
<1>1. "" \in Contents
  BY DEF Contents
<1>2. /\ Grown(node, node') /\ TreeOK(node', links')
      /\ Len(node') = Len(node) + 1 /\ Len(node) \in Nat
      /\ \A i \in 1..Len(node) : node'[i] = node[i]
      /\ node'[Len(node) + 1].kind = kind /\ node'[Len(node) + 1].owner = p
      /\ node'[Len(node) + 1].holds = "" /\ DisturbedBy(p)
  <2>1. TreeOK(node, links) /\ p \in Procs \cup {Nobody}
    BY DEF BundleInv
  <2> QED
    BY <1>1, <2>1, Made, Zenon
<1>3. \A l \in links' : l \in links \/ (l.dir = d /\ l.name = n /\ l.ino = Len(node) + 1)
  <2> DEFINE e == [dir |-> d, name |-> n, ino |-> Len(node) + 1]
  <2>1. e.dir = d /\ e.name = n /\ e.ino = Len(node) + 1
    OBVIOUS
  <2>2. links' = links \cup {e}
    BY DEF Make
  <2> HIDE DEF e
  <2> QED
    BY <2>1, <2>2
<1>4. OwnTree(p)
  BY <1>2 DEF OwnTree
<1>5. p \in alone' => p \in alone
  BY <1>2 DEF DisturbedBy
<1> QED
  BY <1>2, <1>3, <1>4, <1>5 DEF OwnEntry

(* Writing into a file keeps every inode what it is.                       *)
LEMMA Written ==
    ASSUME TreeOK(node, links), NEW i \in 1..Len(node), NEW content \in Contents,
           node' = [node EXCEPT ![i].holds = content], links' = links
    PROVE  /\ Grown(node, node') /\ TreeOK(node', links') /\ Len(node') = Len(node)
           /\ node'[i].holds = content
           /\ \A k \in 1..Len(node) : k # i => node'[k] = node[k]
<1>1. node \in Seq(Inode) /\ Len(node) \in Nat
  BY DEF TreeOK
<1>2. node[i] \in Inode
  BY <1>1
<1>3. [node[i] EXCEPT !.holds = content] \in Inode
      /\ [node[i] EXCEPT !.holds = content].kind = node[i].kind
      /\ [node[i] EXCEPT !.holds = content].owner = node[i].owner
      /\ [node[i] EXCEPT !.holds = content].holds = content
  BY <1>2 DEF Inode
<1> DEFINE new == [node[i] EXCEPT !.holds = content]
<1>4. node' = [node EXCEPT ![i] = new]
  OBVIOUS
<1> HIDE DEF new
<1>5. node' \in Seq(Inode) /\ Len(node') = Len(node) /\ node'[i] = new
      /\ \A k \in 1..Len(node) : k # i => node'[k] = node[k]
  BY <1>1, <1>3, <1>4 DEF new
<1> QED
  BY <1>1, <1>3, <1>5 DEF new, Grown, TreeOK

-----------------------------------------------------------------------------
(* What a call has recorded does not depend on where it is.                *)
LEMMA SameRecords ==
    ASSUME NEW c, NEW c2, c2.root = c.root, c2.kids = c.kids, c2.files = c.files
    PROVE  /\ \A name : DirIn(c2, name) = DirIn(c, name)
           /\ \A l : RootEntry(c2, l) <=> RootEntry(c, l)
           /\ \A l, n : ChildEntry(c2, l, n) <=> ChildEntry(c, l, n)
           /\ \A l, n : FileEntry(c2, l, n) <=> FileEntry(c, l, n)
           /\ \A l : Recorded(c2, l) <=> Recorded(c, l)
           /\ \A L, k : FileAt(L, c2, k) <=> FileAt(L, c, k)
           /\ \A nd, p : PinnedOK(nd, p, c2) <=> PinnedOK(nd, p, c)
<1>1. \A name : DirIn(c2, name) = DirIn(c, name)
  BY DEF DirIn
<1>2. \A l : RootEntry(c2, l) <=> RootEntry(c, l)
  BY DEF RootEntry
<1>3. \A l, n : ChildEntry(c2, l, n) <=> ChildEntry(c, l, n)
  BY DEF ChildEntry
<1>4. \A l, n : FileEntry(c2, l, n) <=> FileEntry(c, l, n)
  BY <1>1 DEF FileEntry
<1>5. \A l : Recorded(c2, l) <=> Recorded(c, l)
  BY <1>2, <1>3, <1>4 DEF Recorded
<1>6. \A L, k : FileAt(L, c2, k) <=> FileAt(L, c, k)
  BY <1>1 DEF FileAt
<1>7. \A nd, p : PinnedOK(nd, p, c2) <=> PinnedOK(nd, p, c)
  BY DEF PinnedOK
<1> QED
  BY <1>1, <1>2, <1>3, <1>4, <1>5, <1>6, <1>7

(* The call of p fits the tree after the step as well as before.           *)
LEMMA OwnCallKept ==
    ASSUME BundleInv, NEW p \in Procs, OwnTree(p)
    PROVE  me \in [Procs -> Call] /\ me[p] \in Call /\ CallOK(node', p, me[p])
           /\ PinnedOK(node', p, me[p]) /\ ControlOK(node', p, me[p])
<1>1. node \in Seq(Inode) /\ node' \in Seq(Inode) /\ Grown(node, node')
  BY DEF BundleInv, TreeOK, OwnTree
<1>2. me[p] \in Call /\ CallOK(node, p, me[p]) /\ me \in [Procs -> Call]
  BY DEF BundleInv
<1>3. CallOK(node', p, me[p])
  BY <1>1, <1>2, CallKept
<1> QED
  BY <1>2, <1>3 DEF CallOK

(* Failing is safe wherever every entry is recorded, or was left by the    *)
(* call that failed.                                                       *)
LEMMA FailKeeps ==
    ASSUME BundleInv, NEW p \in Procs, OwnTree(p), NEW code \in Codes, code # "OK",
           Fail(p, code),
           p \in alone' => /\ \A l \in links' : \/ Recorded(me[p], l)
                                                \/ l.ino \in stuck'
    PROVE  BundleInv'
<1> DEFINE c == me[p]
           c2 == me'[p]
<1>1. me \in [Procs -> Call] /\ c \in Call /\ PinnedOK(node', p, c)
  BY OwnCallKept
<1>2. Becomes(p, "cleanfile", Len(c.files), c.seen, c.root, c.kids, c.files, code)
  BY <1>1, Failed
<1>3. /\ me' \in [Procs -> Call] /\ c2 \in Call /\ \A q \in Procs : q # p => me'[q] = me[q]
      /\ c2.pc = "cleanfile" /\ c2.at = Len(c.files) /\ c2.code # "OK"
      /\ c2.root = c.root /\ c2.kids = c.kids /\ c2.files = c.files
  BY <1>2 DEF Becomes
<1> HIDE DEF c, c2
<1>4. CallOK(node', p, c2)
  <2>1. PinnedOK(node', p, c2)
    BY <1>1, <1>3, SameRecords
  <2>2. Len(c.files) \in Nat
    BY <1>1 DEF Call
  <2>3. ControlOK(node', p, c2)
    BY <1>3, <2>2 DEF ControlOK, Beginning, Filling, Verifying, CleaningChildren, CleaningFiles
  <2> QED
    BY <2>1, <2>3 DEF CallOK
<1>5. CalmOK(node', links', above', c2)
  BY <1>3 DEF CalmOK, Verifying
<1>6. ASSUME p \in alone' PROVE AloneOK(node', links', stuck', c2)
  <2>1. ASSUME NEW l \in links' PROVE Allowed(node', links', stuck', c2, l)
    <3>1. Recorded(c, l) \/ l.ino \in stuck'
      BY <1>6 DEF c
    <3>2. \/ RootEntry(c2, l) \/ ChildEntry(c2, l, Len(c2.kids)) \/ FileEntry(c2, l, c2.at)
          \/ l.ino \in stuck'
      BY <1>3, <3>1, SameRecords DEF Recorded
    <3> QED
      BY <1>3, <3>2 DEF Allowed, Verifying, CleaningChildren, CleaningFiles
  <2> QED
    BY <1>6, <2>1 DEF AloneOK
<1> QED
  BY <1>3, <1>4, <1>5, <1>6, OwnStep DEF c2

LEMMA LookFailKeeps ==
    ASSUME BundleInv, NEW p \in Procs, NEW code \in Codes, code # "OK", Fail(p, code),
           UNCHANGED tree, calm' \subseteq calm \cup {p}, alone' = alone, stuck' = stuck,
           p \in alone => \A l \in links : Recorded(me[p], l)
    PROVE  BundleInv'
<1>1. OwnTree(p)
  BY Looked
<1>2. p \in alone' => \A l \in links' : Recorded(me[p], l)
  BY DEF tree
<1> QED
  BY <1>1, <1>2, FailKeeps

(* A step of p that pins and records nothing.                              *)
LEMMA StepKeeps ==
    ASSUME BundleInv, NEW p \in Procs, OwnTree(p), NEW pc, NEW at, NEW seen, NEW code,
           Becomes(p, pc, at, seen, me[p].root, me[p].kids, me[p].files, code),
           ControlOK(node', p, me'[p]),
           p \in calm' => CalmOK(node', links', above', me'[p]),
           p \in alone' => /\ \A l \in links' : Allowed(node', links', stuck', me'[p], l)
    PROVE  BundleInv'
<1>1. PinnedOK(node', p, me[p])
  BY OwnCallKept
<1>2. /\ me' \in [Procs -> Call] /\ \A q \in Procs : q # p => me'[q] = me[q]
      /\ me'[p].root = me[p].root /\ me'[p].kids = me[p].kids /\ me'[p].files = me[p].files
  BY DEF Becomes
<1>3. PinnedOK(node', p, me'[p])
  BY <1>1, <1>2, SameRecords
<1> QED
  BY <1>2, <1>3, OwnStep DEF CallOK, AloneOK

-----------------------------------------------------------------------------
(* From the beginning to the pinned output.                                *)
(* Before anything of the output is made, a call may also just be over.    *)
LEMMA EarlyKeeps ==
    ASSUME BundleInv, NEW p \in Procs, OwnTree(p), NEW pc \in Labels, NEW code \in Codes,
           me[p].pc \in {"start", "mkparent", "openparent"}, node' = node, links' = links,
           p \in alone' => p \in alone,
           Becomes(p, pc, me[p].at, me[p].seen, me[p].root, me[p].kids, me[p].files, code),
           (pc \in {"mkparent", "openparent", "stat"} /\ code = me[p].code) \/ pc = "done"
    PROVE  BundleInv'
<1> USE DEF Beginning, Filling, Verifying, CleaningFiles, CleaningChildren
<1>1. ControlOK(node', p, me[p])
  BY OwnCallKept
<1>2. p \in alone' => \A l \in links' : FALSE
  BY DEF BundleInv, AloneOK, Allowed
<1>3. me'[p].pc = pc /\ me'[p].root = me[p].root /\ me'[p].code = code
  BY DEF Becomes
<1>4. ControlOK(node', p, me'[p])
  BY <1>1, <1>3 DEF ControlOK
<1>5. CalmOK(node', links', above', me'[p])
  BY <1>3 DEF CalmOK
<1> QED
  BY <1>2, <1>4, <1>5, StepKeeps

LEMMA RefuseKeeps ==
    ASSUME BundleInv, NEW p \in Procs, me[p].pc \in {"start", "mkparent", "openparent"},
           UNCHANGED tree, calm' = calm, alone' = alone, stuck' = stuck,
           NEW code \in Codes, Refuse(p, code)
    PROVE  BundleInv'
<1>1. OwnTree(p) /\ node' = node /\ links' = links
  BY Looked DEF tree
<1>2. me \in [Procs -> Call] /\ "done" \in Labels
  BY DEF BundleInv, Labels
<1>3. Becomes(p, "done", me[p].at, me[p].seen, me[p].root, me[p].kids, me[p].files, code)
  BY <1>2, Ended DEF Refuse
<1> QED
  BY <1>1, <1>2, <1>3, EarlyKeeps

LEMMA BeginKeeps ==
    ASSUME BundleInv, NEW p \in Procs, Begin(p)
    PROVE  BundleInv'
<1>1. /\ me[p].pc = "start" /\ UNCHANGED tree /\ calm' = calm /\ alone' = alone /\ stuck' = stuck
      /\ node' = node /\ links' = links
  BY DEF Begin, Look, tree
<1>2. CASE Goto(p, "mkparent")
  <2>1. "mkparent" \in Labels /\ OwnTree(p) /\ me \in [Procs -> Call] /\ me[p].code \in Codes
    BY <1>1, Looked DEF Labels, Beginning, BundleInv, Call
  <2>2. Becomes(p, "mkparent", me[p].at, me[p].seen, me[p].root, me[p].kids, me[p].files,
                me[p].code)
    BY <1>2, <2>1, GoneTo
  <2> QED
    BY <1>1, <2>1, <2>2, EarlyKeeps
<1>3. CASE Refuse(p, "DEMO_ASSET_INVALID")
  <2>1. "DEMO_ASSET_INVALID" \in Codes
    BY DEF Codes
  <2> QED
    BY <1>1, <1>3, <2>1, RefuseKeeps
<1> QED
  BY <1>2, <1>3 DEF Begin

LEMMA MkdirParentKeeps ==
    ASSUME BundleInv, NEW p \in Procs, MkdirParent(p)
    PROVE  BundleInv'
<1>1. /\ me[p].pc = "mkparent" /\ node' = node /\ links' = links /\ stuck' = stuck
      /\ Goto(p, "openparent")
  BY DEF MkdirParent
<1>2. \/ DisturbedBy(p)
      \/ UNCHANGED tree /\ calm' = calm /\ alone' = alone
  BY DEF MkdirParent, tree
<1>3. OwnTree(p)
  BY <1>1, <1>2 DEF OwnTree, BundleInv, Grown, TreeOK
<1>4. p \in alone' => p \in alone
  BY <1>2 DEF DisturbedBy
<1>5. "openparent" \in Labels /\ me \in [Procs -> Call] /\ me[p].code \in Codes
  BY DEF Labels, Beginning, BundleInv, Call
<1>6. Becomes(p, "openparent", me[p].at, me[p].seen, me[p].root, me[p].kids, me[p].files,
              me[p].code)
  BY <1>1, <1>5, GoneTo
<1> QED
  BY <1>1, <1>3, <1>4, <1>5, <1>6, EarlyKeeps

LEMMA OpenParentKeeps ==
    ASSUME BundleInv, NEW p \in Procs, OpenParent(p)
    PROVE  BundleInv'
<1>1. /\ me[p].pc = "openparent" /\ UNCHANGED tree /\ calm' = calm /\ alone' = alone
      /\ stuck' = stuck /\ node' = node /\ links' = links
  BY DEF OpenParent, Look, tree
<1>2. CASE Goto(p, "stat")
  <2>1. "stat" \in Labels /\ OwnTree(p) /\ me \in [Procs -> Call] /\ me[p].code \in Codes
    BY <1>1, Looked DEF Labels, Beginning, BundleInv, Call
  <2>2. Becomes(p, "stat", me[p].at, me[p].seen, me[p].root, me[p].kids, me[p].files, me[p].code)
    BY <1>2, <2>1, GoneTo
  <2> QED
    BY <1>1, <2>1, <2>2, EarlyKeeps
<1>3. CASE Refuse(p, "DEMO_OUTPUT_UNAVAILABLE")
  <2>1. "DEMO_OUTPUT_UNAVAILABLE" \in Codes
    BY DEF Codes
  <2> QED
    BY <1>1, <1>3, <2>1, RefuseKeeps
<1> QED
  BY <1>2, <1>3 DEF OpenParent

LEMMA ParentFailsKeeps ==
    ASSUME BundleInv, NEW p \in Procs, ParentFails(p)
    PROVE  BundleInv'
<1>1. "DEMO_OUTPUT_UNAVAILABLE" \in Codes
  BY DEF Codes
<1>2. /\ me[p].pc \in {"start", "mkparent", "openparent"} /\ UNCHANGED tree /\ calm' = calm
      /\ alone' = alone /\ stuck' = stuck /\ Refuse(p, "DEMO_OUTPUT_UNAVAILABLE")
  BY DEF ParentFails
<1> QED
  BY <1>1, <1>2, RefuseKeeps

LEMMA StatKeeps ==
    ASSUME BundleInv, NEW p \in Procs, StatOutput(p)
    PROVE  BundleInv'
<1> USE DEF Beginning, Filling, Verifying, CleaningFiles, CleaningChildren
<1>1. me[p].pc = "stat" /\ UNCHANGED tree /\ calm' = calm /\ alone' = alone /\ stuck' = stuck
  BY DEF StatOutput, Look
<1>2. OwnTree(p)
  BY <1>1, Looked
<1>3. me \in [Procs -> Call] /\ ControlOK(node', p, me[p])
  BY <1>2, OwnCallKept
<1>4. p \in alone' => \A l \in links' : FALSE
  BY <1>1 DEF BundleInv, AloneOK, Allowed, tree
<1>5. CASE Goto(p, "mkdir")
  <2>1. "mkdir" \in Labels
    BY DEF Labels
  <2>2. Becomes(p, "mkdir", me[p].at, me[p].seen, me[p].root, me[p].kids, me[p].files, me[p].code)
    BY <1>3, <1>5, <2>1, GoneTo
  <2>3. ControlOK(node', p, me'[p])
    BY <1>1, <1>3, <2>2 DEF ControlOK, Becomes
  <2>4. CalmOK(node', links', above', me'[p])
    BY <2>2 DEF CalmOK, Becomes
  <2> QED
    BY <1>2, <1>4, <2>2, <2>3, <2>4, StepKeeps
<1>6. CASE Fail(p, "DEMO_OUTPUT_EXISTS")
  <2>1. "DEMO_OUTPUT_EXISTS" \in Codes
    BY DEF Codes
  <2> QED
    BY <1>2, <1>4, <1>6, <2>1, FailKeeps
<1> QED
  BY <1>5, <1>6 DEF StatOutput

LEMMA MkdirOutputKeeps ==
    ASSUME BundleInv, NEW p \in Procs, MkdirOutput(p)
    PROVE  BundleInv'
<1> USE DEF Beginning, Filling, Verifying, CleaningFiles, CleaningChildren
<1>1. me[p].pc = "mkdir" /\ stuck' = stuck
  BY DEF MkdirOutput, MakeDirectory
<1>2. p \in alone => \A l \in links : FALSE
  BY <1>1 DEF BundleInv, AloneOK, Allowed
<1>3. CASE Entry(Parent, Output) = None /\ Make(Parent, Output, "dir", p, "") /\ Goto(p, "open")
  <2>1. "open" \in Labels /\ "dir" \in Kinds
    BY DEF Labels, Kinds
  <2>2. Parent \in 1..Len(node)
    BY DEF BundleInv, TreeOK, Parent
  <2>3. OwnEntry(p, Parent, Output, "dir") /\ OwnTree(p)
    <3>1. OwnEntry(p, Parent, Output, "dir")
      BY <1>1, <1>3, <2>1, <2>2, MadeOwn, Zenon
    <3> QED
      BY <3>1, Zenon DEF OwnEntry
  <2>4. me \in [Procs -> Call] /\ ControlOK(node', p, me[p])
    BY <2>3, OwnCallKept
  <2>5. Becomes(p, "open", me[p].at, me[p].seen, me[p].root, me[p].kids, me[p].files, me[p].code)
    BY <1>3, <2>1, <2>4, GoneTo
  <2>6. ControlOK(node', p, me'[p])
    BY <1>1, <2>4, <2>5 DEF ControlOK, Becomes
  <2>7. CalmOK(node', links', above', me'[p])
    BY <2>5 DEF CalmOK, Becomes
  <2>8. ASSUME p \in alone'
        PROVE  \A l \in links' : Allowed(node', links', stuck', me'[p], l)
    <3>1. \A l \in links : FALSE
      BY <1>2, <2>3, <2>8 DEF OwnEntry
    <3>2. \A l \in links' : l.dir = Parent /\ l.name = Output /\ l.ino = Len(node) + 1
      BY <2>3, <3>1 DEF OwnEntry
    <3>3. node'[Len(node) + 1].kind = "dir"
      BY <2>3, <3>1 DEF OwnEntry
    <3> QED
      BY <2>5, <3>2, <3>3 DEF Allowed, Becomes
  <2> QED
    BY <2>3, <2>5, <2>6, <2>7, <2>8, StepKeeps
<1>4. CASE Fail(p, "DEMO_OUTPUT_EXISTS") /\ UNCHANGED <<tree, calm, alone>>
  <2>1. "DEMO_OUTPUT_EXISTS" \in Codes
    BY DEF Codes
  <2> QED
    BY <1>1, <1>2, <1>4, <2>1, LookFailKeeps
<1> QED
  BY <1>3, <1>4 DEF MkdirOutput, MakeDirectory

LEMMA OpenOutputKeeps ==
    ASSUME BundleInv, NEW p \in Procs, OpenOutput(p)
    PROVE  BundleInv'
<1> USE DEF Beginning, Filling, Verifying, CleaningFiles, CleaningChildren
<1> DEFINE e == Entry(Parent, Output)
<1>1. /\ me[p].pc = "open" /\ UNCHANGED tree /\ calm' = calm /\ alone' = alone /\ stuck' = stuck
      /\ node' = node /\ links' = links
  BY DEF OpenOutput, OpenDirectory, Look, tree
<1>2. OwnTree(p) /\ TreeOK(node, links)
  BY <1>1, Looked DEF BundleInv
<1>3. me \in [Procs -> Call] /\ ControlOK(node', p, me[p])
  BY <1>2, OwnCallKept
<1>4. /\ \A l \in links : l.dir = Parent /\ l.name = Output => e = l.ino /\ l.ino # None
      /\ e # None => e \in 2..Len(node)
  BY <1>2, EntryFacts
<1>5. p \in alone => /\ \A l \in links : l.dir = Parent /\ l.name = Output /\ node[l.ino].kind = "dir"
  BY <1>1 DEF BundleInv, AloneOK, Allowed
<1>6. CASE IsDir(e) /\ me' = [me EXCEPT ![p].pc = "pin", ![p].seen = e]
  <2>1. "pin" \in Labels /\ e \in Nat /\ e \in 1..Len(node) /\ node[e].kind = "dir"
    BY <1>4, <1>6 DEF Labels, IsDir
  <2>2. Becomes(p, "pin", me[p].at, e, me[p].root, me[p].kids, me[p].files, me[p].code)
    BY <1>3, <1>6, <2>1, Seen
  <2> HIDE DEF e
  <2>3. ControlOK(node', p, me'[p])
    BY <1>1, <1>3, <2>1, <2>2 DEF ControlOK, Becomes
  <2>4. CalmOK(node', links', above', me'[p])
    BY <2>2 DEF CalmOK, Becomes
  <2>5. p \in alone' => \A l \in links' : Allowed(node', links', stuck', me'[p], l)
    BY <1>1, <1>4, <1>5, <2>2 DEF Allowed, Becomes
  <2> QED
    BY <1>2, <2>2, <2>3, <2>4, <2>5, StepKeeps
<1>7. CASE ~IsDir(e) /\ Fail(p, "DEMO_OUTPUT_RACE_DETECTED")
  <2>1. "DEMO_OUTPUT_RACE_DETECTED" \in Codes
    BY DEF Codes
  <2>2. p \in alone => \A l \in links : Recorded(me[p], l)
    BY <1>4, <1>5, <1>7 DEF IsDir
  <2> QED
    BY <1>1, <1>7, <2>1, <2>2, LookFailKeeps
<1> QED
  BY <1>6, <1>7 DEF OpenOutput, OpenDirectory

LEMMA PinOutputKeeps ==
    ASSUME BundleInv, NEW p \in Procs, PinOutput(p)
    PROVE  BundleInv'
<1> USE DEF Beginning, Filling, Verifying, CleaningFiles, CleaningChildren
<1> DEFINE e == Entry(Parent, Output)
           c == me[p]
           c2 == me'[p]
<1>1. /\ c.pc = "pin" /\ UNCHANGED tree /\ calm' = calm /\ alone' = alone /\ stuck' = stuck
      /\ node' = node /\ links' = links
  BY DEF PinOutput, Look, tree
<1>2. OwnTree(p) /\ TreeOK(node, links)
  BY <1>1, Looked DEF BundleInv
<1>3. me \in [Procs -> Call] /\ c \in Call /\ PinnedOK(node', p, c) /\ ControlOK(node', p, c)
  BY <1>2, OwnCallKept
<1>4. /\ \A l \in links : l.dir = Parent /\ l.name = Output => e = l.ino
      /\ e # None => e \in 2..Len(node)
  BY <1>2, EntryFacts
<1>5. p \in alone => /\ \A l \in links : l.dir = Parent /\ l.name = Output /\ l.ino = c.seen
  BY <1>1 DEF BundleInv, AloneOK, Allowed
<1>6. CASE e = c.seen /\ me' = [me EXCEPT ![p].pc = "child", ![p].root = c.seen]
  <2>1. Becomes(p, "child", c.at, c.seen, c.seen, c.kids, c.files, c.code)
    BY <1>3, <1>6, PinnedRoot
  <2>2. /\ me' \in [Procs -> Call] /\ \A q \in Procs : q # p => me'[q] = me[q]
        /\ c2.pc = "child" /\ c2.root = c.seen /\ c2.kids = c.kids /\ c2.files = c.files
        /\ c2.code = c.code
    BY <2>1 DEF Becomes
  <2>3. c.root = None /\ c.seen \in 2..Len(node) /\ node[c.seen].kind = "dir" /\ c.code # "OK"
    BY <1>1, <1>3, <1>4, <1>6 DEF ControlOK, None
  <2> HIDE DEF c, c2, e
  <2>4. PinnedOK(node', p, c2)
    <3>1. Len(c.kids) = 0 /\ Len(c.files) \in Nat
      BY <1>3, <2>3 DEF PinnedOK, Call
    <3>2. Len(c.files) = 0
      BY <1>3, <2>3, <3>1 DEF PinnedOK
    <3> QED
      BY <1>1, <1>3, <2>2, <2>3, <3>1, <3>2 DEF PinnedOK, None
  <2>5. ControlOK(node', p, c2)
    BY <2>2, <2>3 DEF ControlOK, None
  <2>6. CalmOK(node', links', above', c2)
    BY <2>2 DEF CalmOK
  <2>7. ASSUME p \in alone' PROVE AloneOK(node', links', stuck', c2)
    <3>1. \A l \in links' : RootEntry(c2, l)
      BY <1>1, <1>5, <2>2, <2>3, <2>7 DEF RootEntry, None
    <3> QED
      BY <1>1, <1>5, <2>2, <2>7, <3>1 DEF AloneOK, Allowed, Recorded
  <2> QED
    BY <1>2, <2>2, <2>4, <2>5, <2>6, <2>7, OwnStep DEF CallOK, c2
<1>7. CASE e # c.seen /\ Fail(p, "DEMO_OUTPUT_RACE_DETECTED")
  <2>1. "DEMO_OUTPUT_RACE_DETECTED" \in Codes
    BY DEF Codes
  <2>2. p \in alone => \A l \in links : Recorded(me[p], l)
    BY <1>4, <1>5, <1>7
  <2> QED
    BY <1>1, <1>7, <2>1, <2>2, LookFailKeeps
<1> QED
  BY <1>6, <1>7 DEF PinOutput

-----------------------------------------------------------------------------
(* The directories of the bundle.                                          *)
LEMMA MkdirChildKeeps ==
    ASSUME BundleInv, NEW p \in Procs, MkdirChild(p)
    PROVE  BundleInv'
<1> USE DEF Beginning, Filling, Verifying, CleaningFiles, CleaningChildren
<1> DEFINE c == me[p]
           c2 == me'[p]
           n == NextChild(p)
<1>1. c.pc = "child" /\ stuck' = stuck /\ Len(c.kids) < Len(Children)
  BY DEF MkdirChild, MakeDirectory, MoreChildren
<1>2. c \in Call /\ PinnedOK(node, p, c) /\ ControlOK(node, p, c)
  BY DEF BundleInv, CallOK
<1>3. c.root \in 2..Len(node) /\ c.root # None
  BY <1>1, <1>2 DEF PinnedOK, ControlOK
<1>4. p \in alone => \A l \in links : Recorded(c, l)
  BY <1>1 DEF BundleInv, AloneOK, Allowed
<1>5. CASE Entry(c.root, n) = None /\ Make(c.root, n, "dir", p, "") /\ Goto(p, "openchild")
  <2>1. "openchild" \in Labels /\ "dir" \in Kinds
    BY DEF Labels, Kinds
  <2>2. c.root \in 1..Len(node)
    BY <1>3
  <2>3. OwnEntry(p, c.root, n, "dir")
    BY <1>1, <1>5, <2>1, <2>2, MadeOwn, Zenon
  <2>4. OwnTree(p)
    BY <2>3, Zenon DEF OwnEntry
  <2>5. me \in [Procs -> Call] /\ ControlOK(node', p, c)
    BY <2>4, OwnCallKept
  <2>6. Becomes(p, "openchild", c.at, c.seen, c.root, c.kids, c.files, c.code)
    BY <1>5, <2>1, <2>5, GoneTo
  <2>7. /\ c2.pc = "openchild" /\ c2.root = c.root /\ c2.kids = c.kids /\ c2.files = c.files
        /\ c2.code = c.code
    BY <2>6 DEF Becomes
  <2> HIDE DEF c2
  <2>8. ControlOK(node', p, c2)
    BY <1>1, <1>3, <2>5, <2>7 DEF ControlOK
  <2>9. CalmOK(node', links', above', c2)
    BY <2>7 DEF CalmOK
  <2>10. ASSUME p \in alone'
         PROVE  \A l \in links' : Allowed(node', links', stuck', c2, l)
    <3>1. \A l \in links : Recorded(c, l)
      BY <1>4, <2>3, <2>10 DEF OwnEntry
    <3>2. ASSUME NEW l \in links'
          PROVE  Recorded(c2, l) \/ (l.dir = c2.root /\ l.name = Children[Len(c2.kids) + 1]
                                       /\ node'[l.ino].kind = "dir")
      <4>1. l \in links \/ (l.dir = c.root /\ l.name = n /\ node'[l.ino].kind = "dir")
        BY <2>3 DEF OwnEntry
      <4>2. l \in links => Recorded(c2, l)
        BY <2>7, <3>1, SameRecords
      <4> QED
        BY <2>7, <4>1, <4>2 DEF NextChild
    <3> QED
      BY <2>7, <3>1, <3>2 DEF Allowed
  <2> QED
    BY <2>4, <2>6, <2>8, <2>9, <2>10, StepKeeps DEF c2
<1>6. CASE Fail(p, "DEMO_OUTPUT_EXISTS") /\ UNCHANGED <<tree, calm, alone>>
  <2>1. "DEMO_OUTPUT_EXISTS" \in Codes
    BY DEF Codes
  <2> QED
    BY <1>1, <1>4, <1>6, <2>1, LookFailKeeps
<1> QED
  BY <1>5, <1>6 DEF MkdirChild, MakeDirectory

LEMMA OpenChildKeeps ==
    ASSUME BundleInv, NEW p \in Procs, OpenChild(p)
    PROVE  BundleInv'
<1> USE DEF Beginning, Filling, Verifying, CleaningFiles, CleaningChildren
<1> DEFINE c == me[p]
           c2 == me'[p]
           n == Children[Len(c.kids) + 1]
           e == Entry(c.root, n)
<1>1. /\ c.pc = "openchild" /\ Len(c.kids) < Len(Children)
      /\ UNCHANGED tree /\ calm' = calm /\ alone' = alone /\ stuck' = stuck
      /\ node' = node /\ links' = links
  BY DEF OpenChild, OpenDirectory, MoreChildren, Look, tree
<1>2. OwnTree(p) /\ TreeOK(node, links)
  BY <1>1, Looked DEF BundleInv
<1>3. me \in [Procs -> Call] /\ ControlOK(node', p, c)
  BY <1>2, OwnCallKept
<1>4. /\ \A l \in links : l.dir = c.root /\ l.name = n => e = l.ino /\ l.ino # None
      /\ e # None => e \in 2..Len(node)
  BY <1>2, EntryFacts
<1>5. p \in alone => /\ \A l \in links : Recorded(c, l) \/ (l.dir = c.root /\ l.name = n
                                                              /\ node[l.ino].kind = "dir")
  BY <1>1 DEF BundleInv, AloneOK, Allowed
<1>6. CASE IsDir(e) /\ me' = [me EXCEPT ![p].pc = "pinchild", ![p].seen = e]
  <2>1. "pinchild" \in Labels /\ e \in Nat /\ e \in 1..Len(node) /\ node[e].kind = "dir"
    BY <1>4, <1>6 DEF Labels, IsDir
  <2>2. Becomes(p, "pinchild", c.at, e, c.root, c.kids, c.files, c.code)
    BY <1>3, <1>6, <2>1, Seen
  <2>3. /\ c2.pc = "pinchild" /\ c2.seen = e /\ c2.root = c.root /\ c2.kids = c.kids
        /\ c2.files = c.files /\ c2.code = c.code
    BY <2>2 DEF Becomes
  <2> HIDE DEF c, c2, e, n
  <2>4. ControlOK(node', p, c2)
    BY <1>1, <1>3, <2>1, <2>3 DEF ControlOK
  <2>5. CalmOK(node', links', above', c2)
    BY <2>3 DEF CalmOK
  <2>6. ASSUME p \in alone'
        PROVE  \A l \in links' : Allowed(node', links', stuck', c2, l)
    <3>1. ASSUME NEW l \in links
          PROVE  Recorded(c2, l) \/ (l.dir = c2.root /\ l.name = Children[Len(c2.kids) + 1]
                                       /\ l.ino = c2.seen)
      BY <1>1, <1>4, <1>5, <2>3, <2>6, SameRecords DEF n
    <3> QED
      BY <1>1, <1>5, <2>3, <2>6, <3>1 DEF Allowed
  <2> QED
    BY <1>2, <2>2, <2>4, <2>5, <2>6, StepKeeps DEF c, c2
<1>7. CASE ~IsDir(e) /\ Fail(p, "DEMO_OUTPUT_WRITE_FAILED")
  <2>1. "DEMO_OUTPUT_WRITE_FAILED" \in Codes
    BY DEF Codes
  <2>2. p \in alone => \A l \in links : Recorded(me[p], l)
    BY <1>4, <1>5, <1>7 DEF IsDir
  <2> QED
    BY <1>1, <1>7, <2>1, <2>2, LookFailKeeps
<1> QED
  BY <1>6, <1>7 DEF OpenChild, OpenDirectory, NextChild

LEMMA PinChildKeeps ==
    ASSUME BundleInv, NEW p \in Procs, PinChild(p)
    PROVE  BundleInv'
<1> USE DEF Beginning, Filling, Verifying, CleaningFiles, CleaningChildren
<1> DEFINE c == me[p]
           c2 == me'[p]
           n == Children[Len(c.kids) + 1]
           e == Entry(c.root, n)
<1>1. /\ c.pc = "pinchild"
      /\ UNCHANGED tree /\ calm' = calm /\ alone' = alone /\ stuck' = stuck
      /\ node' = node /\ links' = links
  BY DEF PinChild, Look, tree
<1>2. OwnTree(p) /\ TreeOK(node, links)
  BY <1>1, Looked DEF BundleInv
<1>3. me \in [Procs -> Call] /\ c \in Call /\ PinnedOK(node', p, c) /\ ControlOK(node', p, c)
  BY <1>2, OwnCallKept
<1>4. /\ \A l \in links : l.dir = c.root /\ l.name = n => e = l.ino
      /\ e # None => e \in 2..Len(node) /\ c.root < e
  BY <1>2, EntryFacts
<1>5. p \in alone => /\ \A l \in links : Recorded(c, l) \/ (l.dir = c.root /\ l.name = n
                                                              /\ l.ino = c.seen)
  BY <1>1 DEF BundleInv, AloneOK, Allowed
<1>6. CASE e = c.seen /\ me' = [me EXCEPT ![p].pc = "child", ![p].kids = Append(@, c.seen)]
  <2>1. Becomes(p, "child", c.at, c.seen, c.root, Append(c.kids, c.seen), c.files, c.code)
    BY <1>3, <1>6, PinnedKid
  <2>2. /\ me' \in [Procs -> Call] /\ \A q \in Procs : q # p => me'[q] = me[q]
        /\ c2.pc = "child" /\ c2.root = c.root /\ c2.kids = Append(c.kids, c.seen)
        /\ c2.files = c.files /\ c2.code = c.code
    BY <2>1 DEF Becomes
  <2>3. /\ c.root # None /\ Len(c.kids) < Len(Children) /\ c.code # "OK"
        /\ c.seen \in 2..Len(node) /\ c.root < c.seen /\ node[c.seen].kind = "dir"
    BY <1>1, <1>3, <1>4, <1>6 DEF ControlOK, None
  <2>4. /\ Len(c.kids) \in Nat /\ Len(c2.kids) = Len(c.kids) + 1
        /\ c2.kids[Len(c.kids) + 1] = c.seen
        /\ \A j \in 1..Len(c.kids) : c2.kids[j] = c.kids[j]
    BY <1>3, <2>2 DEF Call
  <2>5. Len(c.files) = 0
    <3>1. Len(c.files) \in Nat
      BY <1>3 DEF Call
    <3> QED
      BY <1>3, <2>3, <2>4, <3>1 DEF PinnedOK
  <2> HIDE DEF c, c2, e, n
  <2>6. PinnedOK(node', p, c2)
    <3>1. ASSUME NEW j \in 1..Len(c2.kids)
          PROVE  /\ c2.kids[j] \in 2..Len(node') /\ c2.root < c2.kids[j]
                 /\ node'[c2.kids[j]].kind = "dir"
      <4>1. j \in 1..Len(c.kids) \/ j = Len(c.kids) + 1
        BY <2>4
      <4>2. CASE j \in 1..Len(c.kids)
        BY <1>3, <2>2, <2>4, <4>2 DEF PinnedOK
      <4>3. CASE j = Len(c.kids) + 1
        BY <1>1, <2>2, <2>3, <2>4, <4>3
      <4> QED
        BY <4>1, <4>2, <4>3
    <3>2. Len(c2.kids) <= Len(Children)
      <4>1. Len(Children) \in Nat
        BY BundleLengths
      <4> QED
        BY <2>3, <2>4, <4>1
    <3>3. c2.root # None => c2.root \in 2..Len(node') /\ node'[c2.root].kind = "dir"
      BY <1>3, <2>2 DEF PinnedOK
    <3>4. Len(c2.files) <= Len(Bundle) /\ Len(c2.files) = 0 /\ c2.root # None
      BY <1>3, <2>2, <2>3, <2>5 DEF PinnedOK
    <3> QED
      BY <3>1, <3>2, <3>3, <3>4 DEF PinnedOK
  <2>7. ControlOK(node', p, c2)
    BY <2>2, <2>3 DEF ControlOK
  <2>8. CalmOK(node', links', above', c2)
    BY <2>2 DEF CalmOK
  <2>9. ASSUME p \in alone' PROVE AloneOK(node', links', stuck', c2)
    <3>1. ASSUME NEW l \in links PROVE Recorded(c2, l)
      <4>1. CASE Recorded(c, l)
        <5>1. RootEntry(c, l) => RootEntry(c2, l)
          BY <2>2 DEF RootEntry
        <5>2. ChildEntry(c, l, Len(c.kids)) => ChildEntry(c2, l, Len(c2.kids))
          BY <2>2, <2>4 DEF ChildEntry
        <5>3. ~FileEntry(c, l, Len(c.files))
          BY <2>5 DEF FileEntry
        <5> QED
          BY <4>1, <5>1, <5>2, <5>3 DEF Recorded
      <4>2. CASE l.dir = c.root /\ l.name = n /\ l.ino = c.seen
        <5>1. Len(c.kids) + 1 \in 1..Len(c2.kids) /\ l.dir = c2.root
              /\ l.name = Children[Len(c.kids) + 1] /\ l.ino = c2.kids[Len(c.kids) + 1]
          BY <2>2, <2>4, <4>2 DEF n
        <5> QED
          BY <5>1 DEF Recorded, ChildEntry
      <4> QED
        BY <1>1, <1>5, <2>9, <4>1, <4>2
    <3> QED
      BY <1>1, <1>5, <2>2, <2>9, <3>1 DEF AloneOK, Allowed
  <2> QED
    BY <1>2, <2>2, <2>6, <2>7, <2>8, <2>9, OwnStep DEF CallOK, c2
<1>7. CASE e # c.seen /\ Fail(p, "DEMO_OUTPUT_RACE_DETECTED")
  <2>1. "DEMO_OUTPUT_RACE_DETECTED" \in Codes
    BY DEF Codes
  <2>2. p \in alone => \A l \in links : Recorded(me[p], l)
    BY <1>4, <1>5, <1>7
  <2> QED
    BY <1>1, <1>7, <2>1, <2>2, LookFailKeeps
<1> QED
  BY <1>6, <1>7 DEF PinChild, NextChild

-----------------------------------------------------------------------------
(* The files of the bundle.                                                *)
LEMMA CreateFileKeeps ==
    ASSUME BundleInv, NEW p \in Procs, CreateFile(p)
    PROVE  BundleInv'
<1> USE DEF Beginning, Filling, Verifying, CleaningFiles, CleaningChildren
<1> DEFINE c == me[p]
           c2 == me'[p]
           k == Len(c.files) + 1
           d == DirIn(c, Bundle[k].dir)
           n == Bundle[k].name
           i == Len(node) + 1
<1>1. c.pc = "child" /\ stuck' = stuck /\ ~(Len(c.kids) < Len(Children)) /\ Len(c.files) < Len(Bundle)
  BY DEF CreateFile, InFiles, MoreFiles, MoreChildren
<1>2. c \in Call /\ PinnedOK(node, p, c) /\ ControlOK(node, p, c) /\ TreeOK(node, links)
  BY DEF BundleInv, CallOK
<1>3. /\ Len(c.kids) \in Nat /\ Len(Children) \in Nat /\ Len(c.files) \in Nat
      /\ Len(Bundle) \in Nat /\ Len(node) \in Nat
  BY <1>2, BundleLengths DEF Call, TreeOK
<1>4. c.root # None /\ Len(c.kids) = Len(Children) /\ k \in 1..Len(Bundle) /\ c.code # "OK"
  BY <1>1, <1>2, <1>3 DEF PinnedOK, ControlOK
<1>5. d \in 1..Len(node)
  BY <1>2, <1>4, DirInBounds
<1>6. p \in alone => \A l \in links : Recorded(c, l)
  BY <1>1 DEF BundleInv, AloneOK, Allowed
<1>7. CASE Entry(d, n) = None /\ Make(d, n, "file", p, "")
           /\ me' = [me EXCEPT ![p].pc = "write", ![p].seen = i]
  <2>1. "write" \in Labels /\ "file" \in Kinds /\ i \in Nat
    BY <1>3 DEF Labels, Kinds
  <2> HIDE DEF d, n
  <2>2. OwnEntry(p, d, n, "file")
    BY <1>1, <1>5, <1>7, <2>1, MadeOwn, Zenon
  <2>3. OwnTree(p)
    BY <2>2, Zenon DEF OwnEntry
  <2>4. me \in [Procs -> Call]
    BY <2>3, OwnCallKept
  <2>5. Becomes(p, "write", c.at, i, c.root, c.kids, c.files, c.code)
    BY <1>7, <2>1, <2>4, Seen
  <2>6. /\ c2.pc = "write" /\ c2.seen = i /\ c2.root = c.root /\ c2.kids = c.kids
        /\ c2.files = c.files /\ c2.code = c.code
    BY <2>5 DEF Becomes
  <2> HIDE DEF c2
  <2>7. i \in 1..Len(node') /\ node'[i].kind = "file" /\ node'[i].owner = p
    <3>1. /\ Len(node') = Len(node) + 1
          /\ node'[Len(node) + 1].kind = "file" /\ node'[Len(node) + 1].owner = p
      BY <2>2 DEF OwnEntry
    <3> QED
      BY <1>3, <3>1
  <2> HIDE DEF c, i
  <2>8. ControlOK(node', p, c2)
    BY <1>1, <1>4, <2>6, <2>7 DEF ControlOK
  <2>9. CalmOK(node', links', above', c2)
    BY <2>6 DEF CalmOK
  <2>10. ASSUME p \in alone'
         PROVE  \A l \in links' : Allowed(node', links', stuck', c2, l)
    <3>1. \A l \in links : Recorded(c, l)
      BY <1>6, <2>2, <2>10 DEF OwnEntry
    <3>2. ASSUME NEW l \in links'
          PROVE  Recorded(c2, l) \/ (/\ l.dir = DirIn(c2, Bundle[Len(c2.files) + 1].dir)
                                     /\ l.name = Bundle[Len(c2.files) + 1].name
                                     /\ l.ino = c2.seen)
      <4>1. l \in links \/ (l.dir = d /\ l.name = n /\ l.ino = i)
        BY <2>2 DEF OwnEntry, i
      <4>2. l \in links => Recorded(c2, l)
        BY <2>6, <3>1, SameRecords
      <4>3. d = DirIn(c2, Bundle[Len(c2.files) + 1].dir)
        BY <2>6, SameRecords DEF d
      <4> QED
        BY <2>6, <4>1, <4>2, <4>3 DEF n
    <3> QED
      BY <2>6, <3>1, <3>2 DEF Allowed
  <2> QED
    BY <2>3, <2>5, <2>8, <2>9, <2>10, StepKeeps DEF c, c2
<1>8. CASE Fail(p, "DEMO_OUTPUT_EXISTS") /\ UNCHANGED <<tree, calm, alone>>
  <2>1. "DEMO_OUTPUT_EXISTS" \in Codes
    BY DEF Codes
  <2> QED
    BY <1>1, <1>6, <1>8, <2>1, LookFailKeeps
<1> QED
  BY <1>7, <1>8 DEF CreateFile, NextFile, DirOf, DirIn

(* A call writes into its own file only.                                   *)
LEMMA WrittenOwn ==
    ASSUME BundleInv, NEW p \in Procs, me[p].pc = "write", NEW content \in Contents,
           node' = [node EXCEPT ![me[p].seen].holds = content], links' = links,
           DisturbedBy(p), stuck \subseteq stuck'
    PROVE  /\ OwnTree(p) /\ node'[me[p].seen].holds = content
           /\ p \in alone' => p \in alone
<1> DEFINE i == me[p].seen
<1>1. TreeOK(node, links) /\ i \in 1..Len(node) /\ node[i].kind = "file"
  BY DEF BundleInv, CallOK, ControlOK
<1>2. /\ Grown(node, node') /\ TreeOK(node', links') /\ Len(node') = Len(node)
      /\ node'[i].holds = content
      /\ \A k \in 1..Len(node) : k # i => node'[k] = node[k]
  BY <1>1, Written
<1>3. OwnTree(p)
  BY <1>2 DEF OwnTree
<1> QED
  BY <1>2, <1>3 DEF DisturbedBy

LEMMA WriteFileKeeps ==
    ASSUME BundleInv, NEW p \in Procs, WriteFile(p)
    PROVE  BundleInv'
<1> USE DEF Beginning, Filling, Verifying, CleaningFiles, CleaningChildren
<1> DEFINE c == me[p]
           c2 == me'[p]
           k == Len(c.files) + 1
<1>1. /\ c.pc = "write" /\ stuck' = stuck /\ links' = links /\ DisturbedBy(p)
      /\ node' = [node EXCEPT ![c.seen].holds = Bundle[k].name]
      /\ me' = [me EXCEPT ![p].pc = "child", ![p].files = Append(@, c.seen)]
  BY DEF WriteFile, NextFile
<1>2. c \in Call /\ Len(c.files) < Len(Bundle)
  BY <1>1 DEF BundleInv, CallOK, ControlOK
<1>3. Len(c.files) \in Nat /\ Len(Bundle) \in Nat /\ k \in 1..Len(Bundle)
  BY <1>2, BundleLengths DEF Call
<1>4. Bundle[k].name \in Contents
  BY <1>3 DEF Contents
<1>5. OwnTree(p) /\ (p \in alone' => p \in alone)
  BY <1>1, <1>4, WrittenOwn
<1>6. me \in [Procs -> Call] /\ PinnedOK(node', p, c) /\ ControlOK(node', p, c)
  BY <1>5, OwnCallKept
<1>7. Becomes(p, "child", c.at, c.seen, c.root, c.kids, Append(c.files, c.seen), c.code)
  BY <1>1, <1>6, RecordedFile
<1>8. /\ me' \in [Procs -> Call] /\ \A q \in Procs : q # p => me'[q] = me[q]
      /\ c2.pc = "child" /\ c2.root = c.root /\ c2.kids = c.kids
      /\ c2.files = Append(c.files, c.seen) /\ c2.code = c.code
  BY <1>7 DEF Becomes
<1>9. /\ Len(c2.files) = k /\ c2.files[k] = c.seen
      /\ \A j \in 1..Len(c.files) : c2.files[j] = c.files[j]
  BY <1>2, <1>3, <1>8 DEF Call
<1>10. /\ c.root # None /\ c.code # "OK" /\ Len(c.kids) = Len(Children)
       /\ c.seen \in 1..Len(node') /\ node'[c.seen].kind = "file" /\ node'[c.seen].owner = p
  BY <1>1, <1>6 DEF ControlOK
<1> HIDE DEF c, c2
<1>11. PinnedOK(node', p, c2)
  <2>1. ASSUME NEW j \in 1..Len(c2.files)
        PROVE  /\ c2.files[j] \in 1..Len(node')
               /\ node'[c2.files[j]].kind = "file" /\ node'[c2.files[j]].owner = p
    <3>1. j \in 1..Len(c.files) \/ j = k
      BY <1>3, <1>9
    <3>2. CASE j \in 1..Len(c.files)
      BY <1>6, <1>9, <3>2 DEF PinnedOK
    <3>3. CASE j = k
      BY <1>9, <1>10, <3>3
    <3> QED
      BY <3>1, <3>2, <3>3
  <2>2. Len(c2.files) <= Len(Bundle)
    BY <1>3, <1>9
  <2> QED
    BY <1>6, <1>8, <1>10, <2>1, <2>2 DEF PinnedOK
<1>12. ControlOK(node', p, c2)
  BY <1>8, <1>10 DEF ControlOK
<1>13. CalmOK(node', links', above', c2)
  BY <1>8 DEF CalmOK
<1>14. ASSUME p \in alone' PROVE AloneOK(node', links', stuck', c2)
  <2>1. \A l \in links :
            Recorded(c, l) \/ (/\ l.dir = DirIn(c, Bundle[k].dir) /\ l.name = Bundle[k].name
                               /\ l.ino = c.seen)
    BY <1>1, <1>5, <1>14 DEF BundleInv, AloneOK, Allowed, c
  <2>2. \A name : DirIn(c2, name) = DirIn(c, name)
    BY <1>8 DEF DirIn
  <2>3. ASSUME NEW l \in links PROVE Recorded(c2, l)
    <3>1. CASE Recorded(c, l)
      <4>1. RootEntry(c, l) => RootEntry(c2, l)
        BY <1>8 DEF RootEntry
      <4>2. ChildEntry(c, l, Len(c.kids)) => ChildEntry(c2, l, Len(c2.kids))
        BY <1>8 DEF ChildEntry
      <4>3. FileEntry(c, l, Len(c.files)) => FileEntry(c2, l, Len(c2.files))
        <5>1. ASSUME NEW j \in 1..Len(c.files) PROVE j \in 1..Len(c2.files) /\ c2.files[j] = c.files[j]
          BY <1>3, <1>9
        <5> QED
          BY <2>2, <5>1 DEF FileEntry
      <4> QED
        BY <3>1, <4>1, <4>2, <4>3 DEF Recorded
    <3>2. CASE /\ l.dir = DirIn(c, Bundle[k].dir) /\ l.name = Bundle[k].name
               /\ l.ino = c.seen
      <4>1. /\ k \in 1..Len(c2.files) /\ l.dir = DirIn(c2, Bundle[k].dir)
            /\ l.name = Bundle[k].name /\ l.ino = c2.files[k]
        BY <1>3, <1>9, <2>2, <3>2
      <4> HIDE DEF k
      <4> QED
        BY <4>1 DEF Recorded, FileEntry
    <3> QED
      BY <2>1, <3>1, <3>2
  <2> QED
    BY <1>1, <1>5, <1>8, <2>1, <2>3 DEF AloneOK, Allowed
<1> QED
  BY <1>5, <1>8, <1>11, <1>12, <1>13, <1>14, OwnStep DEF CallOK, c2

LEMMA WriteFailsKeeps ==
    ASSUME BundleInv, NEW p \in Procs, WriteFails(p)
    PROVE  BundleInv'
<1> DEFINE c == me[p]
<1>1. /\ c.pc = "write" /\ stuck' = stuck \cup {c.seen} /\ links' = links /\ DisturbedBy(p)
      /\ node' = [node EXCEPT ![c.seen].holds = "part"]
      /\ Fail(p, "DEMO_OUTPUT_WRITE_FAILED")
  BY DEF WriteFails
<1>2. "part" \in Contents /\ "DEMO_OUTPUT_WRITE_FAILED" \in Codes
  BY DEF Contents, Codes
<1>3. /\ OwnTree(p) /\ node'[c.seen].holds = "part"
      /\ p \in alone' => p \in alone
  BY <1>1, <1>2, WrittenOwn
<1>4. ASSUME p \in alone
      PROVE  \A l \in links : Recorded(c, l) \/ l.ino = c.seen
  BY <1>1, <1>4 DEF BundleInv, AloneOK, Allowed
<1>5. p \in alone' => \A l \in links' : Recorded(me[p], l) \/ l.ino \in stuck'
  BY <1>1, <1>3, <1>4
<1> QED
  BY <1>1, <1>2, <1>3, <1>5, FailKeeps

LEMMA CallFailsKeeps ==
    ASSUME BundleInv, NEW p \in Procs, CallFails(p)
    PROVE  BundleInv'
<1> USE DEF Beginning, Filling, Verifying, CleaningFiles, CleaningChildren
<1> DEFINE c == me[p]
<1>1. /\ c.pc \in {"stat", "mkdir", "open", "pin", "child", "openchild", "pinchild",
                   "verifyroot", "verifyfile", "verifykids"}
      /\ UNCHANGED tree /\ calm' = calm /\ alone' = alone
      /\ stuck' = stuck \cup Unrecorded(p) /\ stuck \subseteq stuck'
      /\ node' = node /\ links' = links
  BY DEF CallFails, tree
<1>2. PICK code \in {"DEMO_OUTPUT_RACE_DETECTED", "DEMO_OUTPUT_WRITE_FAILED"} : Fail(p, code)
  BY DEF CallFails
<1>3. OwnTree(p)
  BY <1>1, Looked
<1>4. ASSUME p \in alone', NEW l \in links PROVE Recorded(c, l) \/ l.ino \in stuck'
  <2>1. Allowed(node, links, stuck, c, l) /\ TreeOK(node, links)
    BY <1>1, <1>4 DEF BundleInv, AloneOK
  <2>2. CASE c.pc \in {"stat", "mkdir", "child", "verifyroot", "verifyfile", "verifykids"}
    BY <2>1, <2>2 DEF Allowed
  <2>3. CASE c.pc = "open"
    <3>1. l.dir = Parent /\ l.name = Output
      BY <2>1, <2>3 DEF Allowed
    <3>2. l.ino = Entry(Parent, Output)
      BY <2>1, <3>1, EntryFacts
    <3> QED
      BY <1>1, <2>3, <3>2 DEF Unrecorded
  <2>4. CASE c.pc \in {"pin", "pinchild"}
    <3>1. Recorded(c, l) \/ l.ino = c.seen
      BY <2>1, <2>4 DEF Allowed
    <3>2. Unrecorded(p) = {c.seen}
      BY <2>4 DEF Unrecorded
    <3> QED
      BY <1>1, <3>1, <3>2
  <2>5. CASE c.pc = "openchild"
    <3> DEFINE n == Children[Len(c.kids) + 1]
    <3>1. Recorded(c, l) \/ (l.dir = c.root /\ l.name = n)
      BY <2>1, <2>5 DEF Allowed
    <3>2. Unrecorded(p) = {Entry(c.root, n)}
      BY <2>5 DEF Unrecorded, NextChild
    <3> HIDE DEF n
    <3>3. l.dir = c.root /\ l.name = n => l.ino = Entry(c.root, n)
      BY <2>1, EntryFacts
    <3> QED
      BY <1>1, <3>1, <3>2, <3>3
  <2> QED
    BY <1>1, <2>2, <2>3, <2>4, <2>5
<1>5. code \in Codes /\ code # "OK"
  BY DEF Codes
<1> QED
  BY <1>1, <1>2, <1>3, <1>4, <1>5, FailKeeps

-----------------------------------------------------------------------------
(* The verification.                                                       *)
LEMMA VerifyPathKeeps ==
    ASSUME BundleInv, NEW p \in Procs, VerifyPath(p)
    PROVE  BundleInv'
<1> USE DEF Beginning, Filling, Verifying, CleaningFiles, CleaningChildren
<1> DEFINE c == me[p]
           c2 == me'[p]
<1>1. /\ c.pc = "child" /\ ~(Len(c.kids) < Len(Children)) /\ ~(Len(c.files) < Len(Bundle))
      /\ UNCHANGED tree /\ calm' = calm \cup {p} /\ alone' = alone /\ stuck' = stuck
      /\ node' = node /\ links' = links /\ above' = above
  BY DEF VerifyPath, InFiles, MoreFiles, MoreChildren, tree
<1>2. OwnTree(p) /\ TreeOK(node, links)
  BY <1>1, Looked DEF BundleInv
<1>3. me \in [Procs -> Call] /\ c \in Call /\ PinnedOK(node', p, c) /\ ControlOK(node', p, c)
  BY <1>2, OwnCallKept
<1>4. c.root # None /\ Len(c.kids) = Len(Children) /\ Len(c.files) = Len(Bundle)
  <2>1. Len(c.kids) \in Nat /\ Len(c.files) \in Nat
    BY <1>3 DEF Call
  <2> QED
    BY <1>1, <1>3, <2>1, BundleLengths DEF PinnedOK, ControlOK
<1>5. p \in alone => \A l \in links : Recorded(c, l)
  BY <1>1 DEF BundleInv, AloneOK, Allowed
<1>6. CASE above = "there" /\ Entry(Parent, Output) = c.root /\ Goto(p, "verifyroot")
  <2>1. "verifyroot" \in Labels
    BY DEF Labels
  <2>2. Becomes(p, "verifyroot", c.at, c.seen, c.root, c.kids, c.files, c.code)
    BY <1>3, <1>6, <2>1, GoneTo
  <2>3. /\ c2.pc = "verifyroot" /\ c2.root = c.root /\ c2.kids = c.kids
        /\ c2.files = c.files /\ c2.code = c.code
    BY <2>2 DEF Becomes
  <2>4. Has(links, Parent, Output, c.root)
    BY <1>2, <1>4, <1>6, EntryFacts
  <2> HIDE DEF c, c2
  <2>5. ControlOK(node', p, c2)
    BY <1>1, <1>3, <1>4, <2>3 DEF ControlOK
  <2>6. CalmOK(node', links', above', c2)
    BY <1>1, <1>6, <2>3, <2>4 DEF CalmOK
  <2>7. p \in alone' => \A l \in links' : Allowed(node', links', stuck', c2, l)
    BY <1>1, <1>5, <2>3, SameRecords DEF Allowed
  <2> QED
    BY <1>2, <2>2, <2>5, <2>6, <2>7, StepKeeps DEF c, c2
<1>7. CASE Fail(p, "DEMO_OUTPUT_RACE_DETECTED")
  <2>1. "DEMO_OUTPUT_RACE_DETECTED" \in Codes /\ calm' \subseteq calm \cup {p}
    BY <1>1 DEF Codes
  <2> QED
    BY <1>1, <1>5, <1>7, <2>1, LookFailKeeps
<1> QED
  BY <1>6, <1>7 DEF VerifyPath

LEMMA VerifyRootKeeps ==
    ASSUME BundleInv, NEW p \in Procs, VerifyRoot(p)
    PROVE  BundleInv'
<1> USE DEF Beginning, Filling, Verifying, CleaningFiles, CleaningChildren
<1> DEFINE c == me[p]
           c2 == me'[p]
<1>1. /\ c.pc = "verifyroot"
      /\ UNCHANGED tree /\ calm' = calm /\ alone' = alone /\ stuck' = stuck
      /\ node' = node /\ links' = links /\ above' = above
  BY DEF VerifyRoot, Look, tree
<1>2. OwnTree(p) /\ TreeOK(node, links)
  BY <1>1, Looked DEF BundleInv
<1>3. me \in [Procs -> Call] /\ c \in Call /\ PinnedOK(node, p, c) /\ ControlOK(node, p, c)
  BY <1>1, <1>2, OwnCallKept
<1>4. c.root # None /\ Len(c.kids) = Len(Children) /\ Len(c.files) = Len(Bundle) /\ c.code # "OK"
  BY <1>1, <1>3 DEF ControlOK
<1>5. p \in alone => \A l \in links : Recorded(c, l)
  BY <1>1 DEF BundleInv, AloneOK, Allowed
<1>6. CASE /\ Listing(c.root) = RootNames /\ \A j \in 1..Len(Children) : ChildMatches(p, j)
           /\ me' = [me EXCEPT ![p].pc = "verifyfile", ![p].at = 1]
  <2>1. "verifyfile" \in Labels /\ 1 \in Nat
    BY DEF Labels
  <2>2. Becomes(p, "verifyfile", 1, c.seen, c.root, c.kids, c.files, c.code)
    BY <1>3, <1>6, <2>1, Placed
  <2>3. /\ c2.pc = "verifyfile" /\ c2.at = 1 /\ c2.root = c.root /\ c2.kids = c.kids
        /\ c2.files = c.files /\ c2.code = c.code
    BY <2>2 DEF Becomes
  <2>4. ASSUME NEW j \in 1..Len(Children) PROVE Has(links, c.root, Children[j], c.kids[j])
    <3>1. Entry(c.root, Children[j]) = c.kids[j] /\ c.kids[j] # None
      BY <1>3, <1>4, <1>6 DEF ChildMatches, PinnedOK, None
    <3> QED
      BY <1>2, <3>1, EntryFacts
  <2>5. Names(links, c.root) = RootNames
    BY <1>6 DEF Names, Listing
  <2>6. p \in calm => above = "there" /\ Has(links, Parent, Output, c.root)
    BY <1>1 DEF BundleInv, CalmOK
  <2> HIDE DEF c, c2
  <2>7. ControlOK(node', p, c2)
    BY <1>4, <2>3, BundleLengths DEF ControlOK
  <2>8. p \in calm' => CalmOK(node', links', above', c2)
    BY <1>1, <2>3, <2>4, <2>5, <2>6 DEF CalmOK
  <2>9. p \in alone' => \A l \in links' : Allowed(node', links', stuck', c2, l)
    BY <1>1, <1>5, <2>3, SameRecords DEF Allowed
  <2> QED
    BY <1>2, <2>2, <2>7, <2>8, <2>9, StepKeeps DEF c, c2
<1>7. CASE Fail(p, "DEMO_OUTPUT_RACE_DETECTED")
  <2>1. "DEMO_OUTPUT_RACE_DETECTED" \in Codes
    BY DEF Codes
  <2> QED
    BY <1>1, <1>5, <1>7, <2>1, LookFailKeeps
<1> QED
  BY <1>6, <1>7 DEF VerifyRoot

(* The entry of a file is the file recorded.                               *)
LEMMA MatchedFile ==
    ASSUME BundleInv, NEW p \in Procs, NEW k \in 1..Len(me[p].files)
    PROVE  FileMatches(p, k) <=> FileAt(links, me[p], k)
<1> DEFINE d == DirIn(me[p], Bundle[k].dir)
           i == me[p].files[k]
<1>1. FileMatches(p, k) <=> Entry(d, Bundle[k].name) = i
  BY DEF FileMatches, DirOf, DirIn
<1>2. TreeOK(node, links) /\ i # None
  BY DEF BundleInv, CallOK, PinnedOK, None
<1>3. Entry(d, Bundle[k].name) = i <=> Has(links, d, Bundle[k].name, i)
  BY <1>2, EntryFacts
<1> QED
  BY <1>1, <1>3 DEF FileAt

LEMMA VerifyFileKeeps ==
    ASSUME BundleInv, NEW p \in Procs, VerifyFile(p)
    PROVE  BundleInv'
<1> USE DEF Beginning, Filling, Verifying, CleaningFiles, CleaningChildren
<1> DEFINE c == me[p]
           c2 == me'[p]
           k == c.at
           Checked(j) == FileAt(links, c, j) /\ node[c.files[j]].holds = Bundle[j].name
<1>1. /\ c.pc = "verifyfile"
      /\ UNCHANGED tree /\ calm' = calm /\ alone' = alone /\ stuck' = stuck
      /\ node' = node /\ links' = links /\ above' = above
  BY DEF VerifyFile, Look, tree
<1>2. OwnTree(p)
  BY <1>1, Looked
<1>3. me \in [Procs -> Call] /\ c \in Call /\ ControlOK(node, p, c)
  BY <1>1, <1>2, OwnCallKept
<1>4. /\ c.root # None /\ Len(c.kids) = Len(Children) /\ Len(c.files) = Len(Bundle)
      /\ c.code # "OK" /\ k \in 1..Len(Bundle)
  BY <1>1, <1>3 DEF ControlOK
<1>5. p \in alone => \A l \in links : Recorded(c, l)
  BY <1>1 DEF BundleInv, AloneOK, Allowed
<1>6. p \in calm => /\ above = "there" /\ Has(links, Parent, Output, c.root)
                    /\ Names(links, c.root) = RootNames
                    /\ \A j \in 1..Len(Children) : Has(links, c.root, Children[j], c.kids[j])
                    /\ \A j \in 1..k - 1 : Checked(j)
  BY <1>1 DEF BundleInv, CalmOK
<1>7. CASE FileMatches(p, k) /\ node[c.files[k]].holds = Bundle[k].name /\ k < Len(Bundle)
           /\ me' = [me EXCEPT ![p].at = k + 1]
  <2>1. k + 1 \in Nat /\ k + 1 \in 1..Len(Bundle)
    BY <1>4, <1>7, BundleLengths
  <2>2. Becomes(p, c.pc, k + 1, c.seen, c.root, c.kids, c.files, c.code)
    BY <1>3, <1>7, <2>1, Stepped
  <2>3. /\ c2.pc = "verifyfile" /\ c2.at = k + 1 /\ c2.root = c.root /\ c2.kids = c.kids
        /\ c2.files = c.files /\ c2.code = c.code
    BY <1>1, <2>2 DEF Becomes
  <2>4. Checked(k)
    BY <1>4, <1>7, MatchedFile
  <2>5. p \in calm => \A j \in 1..c2.at - 1 : Checked(j)
    <3>1. ASSUME NEW j \in 1..c2.at - 1 PROVE j \in 1..k - 1 \/ j = k
      BY <1>4, <2>3, BundleLengths
    <3> HIDE DEF Checked
    <3> QED
      BY <1>6, <2>4, <3>1
  <2> HIDE DEF c, c2
  <2>6. \A j : FileAt(links, c2, j) <=> FileAt(links, c, j)
    BY <2>3, SameRecords
  <2>7. ControlOK(node', p, c2)
    BY <1>4, <2>1, <2>3 DEF ControlOK
  <2>8. p \in calm' => CalmOK(node', links', above', c2)
    BY <1>1, <1>6, <2>3, <2>5, <2>6 DEF CalmOK
  <2>9. p \in alone' => \A l \in links' : Allowed(node', links', stuck', c2, l)
    BY <1>1, <1>5, <2>3, SameRecords DEF Allowed
  <2> QED
    BY <1>2, <2>2, <2>7, <2>8, <2>9, StepKeeps DEF c, c2
<1>8. CASE FileMatches(p, k) /\ node[c.files[k]].holds = Bundle[k].name /\ ~(k < Len(Bundle))
           /\ Goto(p, "verifykids")
  <2>1. "verifykids" \in Labels
    BY DEF Labels
  <2>2. Becomes(p, "verifykids", c.at, c.seen, c.root, c.kids, c.files, c.code)
    BY <1>3, <1>8, <2>1, GoneTo
  <2>3. /\ c2.pc = "verifykids" /\ c2.root = c.root /\ c2.kids = c.kids
        /\ c2.files = c.files /\ c2.code = c.code
    BY <2>2 DEF Becomes
  <2>4. Checked(k)
    BY <1>4, <1>8, MatchedFile
  <2>5. p \in calm => \A j \in 1..Len(Bundle) : Checked(j)
    <3>1. ASSUME NEW j \in 1..Len(Bundle) PROVE j \in 1..k - 1 \/ j = k
      BY <1>4, <1>8, BundleLengths
    <3> HIDE DEF Checked
    <3> QED
      BY <1>6, <2>4, <3>1
  <2> HIDE DEF c, c2
  <2>6. \A j : FileAt(links, c2, j) <=> FileAt(links, c, j)
    BY <2>3, SameRecords
  <2>7. ControlOK(node', p, c2)
    BY <1>4, <2>1, <2>3 DEF ControlOK
  <2>8. p \in calm' => CalmOK(node', links', above', c2)
    BY <1>1, <1>6, <2>3, <2>5, <2>6 DEF CalmOK
  <2>9. p \in alone' => \A l \in links' : Allowed(node', links', stuck', c2, l)
    BY <1>1, <1>5, <2>3, SameRecords DEF Allowed
  <2> QED
    BY <1>2, <2>2, <2>7, <2>8, <2>9, StepKeeps DEF c, c2
<1>9. CASE Fail(p, "DEMO_OUTPUT_RACE_DETECTED")
  <2>1. "DEMO_OUTPUT_RACE_DETECTED" \in Codes
    BY DEF Codes
  <2> QED
    BY <1>1, <1>5, <1>9, <2>1, LookFailKeeps
<1> QED
  BY <1>7, <1>8, <1>9 DEF VerifyFile

LEMMA VerifyChildrenKeeps ==
    ASSUME BundleInv, NEW p \in Procs, VerifyChildren(p)
    PROVE  BundleInv'
<1> USE DEF Beginning, Filling, Verifying, CleaningFiles, CleaningChildren
<1> DEFINE c == me[p]
           c2 == me'[p]
<1>1. /\ c.pc = "verifykids"
      /\ UNCHANGED tree /\ calm' = calm /\ alone' = alone /\ stuck' = stuck
      /\ node' = node /\ links' = links
  BY DEF VerifyChildren, Look, tree
<1>2. OwnTree(p) /\ me \in [Procs -> Call]
  BY <1>1, Looked DEF BundleInv
<1>3. p \in alone => \A l \in links : Recorded(c, l)
  BY <1>1 DEF BundleInv, AloneOK, Allowed
<1>4. CASE me' = [me EXCEPT ![p].pc = "done", ![p].code = "OK"]
  <2>1. "OK" \in Codes
    BY DEF Codes
  <2>2. Becomes(p, "done", c.at, c.seen, c.root, c.kids, c.files, "OK")
    BY <1>2, <1>4, <2>1, Ended
  <2>3. c2.pc = "done" /\ c2.code = "OK"
    BY <2>2 DEF Becomes
  <2> HIDE DEF c2
  <2>4. ControlOK(node', p, c2)
    BY <2>3 DEF ControlOK
  <2>5. CalmOK(node', links', above', c2)
    BY <2>3 DEF CalmOK
  <2>6. p \in alone' => \A l \in links' : Allowed(node', links', stuck', c2, l)
    BY <1>1, <1>3, <2>3 DEF Allowed
  <2> QED
    BY <1>2, <2>2, <2>4, <2>5, <2>6, StepKeeps DEF c2
<1>5. CASE Fail(p, "DEMO_OUTPUT_RACE_DETECTED")
  <2>1. "DEMO_OUTPUT_RACE_DETECTED" \in Codes
    BY DEF Codes
  <2> QED
    BY <1>1, <1>3, <1>5, <2>1, LookFailKeeps
<1> QED
  BY <1>4, <1>5 DEF VerifyChildren

-----------------------------------------------------------------------------
(* The cleanup: with the entries before the one reached gone, those left   *)
(* are the recorded ones still to come, or what the failure left.          *)
LEMMA CleanFileKeeps ==
    ASSUME BundleInv, NEW p \in Procs, CleanFile(p)
    PROVE  BundleInv'
<1> USE DEF Beginning, Filling, Verifying, CleaningFiles, CleaningChildren
<1> DEFINE c == me[p]
           c2 == me'[p]
           k == c.at
<1>1. /\ c.pc = "cleanfile" /\ k > 0
      /\ UNCHANGED tree /\ calm' \subseteq calm \cup {p} /\ alone' = alone /\ stuck' = stuck
      /\ node' = node /\ links' = links
  BY DEF CleanFile, Compared, tree
<1>2. OwnTree(p)
  BY <1>1, Looked
<1>3. me \in [Procs -> Call] /\ c \in Call /\ ControlOK(node, p, c)
  BY <1>1, <1>2, OwnCallKept
<1>4. k \in 1..Len(c.files) /\ k \in Nat /\ c.code # "OK" /\ Len(c.files) \in Nat
  <2>1. Len(c.files) \in Nat /\ k \in Nat
    BY <1>3 DEF Call
  <2> QED
    BY <1>1, <1>3, <2>1 DEF ControlOK
<1>5. FileMatches(p, k) <=> FileAt(links, c, k)
  BY <1>4, MatchedFile
<1>6. p \in alone => /\ \A l \in links : \/ RootEntry(c, l) \/ ChildEntry(c, l, Len(c.kids))
                                         \/ FileEntry(c, l, k) \/ l.ino \in stuck
  BY <1>1 DEF BundleInv, AloneOK, Allowed
<1>7. CASE FileMatches(p, k) /\ me' = [me EXCEPT ![p].pc = "unlink"]
  <2>1. "unlink" \in Labels
    BY DEF Labels
  <2>2. Becomes(p, "unlink", c.at, c.seen, c.root, c.kids, c.files, c.code)
    BY <1>3, <1>7, <2>1, GoneTo DEF Goto
  <2>3. /\ c2.pc = "unlink" /\ c2.at = k /\ c2.root = c.root /\ c2.kids = c.kids
        /\ c2.files = c.files /\ c2.code = c.code
    BY <2>2 DEF Becomes
  <2> HIDE DEF c, c2
  <2>4. ControlOK(node', p, c2)
    BY <1>4, <2>3 DEF ControlOK
  <2>5. CalmOK(node', links', above', c2)
    BY <1>1, <1>5, <1>7, <2>3, SameRecords DEF CalmOK
  <2>6. p \in alone' => \A l \in links' : Allowed(node', links', stuck', c2, l)
    BY <1>1, <1>6, <2>3, SameRecords DEF Allowed
  <2> QED
    BY <1>2, <2>2, <2>4, <2>5, <2>6, StepKeeps DEF c, c2
<1>8. CASE ~FileMatches(p, k) /\ me' = [me EXCEPT ![p].at = k - 1]
  <2>1. k - 1 \in Nat /\ k - 1 <= Len(c.files)
    BY <1>4
  <2>2. Becomes(p, c.pc, k - 1, c.seen, c.root, c.kids, c.files, c.code)
    BY <1>3, <1>8, <2>1, Stepped
  <2>3. /\ c2.pc = "cleanfile" /\ c2.at = k - 1 /\ c2.root = c.root /\ c2.kids = c.kids
        /\ c2.files = c.files /\ c2.code = c.code
    BY <1>1, <2>2 DEF Becomes
  <2> HIDE DEF c, c2
  <2>4. ControlOK(node', p, c2)
    BY <1>4, <2>1, <2>3 DEF ControlOK
  <2>5. CalmOK(node', links', above', c2)
    BY <2>3 DEF CalmOK
  <2>6. ASSUME NEW l \in links, FileEntry(c, l, k) PROVE FileEntry(c, l, k - 1)
    <3>1. PICK j \in 1..k : /\ l.dir = DirIn(c, Bundle[j].dir) /\ l.name = Bundle[j].name
                            /\ l.ino = c.files[j]
      BY <2>6 DEF FileEntry
    <3>2. j # k
      BY <1>5, <1>8, <3>1 DEF FileAt, Has
    <3>3. j \in 1..k - 1
      BY <1>4, <3>1, <3>2
    <3> QED
      BY <3>1, <3>3 DEF FileEntry
  <2>7. p \in alone' => \A l \in links' : Allowed(node', links', stuck', c2, l)
    BY <1>1, <1>6, <2>3, <2>6, SameRecords DEF Allowed
  <2> QED
    BY <1>2, <2>2, <2>4, <2>5, <2>7, StepKeeps DEF c, c2
<1> QED
  BY <1>7, <1>8 DEF CleanFile, Compared, PreviousAt

LEMMA UnlinkKeeps ==
    ASSUME BundleInv, NEW p \in Procs, Unlink(p)
    PROVE  BundleInv'
<1> USE DEF Beginning, Filling, Verifying, CleaningFiles, CleaningChildren
<1> DEFINE c == me[p]
           c2 == me'[p]
           k == c.at
           d == DirIn(c, Bundle[k].dir)
           n == Bundle[k].name
<1>1. /\ c.pc = "unlink" /\ stuck' = stuck
      /\ me' = [me EXCEPT ![p].pc = "cleanfile", ![p].at = k - 1]
  BY DEF Unlink
<1>2. \/ Remove(p, d, n)
      \/ (Entry(d, n) = None \/ IsDir(Entry(d, n))) /\ UNCHANGED <<tree, calm, alone>>
  BY DEF Unlink, DirOf, DirIn
<1>3. TreeOK(node, links) /\ me \in [Procs -> Call]
      /\ c \in Call /\ PinnedOK(node, p, c) /\ ControlOK(node, p, c)
  BY DEF BundleInv, CallOK
<1>4. k \in 1..Len(c.files) /\ k \in Nat /\ c.code # "OK" /\ Len(c.files) \in Nat
  <2>1. Len(c.files) \in Nat /\ k \in Nat
    BY <1>3 DEF Call
  <2> QED
    BY <1>1, <1>3, <2>1 DEF ControlOK
<1>5. p \in alone => /\ \A l \in links : \/ RootEntry(c, l) \/ ChildEntry(c, l, Len(c.kids))
                                         \/ FileEntry(c, l, k) \/ l.ino \in stuck
  BY <1>1 DEF BundleInv, AloneOK, Allowed
<1>6. /\ OwnTree(p) /\ links' \subseteq links /\ node' = node /\ (p \in alone' => p \in alone)
      /\ \A l \in links' : ~(l.dir = d /\ l.name = n /\ l.ino = c.files[k])
  <2>1. CASE Remove(p, d, n)
    <3> HIDE DEF d, n
    <3>1. OwnTree(p) /\ links' \subseteq links /\ node' = node
          /\ \A l \in links' : ~(l.dir = d /\ l.name = n)
      BY <1>1, <2>1, Removed
    <3> QED
      BY <2>1, <3>1 DEF Remove, DisturbedBy
  <2>2. CASE (Entry(d, n) = None \/ IsDir(Entry(d, n))) /\ UNCHANGED <<tree, calm, alone>>
    <3>1. OwnTree(p) /\ links' = links /\ node' = node /\ alone' = alone
      BY <1>1, <2>2, Looked DEF tree
    <3>2. ASSUME NEW l \in links, l.dir = d /\ l.name = n /\ l.ino = c.files[k] PROVE FALSE
      <4>1. Entry(d, n) = c.files[k] /\ c.files[k] # None
        BY <1>3, <3>2, EntryFacts
      <4>2. node[c.files[k]].kind = "file"
        BY <1>3, <1>4 DEF PinnedOK
      <4> QED
        BY <2>2, <4>1, <4>2 DEF IsDir
    <3> QED
      BY <3>1, <3>2
  <2> QED
    BY <1>2, <2>1, <2>2
<1>7. "cleanfile" \in Labels /\ k - 1 \in Nat /\ k - 1 <= Len(c.files)
  BY <1>4 DEF Labels
<1>8. Becomes(p, "cleanfile", k - 1, c.seen, c.root, c.kids, c.files, c.code)
  BY <1>1, <1>3, <1>7, Placed
<1>9. /\ c2.pc = "cleanfile" /\ c2.at = k - 1 /\ c2.root = c.root /\ c2.kids = c.kids
      /\ c2.files = c.files /\ c2.code = c.code
  BY <1>8 DEF Becomes
<1> HIDE DEF c, c2
<1>10. ControlOK(node', p, c2)
  BY <1>4, <1>7, <1>9 DEF ControlOK
<1>11. CalmOK(node', links', above', c2)
  BY <1>9 DEF CalmOK
<1>12. ASSUME NEW l \in links', FileEntry(c, l, k) PROVE FileEntry(c, l, k - 1)
  <2>1. PICK j \in 1..k : /\ l.dir = DirIn(c, Bundle[j].dir) /\ l.name = Bundle[j].name
                          /\ l.ino = c.files[j]
    BY <1>12 DEF FileEntry
  <2>2. j # k
    BY <1>6, <2>1
  <2>3. j \in 1..k - 1
    BY <1>4, <2>1, <2>2
  <2> QED
    BY <2>1, <2>3 DEF FileEntry
<1>13. p \in alone' => \A l \in links' : Allowed(node', links', stuck', c2, l)
  BY <1>1, <1>5, <1>6, <1>9, <1>12, SameRecords DEF Allowed
<1> QED
  BY <1>6, <1>8, <1>10, <1>11, <1>13, StepKeeps DEF c, c2

LEMMA CleanedFilesKeeps ==
    ASSUME BundleInv, NEW p \in Procs, CleanedFiles(p)
    PROVE  BundleInv'
<1> USE DEF Beginning, Filling, Verifying, CleaningFiles, CleaningChildren
<1> DEFINE c == me[p]
           c2 == me'[p]
<1>1. /\ c.pc = "cleanfile" /\ c.at = 0
      /\ UNCHANGED tree /\ calm' = calm /\ alone' = alone /\ stuck' = stuck
      /\ node' = node /\ links' = links
  BY DEF CleanedFiles, Look, tree
<1>2. OwnTree(p)
  BY <1>1, Looked
<1>3. me \in [Procs -> Call] /\ c \in Call /\ PinnedOK(node, p, c) /\ ControlOK(node, p, c)
  BY <1>1, <1>2, OwnCallKept
<1>4. c.code # "OK" /\ Len(c.kids) \in Nat
  BY <1>1, <1>3 DEF ControlOK, Call
<1>5. ASSUME p \in alone
      PROVE  /\ \A l \in links : \/ RootEntry(c, l) \/ ChildEntry(c, l, Len(c.kids))
                                 \/ l.ino \in stuck
  <2>1. \A l : ~FileEntry(c, l, c.at)
    BY <1>1 DEF FileEntry
  <2> QED
    BY <1>1, <1>5, <2>1 DEF BundleInv, AloneOK, Allowed
<1>6. CASE c.root = None /\ Goto(p, "done")
  <2>1. "done" \in Labels
    BY DEF Labels
  <2>2. Becomes(p, "done", c.at, c.seen, c.root, c.kids, c.files, c.code)
    BY <1>3, <1>6, <2>1, GoneTo
  <2>3. c2.pc = "done"
    BY <2>2 DEF Becomes
  <2>4. \A l : ~RootEntry(c, l) /\ ~ChildEntry(c, l, Len(c.kids))
    BY <1>3, <1>4, <1>6 DEF RootEntry, ChildEntry, PinnedOK
  <2> HIDE DEF c2
  <2>5. ControlOK(node', p, c2)
    BY <2>3 DEF ControlOK
  <2>6. CalmOK(node', links', above', c2)
    BY <2>3 DEF CalmOK
  <2>7. p \in alone' => \A l \in links' : Allowed(node', links', stuck', c2, l)
    BY <1>1, <1>5, <2>3, <2>4 DEF Allowed
  <2> QED
    BY <1>2, <2>2, <2>5, <2>6, <2>7, StepKeeps DEF c2
<1>7. CASE c.root # None /\ me' = [me EXCEPT ![p].pc = "cleanchild", ![p].at = Len(c.kids)]
  <2>1. "cleanchild" \in Labels
    BY DEF Labels
  <2>2. Becomes(p, "cleanchild", Len(c.kids), c.seen, c.root, c.kids, c.files, c.code)
    BY <1>3, <1>4, <1>7, <2>1, Placed
  <2>3. /\ c2.pc = "cleanchild" /\ c2.at = Len(c.kids) /\ c2.root = c.root /\ c2.kids = c.kids
        /\ c2.files = c.files /\ c2.code = c.code
    BY <2>2 DEF Becomes
  <2> HIDE DEF c, c2
  <2>4. ControlOK(node', p, c2)
    BY <1>4, <1>7, <2>3 DEF ControlOK
  <2>5. CalmOK(node', links', above', c2)
    BY <2>3 DEF CalmOK
  <2>6. p \in alone' => \A l \in links' : Allowed(node', links', stuck', c2, l)
    BY <1>1, <1>5, <2>3, SameRecords DEF Allowed, Left
  <2> QED
    BY <1>2, <2>2, <2>4, <2>5, <2>6, StepKeeps DEF c, c2
<1> QED
  BY <1>6, <1>7 DEF CleanedFiles

LEMMA CleanChildKeeps ==
    ASSUME BundleInv, NEW p \in Procs, CleanChild(p)
    PROVE  BundleInv'
<1> USE DEF Beginning, Filling, Verifying, CleaningFiles, CleaningChildren
<1> DEFINE c == me[p]
           c2 == me'[p]
           k == c.at
<1>1. /\ c.pc = "cleanchild" /\ k > 0
      /\ UNCHANGED tree /\ calm' \subseteq calm \cup {p} /\ alone' = alone /\ stuck' = stuck
      /\ node' = node /\ links' = links
  BY DEF CleanChild, Compared, tree
<1>2. OwnTree(p) /\ TreeOK(node, links)
  BY <1>1, Looked DEF BundleInv
<1>3. me \in [Procs -> Call] /\ c \in Call /\ ControlOK(node, p, c)
  BY <1>1, <1>2, OwnCallKept
<1>4. k \in 1..Len(c.kids) /\ k \in Nat /\ c.code # "OK" /\ Len(c.kids) \in Nat /\ c.root # None
  <2>1. Len(c.kids) \in Nat /\ k \in Nat
    BY <1>3 DEF Call
  <2> QED
    BY <1>1, <1>3, <2>1 DEF ControlOK
<1>5. p \in alone => /\ \A l \in links : \/ RootEntry(c, l) \/ ChildEntry(c, l, k)
                                         \/ Left(links, stuck, c, l)
  BY <1>1 DEF BundleInv, AloneOK, Allowed
<1>6. CASE me' = [me EXCEPT ![p].pc = "rmchild"]
  <2>1. "rmchild" \in Labels
    BY DEF Labels
  <2>2. Becomes(p, "rmchild", c.at, c.seen, c.root, c.kids, c.files, c.code)
    BY <1>3, <1>6, <2>1, GoneTo DEF Goto
  <2>3. /\ c2.pc = "rmchild" /\ c2.at = k /\ c2.root = c.root /\ c2.kids = c.kids
        /\ c2.files = c.files /\ c2.code = c.code
    BY <2>2 DEF Becomes
  <2> HIDE DEF c, c2
  <2>4. ControlOK(node', p, c2)
    BY <1>4, <2>3 DEF ControlOK
  <2>5. CalmOK(node', links', above', c2)
    BY <2>3 DEF CalmOK
  <2>6. p \in alone' => \A l \in links' : Allowed(node', links', stuck', c2, l)
    BY <1>1, <1>5, <2>3, SameRecords DEF Allowed, Left
  <2> QED
    BY <1>2, <2>2, <2>4, <2>5, <2>6, StepKeeps DEF c, c2
<1>7. CASE ~ChildMatches(p, k) /\ me' = [me EXCEPT ![p].at = k - 1]
  <2>1. k - 1 \in Nat /\ k - 1 <= Len(c.kids)
    BY <1>4
  <2>2. Becomes(p, c.pc, k - 1, c.seen, c.root, c.kids, c.files, c.code)
    BY <1>3, <1>7, <2>1, Stepped
  <2>3. /\ c2.pc = "cleanchild" /\ c2.at = k - 1 /\ c2.root = c.root /\ c2.kids = c.kids
        /\ c2.files = c.files /\ c2.code = c.code
    BY <1>1, <2>2 DEF Becomes
  <2>4. Entry(c.root, Children[k]) # c.kids[k]
    BY <1>7 DEF ChildMatches
  <2> HIDE DEF c, c2
  <2>5. ControlOK(node', p, c2)
    BY <1>4, <2>1, <2>3 DEF ControlOK
  <2>6. CalmOK(node', links', above', c2)
    BY <2>3 DEF CalmOK
  <2>7. ASSUME NEW l \in links, ChildEntry(c, l, k) PROVE ChildEntry(c, l, k - 1)
    <3>1. PICK j \in 1..k : l.dir = c.root /\ l.name = Children[j] /\ l.ino = c.kids[j]
      BY <2>7 DEF ChildEntry
    <3>2. j # k
      BY <1>2, <2>4, <3>1, EntryFacts
    <3>3. j \in 1..k - 1
      BY <1>4, <3>1, <3>2
    <3> QED
      BY <3>1, <3>3 DEF ChildEntry
  <2>8. p \in alone' => \A l \in links' : Allowed(node', links', stuck', c2, l)
    BY <1>1, <1>5, <2>3, <2>7, SameRecords DEF Allowed, Left
  <2> QED
    BY <1>2, <2>2, <2>5, <2>6, <2>8, StepKeeps DEF c, c2
<1> QED
  BY <1>6, <1>7 DEF CleanChild, Compared, PreviousAt

(* rmdir leaves a directory there only when something is in it.            *)
LEMMA RemovedDirectory ==
    ASSUME BundleInv, NEW p \in Procs, NEW d, NEW n, RemoveDirectory(p, d, n), stuck' = stuck
    PROVE  /\ OwnTree(p) /\ links' \subseteq links /\ node' = node
           /\ p \in alone' => p \in alone
           /\ \A l \in links : l \in links' \/ (l.dir = d /\ l.name = n)
           /\ \A l \in links' : l.dir = d /\ l.name = n /\ node[l.ino].kind = "dir" =>
                  \E m \in links' : m.dir = l.ino
<1>1. CASE Remove(p, d, n)
  <2>1. OwnTree(p) /\ links' \subseteq links /\ node' = node
        /\ \A l \in links' : ~(l.dir = d /\ l.name = n)
    BY <1>1, Removed
  <2> QED
    BY <1>1, <2>1 DEF Remove, DisturbedBy
<1>2. CASE /\ ~IsDir(Entry(d, n)) \/ Listing(Entry(d, n)) # {}
           /\ UNCHANGED <<tree, calm, alone>>
  <2>1. OwnTree(p) /\ links' = links /\ node' = node /\ alone' = alone
    BY <1>2, Looked DEF tree
  <2>2. ASSUME NEW l \in links, l.dir = d /\ l.name = n /\ node[l.ino].kind = "dir"
        PROVE  \E m \in links : m.dir = l.ino
    <3>1. Entry(d, n) = l.ino /\ l.ino # None
      BY <2>2, EntryFacts DEF BundleInv
    <3>2. Listing(l.ino) # {}
      BY <1>2, <2>2, <3>1 DEF IsDir
    <3> QED
      BY <3>2 DEF Listing
  <2> QED
    BY <2>1, <2>2
<1> QED
  BY <1>1, <1>2 DEF RemoveDirectory

LEMMA RmdirChildKeeps ==
    ASSUME BundleInv, NEW p \in Procs, RmdirChild(p)
    PROVE  BundleInv'
<1> USE DEF Beginning, Filling, Verifying, CleaningFiles, CleaningChildren
<1> DEFINE c == me[p]
           c2 == me'[p]
           k == c.at
<1>1. /\ c.pc = "rmchild" /\ stuck' = stuck /\ RemoveDirectory(p, c.root, Children[k])
      /\ me' = [me EXCEPT ![p].pc = "cleanchild", ![p].at = k - 1]
  BY DEF RmdirChild
<1>2. TreeOK(node, links) /\ me \in [Procs -> Call]
      /\ c \in Call /\ PinnedOK(node, p, c) /\ ControlOK(node, p, c)
  BY DEF BundleInv, CallOK
<1>3. k \in 1..Len(c.kids) /\ k \in Nat /\ c.code # "OK" /\ Len(c.kids) \in Nat /\ c.root # None
  <2>1. Len(c.kids) \in Nat /\ k \in Nat
    BY <1>2 DEF Call
  <2> QED
    BY <1>1, <1>2, <2>1 DEF ControlOK
<1>4. p \in alone => /\ \A l \in links : \/ RootEntry(c, l) \/ ChildEntry(c, l, k)
                                         \/ Left(links, stuck, c, l)
  BY <1>1 DEF BundleInv, AloneOK, Allowed
<1>5. /\ OwnTree(p) /\ links' \subseteq links /\ node' = node
      /\ p \in alone' => p \in alone
      /\ \A l \in links : l \in links' \/ l.dir = c.root
      /\ \A l \in links' : l.dir = c.root /\ l.name = Children[k] /\ node[l.ino].kind = "dir" =>
             \E m \in links' : m.dir = l.ino
  BY <1>1, RemovedDirectory
<1>6. "cleanchild" \in Labels /\ k - 1 \in Nat /\ k - 1 <= Len(c.kids)
  BY <1>3 DEF Labels
<1>7. Becomes(p, "cleanchild", k - 1, c.seen, c.root, c.kids, c.files, c.code)
  BY <1>1, <1>2, <1>6, Placed
<1>8. /\ c2.pc = "cleanchild" /\ c2.at = k - 1 /\ c2.root = c.root /\ c2.kids = c.kids
      /\ c2.files = c.files /\ c2.code = c.code
  BY <1>7 DEF Becomes
<1> HIDE DEF c, c2
<1>9. ControlOK(node', p, c2)
  BY <1>3, <1>6, <1>8 DEF ControlOK
<1>10. CalmOK(node', links', above', c2)
  BY <1>8 DEF CalmOK
<1>11. ASSUME NEW l \in links', ChildEntry(c, l, k), p \in alone
       PROVE  ChildEntry(c, l, k - 1) \/ Left(links', stuck', c2, l)
  <2>1. PICK j \in 1..k : l.dir = c.root /\ l.name = Children[j] /\ l.ino = c.kids[j]
    BY <1>11 DEF ChildEntry
  <2>2. CASE j # k
    <3>1. j \in 1..k - 1
      BY <1>3, <2>1, <2>2
    <3> QED
      BY <2>1, <3>1 DEF ChildEntry
  <2>3. CASE j = k
    <3>1. c.kids[k] \in 2..Len(node) /\ c.root < c.kids[k] /\ node[c.kids[k]].kind = "dir"
      BY <1>2, <1>3 DEF PinnedOK
    <3>2. \E m \in links' : m.dir = l.ino
      BY <1>5, <2>1, <2>3, <3>1
    <3>3. c.root \in Nat /\ l.ino # c.root
      BY <1>2, <2>1, <2>3, <3>1 DEF Call
    <3> QED
      BY <1>8, <3>2, <3>3 DEF Left
  <2> QED
    BY <2>2, <2>3
<1>12. ASSUME NEW l \in links', Left(links, stuck, c, l) PROVE Left(links', stuck', c2, l)
  BY <1>1, <1>5, <1>8, <1>12 DEF Left
<1>13. ASSUME p \in alone', NEW l \in links' PROVE Allowed(node', links', stuck', c2, l)
  <2>1. RootEntry(c, l) \/ ChildEntry(c, l, k) \/ Left(links, stuck, c, l)
    BY <1>4, <1>5, <1>13
  <2>2. RootEntry(c2, l) \/ ChildEntry(c2, l, c2.at) \/ Left(links', stuck', c2, l)
    BY <1>5, <1>8, <1>11, <1>12, <1>13, <2>1, SameRecords
  <2> QED
    BY <1>8, <2>2 DEF Allowed
<1> QED
  BY <1>5, <1>7, <1>9, <1>10, <1>13, StepKeeps DEF c, c2

LEMMA CleanOutputKeeps ==
    ASSUME BundleInv, NEW p \in Procs, CleanOutput(p)
    PROVE  BundleInv'
<1> USE DEF Beginning, Filling, Verifying, CleaningFiles, CleaningChildren
<1> DEFINE c == me[p]
           c2 == me'[p]
<1>1. /\ c.pc = "cleanchild" /\ c.at = 0
      /\ UNCHANGED tree /\ calm' \subseteq calm \cup {p} /\ alone' = alone /\ stuck' = stuck
      /\ node' = node /\ links' = links
  BY DEF CleanOutput, Compared, tree
<1>2. OwnTree(p) /\ TreeOK(node, links)
  BY <1>1, Looked DEF BundleInv
<1>3. me \in [Procs -> Call] /\ c \in Call /\ ControlOK(node, p, c)
  BY <1>1, <1>2, OwnCallKept
<1>4. c.code # "OK" /\ c.root # None
  BY <1>1, <1>3 DEF ControlOK
<1>5. ASSUME p \in alone
      PROVE  \A l \in links : RootEntry(c, l) \/ Left(links, stuck, c, l)
  <2>1. \A l : ~ChildEntry(c, l, c.at)
    BY <1>1 DEF ChildEntry
  <2> QED
    BY <1>1, <1>5, <2>1 DEF BundleInv, AloneOK, Allowed
<1>6. CASE me' = [me EXCEPT ![p].pc = "rmoutput"]
  <2>1. "rmoutput" \in Labels
    BY DEF Labels
  <2>2. Becomes(p, "rmoutput", c.at, c.seen, c.root, c.kids, c.files, c.code)
    BY <1>3, <1>6, <2>1, GoneTo DEF Goto
  <2>3. /\ c2.pc = "rmoutput" /\ c2.root = c.root /\ c2.kids = c.kids
        /\ c2.files = c.files /\ c2.code = c.code
    BY <2>2 DEF Becomes
  <2> HIDE DEF c, c2
  <2>4. ControlOK(node', p, c2)
    BY <1>4, <2>3 DEF ControlOK
  <2>5. CalmOK(node', links', above', c2)
    BY <2>3 DEF CalmOK
  <2>6. p \in alone' => \A l \in links' : Allowed(node', links', stuck', c2, l)
    BY <1>1, <1>5, <2>3, SameRecords DEF Allowed, Left
  <2> QED
    BY <1>2, <2>2, <2>4, <2>5, <2>6, StepKeeps DEF c, c2
<1>7. CASE Entry(Parent, Output) # c.root /\ Goto(p, "done")
  <2>1. "done" \in Labels
    BY DEF Labels
  <2>2. Becomes(p, "done", c.at, c.seen, c.root, c.kids, c.files, c.code)
    BY <1>3, <1>7, <2>1, GoneTo
  <2>3. c2.pc = "done"
    BY <2>2 DEF Becomes
  <2>4. \A l \in links : ~RootEntry(c, l)
    BY <1>2, <1>7, EntryFacts DEF RootEntry
  <2> HIDE DEF c2
  <2>5. ControlOK(node', p, c2)
    BY <2>3 DEF ControlOK
  <2>6. CalmOK(node', links', above', c2)
    BY <2>3 DEF CalmOK
  <2>7. p \in alone' => \A l \in links' : Allowed(node', links', stuck', c2, l)
    BY <1>1, <1>5, <2>3, <2>4 DEF Allowed, Left
  <2> QED
    BY <1>2, <2>2, <2>5, <2>6, <2>7, StepKeeps DEF c2
<1> QED
  BY <1>6, <1>7 DEF CleanOutput, Compared

LEMMA RmdirOutputKeeps ==
    ASSUME BundleInv, NEW p \in Procs, RmdirOutput(p)
    PROVE  BundleInv'
<1> USE DEF Beginning, Filling, Verifying, CleaningFiles, CleaningChildren
<1> DEFINE c == me[p]
           c2 == me'[p]
<1>1. /\ c.pc = "rmoutput" /\ stuck' = stuck /\ RemoveDirectory(p, Parent, Output)
      /\ Goto(p, "done")
  BY DEF RmdirOutput
<1>2. TreeOK(node, links) /\ me \in [Procs -> Call]
      /\ c \in Call /\ PinnedOK(node, p, c) /\ ControlOK(node, p, c)
  BY DEF BundleInv, CallOK
<1>3. c.root \in 2..Len(node) /\ node[c.root].kind = "dir"
  BY <1>1, <1>2 DEF PinnedOK, ControlOK
<1>4. p \in alone => /\ \A l \in links : RootEntry(c, l) \/ Left(links, stuck, c, l)
  BY <1>1 DEF BundleInv, AloneOK, Allowed
<1>5. /\ OwnTree(p) /\ links' \subseteq links /\ node' = node
      /\ p \in alone' => p \in alone
      /\ \A l \in links : l \in links' \/ l.dir = Parent
      /\ \A l \in links' : l.dir = Parent /\ l.name = Output /\ node[l.ino].kind = "dir" =>
             \E m \in links' : m.dir = l.ino
  BY <1>1, RemovedDirectory
<1>6. "done" \in Labels
  BY DEF Labels
<1>7. Becomes(p, "done", c.at, c.seen, c.root, c.kids, c.files, c.code)
  BY <1>1, <1>2, <1>6, GoneTo
<1>8. c2.pc = "done"
  BY <1>7 DEF Becomes
<1> HIDE DEF c, c2
<1>9. ControlOK(node', p, c2)
  BY <1>8 DEF ControlOK
<1>10. CalmOK(node', links', above', c2)
  BY <1>8 DEF CalmOK
<1>11. ASSUME NEW l \in links', p \in alone
       PROVE  l.ino \in stuck' \/ \E m \in links' : m.dir = l.ino
  <2>1. CASE RootEntry(c, l)
    BY <1>3, <1>5, <2>1 DEF RootEntry
  <2>2. CASE \E m \in links : m.dir = l.ino
    <3>1. PICK m \in links : m.dir = l.ino
      BY <2>2
    <3>2. l.dir \in 1..Len(node) /\ l.ino \in 1..Len(node) /\ l.dir < l.ino /\ Len(node) \in Nat
      BY <1>2, <1>5, <1>11 DEF TreeOK
    <3>3. m.dir # Parent
      BY <3>1, <3>2 DEF Parent
    <3> QED
      BY <1>5, <3>1, <3>3
  <2> QED
    BY <1>1, <1>4, <1>5, <1>11, <2>1, <2>2 DEF Left
<1>12. p \in alone' => \A l \in links' : Allowed(node', links', stuck', c2, l)
  BY <1>1, <1>4, <1>5, <1>8, <1>11 DEF Allowed
<1> QED
  BY <1>5, <1>7, <1>9, <1>10, <1>12, StepKeeps DEF c, c2

(* A step of the clean-up that fails leaves the entry it was at.           *)
LEMMA CleanCallFailsKeeps ==
    ASSUME BundleInv, NEW p \in Procs, CleanCallFails(p)
    PROVE  BundleInv'
<1> USE DEF Beginning, Filling, Verifying, CleaningFiles, CleaningChildren
<1> DEFINE c == me[p]
           c2 == me'[p]
           k == c.at
<1>1. /\ UNCHANGED tree /\ calm' = calm /\ alone' = alone /\ stuck \subseteq stuck'
      /\ node' = node /\ links' = links
  BY DEF CleanCallFails, tree
<1>2. OwnTree(p)
  BY <1>1, Looked
<1>3. me \in [Procs -> Call] /\ c \in Call /\ PinnedOK(node, p, c) /\ ControlOK(node, p, c)
  BY <1>1, <1>2, OwnCallKept
<1>4. k \in Nat /\ Len(c.files) \in Nat /\ Len(c.kids) \in Nat
  BY <1>3 DEF Call
<1>5. CASE /\ c.pc \in {"cleanfile", "unlink"} /\ k > 0
           /\ me' = [me EXCEPT ![p].pc = "cleanfile", ![p].at = @ - 1]
           /\ stuck' = stuck \cup {c.files[k]}
  <2>1. "cleanfile" \in Labels /\ k - 1 \in Nat /\ k \in 1..Len(c.files) /\ c.code # "OK"
    BY <1>3, <1>4, <1>5 DEF Labels, ControlOK
  <2>2. Becomes(p, "cleanfile", k - 1, c.seen, c.root, c.kids, c.files, c.code)
    BY <1>3, <1>5, <2>1, Placed
  <2>3. /\ c2.pc = "cleanfile" /\ c2.at = k - 1 /\ c2.root = c.root /\ c2.kids = c.kids
        /\ c2.files = c.files /\ c2.code = c.code
    BY <2>2 DEF Becomes
  <2>4. p \in alone => \A l \in links : \/ RootEntry(c, l) \/ ChildEntry(c, l, Len(c.kids))
                                        \/ FileEntry(c, l, k) \/ l.ino \in stuck
    BY <1>5 DEF BundleInv, AloneOK, Allowed
  <2> HIDE DEF c, c2
  <2>5. ControlOK(node', p, c2)
    BY <1>4, <2>1, <2>3 DEF ControlOK
  <2>6. CalmOK(node', links', above', c2)
    BY <2>3 DEF CalmOK
  <2>7. ASSUME NEW l \in links, FileEntry(c, l, k) PROVE FileEntry(c, l, k - 1) \/ l.ino \in stuck'
    <3>1. PICK j \in 1..k : /\ l.dir = DirIn(c, Bundle[j].dir) /\ l.name = Bundle[j].name
                            /\ l.ino = c.files[j]
      BY <2>7 DEF FileEntry
    <3>2. j \in 1..k - 1 \/ j = k
      BY <1>4, <3>1
    <3>3. CASE j \in 1..k - 1
      BY <3>1, <3>3 DEF FileEntry
    <3> QED
      BY <1>5, <3>1, <3>2, <3>3
  <2>8. ASSUME p \in alone', NEW l \in links' PROVE Allowed(node', links', stuck', c2, l)
    <3>1. \/ RootEntry(c2, l) \/ ChildEntry(c2, l, Len(c2.kids)) \/ FileEntry(c2, l, c2.at)
          \/ l.ino \in stuck'
      BY <1>1, <2>3, <2>4, <2>7, <2>8, SameRecords
    <3> QED
      BY <2>3, <3>1 DEF Allowed
  <2> QED
    BY <1>2, <2>2, <2>5, <2>6, <2>8, StepKeeps DEF c, c2
<1>6. CASE /\ c.pc \in {"cleanchild", "rmchild"} /\ k > 0
           /\ me' = [me EXCEPT ![p].pc = "cleanchild", ![p].at = @ - 1]
           /\ stuck' = stuck \cup {c.kids[k]}
  <2>1. /\ "cleanchild" \in Labels /\ k - 1 \in Nat /\ k \in 1..Len(c.kids) /\ c.code # "OK"
        /\ c.root # None
    BY <1>3, <1>4, <1>6 DEF Labels, ControlOK
  <2>2. Becomes(p, "cleanchild", k - 1, c.seen, c.root, c.kids, c.files, c.code)
    BY <1>3, <1>6, <2>1, Placed
  <2>3. /\ c2.pc = "cleanchild" /\ c2.at = k - 1 /\ c2.root = c.root /\ c2.kids = c.kids
        /\ c2.files = c.files /\ c2.code = c.code
    BY <2>2 DEF Becomes
  <2>4. p \in alone => \A l \in links : \/ RootEntry(c, l) \/ ChildEntry(c, l, k)
                                        \/ Left(links, stuck, c, l)
    BY <1>6 DEF BundleInv, AloneOK, Allowed
  <2> HIDE DEF c, c2
  <2>5. ControlOK(node', p, c2)
    BY <1>4, <2>1, <2>3 DEF ControlOK
  <2>6. CalmOK(node', links', above', c2)
    BY <2>3 DEF CalmOK
  <2>7. ASSUME NEW l \in links, ChildEntry(c, l, k) PROVE ChildEntry(c, l, k - 1) \/ l.ino \in stuck'
    <3>1. PICK j \in 1..k : l.dir = c.root /\ l.name = Children[j] /\ l.ino = c.kids[j]
      BY <2>7 DEF ChildEntry
    <3>2. j \in 1..k - 1 \/ j = k
      BY <1>4, <3>1
    <3>3. CASE j \in 1..k - 1
      BY <3>1, <3>3 DEF ChildEntry
    <3> QED
      BY <1>6, <3>1, <3>2, <3>3
  <2>8. ASSUME p \in alone', NEW l \in links' PROVE Allowed(node', links', stuck', c2, l)
    <3>1. Left(links, stuck, c, l) \/ l.ino \in stuck' => Left(links', stuck', c2, l)
      BY <1>1, <2>3 DEF Left
    <3>2. RootEntry(c2, l) \/ ChildEntry(c2, l, c2.at) \/ Left(links', stuck', c2, l)
      BY <1>1, <2>3, <2>4, <2>7, <2>8, <3>1, SameRecords
    <3> QED
      BY <2>3, <3>2 DEF Allowed
  <2> QED
    BY <1>2, <2>2, <2>5, <2>6, <2>8, StepKeeps DEF c, c2
<1>7. CASE /\ c.pc = "rmoutput" \/ (c.pc = "cleanchild" /\ k = 0)
           /\ Goto(p, "done") /\ stuck' = stuck \cup {c.root}
  <2>1. "done" \in Labels
    BY DEF Labels
  <2>2. Becomes(p, "done", c.at, c.seen, c.root, c.kids, c.files, c.code)
    BY <1>3, <1>7, <2>1, GoneTo
  <2>3. c2.pc = "done"
    BY <2>2 DEF Becomes
  <2>4. \A l : ~ChildEntry(c, l, 0)
    BY DEF ChildEntry
  <2>5. p \in alone => \A l \in links : RootEntry(c, l) \/ Left(links, stuck, c, l)
    BY <1>7, <2>4 DEF BundleInv, AloneOK, Allowed
  <2> HIDE DEF c, c2
  <2>6. ControlOK(node', p, c2)
    BY <2>3 DEF ControlOK
  <2>7. CalmOK(node', links', above', c2)
    BY <2>3 DEF CalmOK
  <2>8. ASSUME p \in alone', NEW l \in links' PROVE Allowed(node', links', stuck', c2, l)
    <3>1. l.ino \in stuck' \/ \E m \in links' : m.dir = l.ino
      BY <1>1, <1>7, <2>5, <2>8 DEF RootEntry, Left
    <3> QED
      BY <2>3, <3>1 DEF Allowed
  <2> QED
    BY <1>2, <2>2, <2>6, <2>7, <2>8, StepKeeps DEF c, c2
<1> QED
  BY <1>5, <1>6, <1>7 DEF CleanCallFails

-----------------------------------------------------------------------------
(* What others do, and the invariant of all behaviours.                    *)
LEMMA OthersKeep ==
    ASSUME BundleInv, me' = me, Grown(node, node'), TreeOK(node', links'), DisturbedBy(Nobody)
    PROVE  BundleInv'
<1>1. ASSUME NEW q \in Procs PROVE CallOK(node', q, me'[q])
  <2>1. me[q] \in Call /\ CallOK(node, q, me[q])
    BY DEF BundleInv
  <2>2. node \in Seq(Inode) /\ node' \in Seq(Inode)
    BY DEF BundleInv, TreeOK
  <2> QED
    BY <2>1, <2>2, CallKept
<1>2. \A q \in Procs : q \notin calm' /\ q \notin alone'
  BY InitAssumption DEF DisturbedBy
<1> QED
  BY <1>1, <1>2 DEF BundleInv

LEMMA OthersStepKeeps ==
    ASSUME BundleInv, MoveAway \/ MoveParent \/ Plant \/ Tamper
    PROVE  BundleInv'
<1>1. TreeOK(node, links) /\ node \in Seq(Inode) /\ Len(node) \in Nat /\ Len(node) >= 1
  BY DEF BundleInv, TreeOK
<1>2. CASE MoveAway
  <2>1. me' = me /\ node' = node /\ links' \subseteq links /\ DisturbedBy(Nobody)
    BY <1>2 DEF MoveAway, Others
  <2>2. Grown(node, node') /\ TreeOK(node', links')
    BY <1>1, <2>1 DEF Grown, TreeOK
  <2> QED
    BY <2>1, <2>2, OthersKeep
<1>3. CASE MoveParent
  <2>1. me' = me /\ node' = node /\ links' = links /\ DisturbedBy(Nobody)
    BY <1>3 DEF MoveParent, Others
  <2>2. Grown(node, node') /\ TreeOK(node', links')
    BY <1>1, <2>1 DEF Grown
  <2> QED
    BY <2>1, <2>2, OthersKeep
<1>4. CASE Plant
  <2>1. PICK place \in Places, kind \in Kinds :
            /\ Entry(place.dir, place.name) = None
            /\ Make(place.dir, place.name, kind, Nobody, "theirs")
    BY <1>4 DEF Plant, Kinds
  <2>2. place.dir \in 1..Len(node)
    BY <1>1, <2>1 DEF Places, Parent
  <2>3. "theirs" \in Contents /\ Nobody \in Procs \cup {Nobody}
    BY DEF Contents
  <2>4. Grown(node, node') /\ TreeOK(node', links') /\ DisturbedBy(Nobody)
    BY <1>1, <2>1, <2>2, <2>3, Made, Zenon
  <2>5. me' = me
    BY <1>4 DEF Plant, Others
  <2> QED
    BY <2>4, <2>5, OthersKeep
<1>5. CASE Tamper
  <2>1. PICK i \in 2..Len(node) : node' = [node EXCEPT ![i].holds = "theirs"]
    BY <1>5 DEF Tamper
  <2>2. me' = me /\ links' = links /\ DisturbedBy(Nobody)
    BY <1>5 DEF Tamper, Others
  <2>3. "theirs" \in Contents /\ i \in 1..Len(node)
    BY <1>1, <2>1 DEF Contents
  <2>4. Grown(node, node') /\ TreeOK(node', links')
    BY <1>1, <2>1, <2>2, <2>3, Written
  <2> QED
    BY <2>2, <2>4, OthersKeep
<1> QED
  BY <1>2, <1>3, <1>4, <1>5

LEMMA OneInode ==
    ASSUME NEW x \in Inode
    PROVE  <<x>> \in Seq(Inode) /\ Len(<<x>>) = 1 /\ <<x>>[1] = x
  OBVIOUS

LEMMA BundleBegins == Init => BundleInv
<1> SUFFICES ASSUME Init PROVE BundleInv
  OBVIOUS
<1> USE DEF Beginning, Filling, Verifying, CleaningFiles, CleaningChildren
<1> DEFINE dir == [kind |-> "dir", owner |-> Nobody, holds |-> ""]
<1>1. dir \in Inode /\ dir.kind = "dir" /\ dir.holds = ""
  BY DEF Inode, Kinds, Contents
<1>2. node = <<dir>> /\ links = {} /\ me = [p \in Procs |-> Idle]
  BY DEF Init
<1> HIDE DEF dir
<1>3. node \in Seq(Inode) /\ Len(node) = 1 /\ node[1] = dir
  BY <1>1, <1>2, OneInode, Zenon
<1>4. TreeOK(node, links)
  BY <1>2, <1>3 DEF TreeOK
<1>5. /\ Idle.pc = "start" /\ Idle.root = 0 /\ Idle.kids = <<>> /\ Idle.files = <<>>
      /\ Idle.code = "NONE" /\ Idle \in Call
  BY DEF Idle, Call, Labels, Codes, None
<1>6. ASSUME NEW p \in Procs PROVE CallOK(node, p, me[p])
  <2>1. me[p] = Idle /\ Len(Idle.kids) = 0 /\ Len(Idle.files) = 0
    BY <1>2, <1>5
  <2>2. PinnedOK(node, p, Idle)
    BY <1>5, <2>1, BundleLengths DEF PinnedOK, None
  <2>3. ControlOK(node, p, Idle)
    BY <1>5 DEF ControlOK, None
  <2> QED
    BY <2>1, <2>2, <2>3 DEF CallOK
<1>7. ASSUME NEW p \in Procs
      PROVE  CalmOK(node, links, above, me[p]) /\ AloneOK(node, links, stuck, me[p])
  <2>1. me[p].pc = "start"
    BY <1>2, <1>5
  <2> QED
    BY <1>2, <2>1 DEF CalmOK, AloneOK
<1>8. me \in [Procs -> Call]
  BY <1>2, <1>5
<1> QED
  BY <1>4, <1>6, <1>7, <1>8 DEF BundleInv

LEMMA BundleStep == BundleInv /\ [Next]_vars => BundleInv'
<1> SUFFICES ASSUME BundleInv, [Next]_vars PROVE BundleInv'
  OBVIOUS
<1>1. CASE UNCHANGED vars
  BY <1>1 DEF vars, BundleInv
<1>2. CASE MoveAway \/ MoveParent \/ Plant \/ Tamper
  BY <1>2, OthersStepKeeps
<1>3. ASSUME NEW p \in Procs, Step(p) PROVE BundleInv'
  BY <1>3, BeginKeeps, MkdirParentKeeps, OpenParentKeeps, ParentFailsKeeps, StatKeeps, MkdirOutputKeeps, OpenOutputKeeps, PinOutputKeeps,
     MkdirChildKeeps, OpenChildKeeps, PinChildKeeps, CreateFileKeeps, WriteFileKeeps,
     WriteFailsKeeps, CallFailsKeeps, VerifyPathKeeps, VerifyRootKeeps, VerifyFileKeeps,
     VerifyChildrenKeeps, CleanFileKeeps, UnlinkKeeps, CleanedFilesKeeps, CleanChildKeeps,
     RmdirChildKeeps, CleanOutputKeeps, RmdirOutputKeeps, CleanCallFailsKeeps DEF Step
<1> QED
  BY <1>1, <1>2, <1>3 DEF Next

LEMMA BundleInvariant == Spec => []BundleInv
<1>1. Init => BundleInv
  BY BundleBegins
<1>2. BundleInv /\ [Next]_vars => BundleInv'
  BY BundleStep
<1> QED
  BY <1>1, <1>2, PTL DEF Spec

-----------------------------------------------------------------------------
(* A call of init-demo that failed and was not disturbed has removed all   *)
(* of its output but what a system call failed over, as it was being made  *)
(* or as it was being cleaned up, and the directories that hold it.  This  *)
(* is for every bundle, any number of failing calls, any number of         *)
(* processes at the same output and whatever others do.                    *)
THEOREM FailedCallsLeaveNothing == Spec => []FailureLeavesNothing
<1>1. BundleInv => FailureLeavesNothing
  <2> SUFFICES ASSUME BundleInv, NEW p \in Procs, me[p].pc = "done", me[p].code # "OK", p \in alone,
                      NEW l \in links
               PROVE  l.ino \in stuck \/ Listing(l.ino) # {}
    BY DEF FailureLeavesNothing
  <2>1. Allowed(node, links, stuck, me[p], l)
    BY DEF BundleInv, AloneOK
  <2>2. l.ino \in stuck \/ \E m \in links : m.dir = l.ino
    BY <2>1 DEF Allowed
  <2> QED
    BY <2>2 DEF Listing
<1> QED
  BY <1>1, BundleInvariant, PTL

-----------------------------------------------------------------------------
(* A step is of one call.                                                  *)
LEMMA OneCall ==
    ASSUME me \in [Procs -> Call], NEW p \in Procs, NEW q \in Procs, q # p, Step(q)
    PROVE  me'[p] = me[p]
<1> USE DEF Goto, Fail, Refuse
<1>1. CASE Begin(q) \/ StatOutput(q) \/ PinOutput(q)
  BY <1>1 DEF Begin, StatOutput, PinOutput
<1>2. CASE MkdirOutput(q) \/ MkdirChild(q)
  BY <1>2 DEF MkdirOutput, MkdirChild, MakeDirectory
<1>3. CASE OpenOutput(q) \/ OpenChild(q)
  BY <1>3 DEF OpenOutput, OpenChild, OpenDirectory
<1>4. CASE PinChild(q) \/ WriteFile(q)
  BY <1>4 DEF PinChild, WriteFile
<1>5. CASE CreateFile(q)
  BY <1>5 DEF CreateFile
<1>6. CASE WriteFails(q) \/ CallFails(q)
  BY <1>6 DEF WriteFails, CallFails
<1>7. CASE VerifyPath(q) \/ VerifyRoot(q) \/ VerifyChildren(q)
  BY <1>7 DEF VerifyPath, VerifyRoot, VerifyChildren
<1>8. CASE VerifyFile(q)
  BY <1>8 DEF VerifyFile
<1>9. CASE CleanFile(q) \/ CleanChild(q) \/ CleanOutput(q)
  BY <1>9 DEF CleanFile, CleanChild, CleanOutput, Compared, PreviousAt
<1>10. CASE Unlink(q) \/ RmdirChild(q)
  BY <1>10 DEF Unlink, RmdirChild
<1>11. CASE CleanedFiles(q) \/ RmdirOutput(q)
  BY <1>11 DEF CleanedFiles, RmdirOutput
<1>12. CASE MkdirParent(q) \/ OpenParent(q) \/ ParentFails(q)
  BY <1>12 DEF MkdirParent, OpenParent, ParentFails
<1>13. CASE CleanCallFails(q)
  BY <1>13 DEF CleanCallFails
<1> QED
  BY <1>1, <1>2, <1>3, <1>4, <1>5, <1>6, <1>7, <1>8, <1>9, <1>10, <1>11, <1>12, <1>13 DEF Step

(* Only the verification reports success.                                  *)
LEMMA OnlyVerification ==
    ASSUME BundleInv, NEW p \in Procs, Step(p), me[p].pc # "done",
           me'[p].pc = "done", me'[p].code = "OK"
    PROVE  VerifyChildren(p)
<1> USE DEF Goto, Fail, Refuse
<1>1. me \in [Procs -> Call] /\ me[p] \in Call /\ me[p].code # "OK"
  BY DEF BundleInv, CallOK, ControlOK
<1>2. CASE Begin(p) \/ StatOutput(p) \/ PinOutput(p)
  BY <1>1, <1>2 DEF Begin, StatOutput, PinOutput, Call
<1>3. CASE MkdirOutput(p) \/ MkdirChild(p)
  BY <1>1, <1>3 DEF MkdirOutput, MkdirChild, MakeDirectory, Call
<1>4. CASE OpenOutput(p) \/ OpenChild(p)
  BY <1>1, <1>4 DEF OpenOutput, OpenChild, OpenDirectory, Call
<1>5. CASE PinChild(p) \/ WriteFile(p)
  BY <1>1, <1>5 DEF PinChild, WriteFile, Call
<1>6. CASE CreateFile(p)
  <2>1. CASE Fail(p, "DEMO_OUTPUT_EXISTS")
    BY <1>1, <2>1 DEF Call
  <2>2. CASE me' = [me EXCEPT ![p].pc = "write", ![p].seen = Len(node) + 1]
    BY <1>1, <2>2 DEF Call
  <2> QED
    BY <1>6, <2>1, <2>2 DEF CreateFile
<1>7. CASE WriteFails(p) \/ CallFails(p)
  <2>1. PICK code : Fail(p, code)
    BY <1>7 DEF WriteFails, CallFails
  <2> QED
    BY <1>1, <2>1 DEF Call
<1>8. CASE VerifyPath(p) \/ VerifyRoot(p)
  BY <1>1, <1>8 DEF VerifyPath, VerifyRoot, Call
<1>9. CASE VerifyFile(p)
  BY <1>1, <1>9 DEF VerifyFile, Call
<1>10. CASE CleanFile(p) \/ CleanChild(p) \/ CleanOutput(p)
  BY <1>1, <1>10 DEF CleanFile, CleanChild, CleanOutput, Compared, PreviousAt, Call
<1>11. CASE Unlink(p) \/ RmdirChild(p)
  BY <1>1, <1>11 DEF Unlink, RmdirChild, Call
<1>12. CASE CleanedFiles(p) \/ RmdirOutput(p)
  BY <1>1, <1>12 DEF CleanedFiles, RmdirOutput, Call
<1>13. CASE MkdirParent(p) \/ OpenParent(p) \/ ParentFails(p)
  BY <1>1, <1>13 DEF MkdirParent, OpenParent, ParentFails, Call
<1>14. CASE CleanCallFails(p)
  BY <1>1, <1>14 DEF CleanCallFails, Call
<1> QED
  BY <1>2, <1>3, <1>4, <1>5, <1>6, <1>7, <1>8, <1>9, <1>10, <1>11, <1>12, <1>13, <1>14 DEF Step

(* The last look of an undisturbed verification completes the bundle.      *)
LEMMA VerifiedIsWhole ==
    ASSUME BundleInv, NEW p \in Procs, p \in calm, me[p].pc = "verifykids",
           \A j \in 1..Len(Children) : Listing(me[p].kids[j]) = NamesIn(Children[j])
    PROVE  Whole(p)
<1> USE DEF Beginning, Filling, Verifying, CleaningFiles, CleaningChildren
<1> DEFINE c == me[p]
<1>1. /\ above = "there" /\ Has(links, Parent, Output, c.root)
      /\ Names(links, c.root) = RootNames
      /\ \A j \in 1..Len(Children) : Has(links, c.root, Children[j], c.kids[j])
      /\ \A k \in 1..Len(Bundle) :
             FileAt(links, c, k) /\ node[c.files[k]].holds = Bundle[k].name
  BY DEF BundleInv, CalmOK
<1>2. TreeOK(node, links)
  BY DEF BundleInv
<1>3. Entry(Parent, Output) = c.root
  BY <1>1, <1>2, EntryFacts
<1>4. Listing(c.root) = RootNames
  BY <1>1 DEF Names, Listing
<1>5. \A j \in 1..Len(Children) : Entry(c.root, Children[j]) = c.kids[j]
  BY <1>1, <1>2, EntryFacts
<1>6. ASSUME NEW k \in 1..Len(Bundle)
      PROVE  LET d == IF Bundle[k].dir = "" THEN c.root ELSE Entry(c.root, Bundle[k].dir)
             IN  node[Entry(d, Bundle[k].name)].holds = Bundle[k].name
  <2> DEFINE d == IF Bundle[k].dir = "" THEN c.root ELSE Entry(c.root, Bundle[k].dir)
             i == CHOOSE j \in 1..Len(Children) : Children[j] = Bundle[k].dir
  <2>1. d = DirIn(c, Bundle[k].dir)
    <3>1. CASE Bundle[k].dir = ""
      BY <3>1 DEF DirIn
    <3>2. CASE Bundle[k].dir # ""
      <4>1. i \in 1..Len(Children) /\ Children[i] = Bundle[k].dir
        BY <3>2, ChildOf
      <4>2. DirIn(c, Bundle[k].dir) = c.kids[i]
        BY <3>2 DEF DirIn
      <4>3. d = Entry(c.root, Bundle[k].dir)
        BY <3>2
      <4> HIDE DEF i, d
      <4> QED
        BY <1>5, <4>1, <4>2, <4>3
    <3> QED
      BY <3>1, <3>2
  <2> HIDE DEF d
  <2>2. Has(links, d, Bundle[k].name, c.files[k])
    BY <1>1, <2>1 DEF FileAt
  <2>3. Entry(d, Bundle[k].name) = c.files[k]
    BY <1>2, <2>2, EntryFacts
  <2>4. node[Entry(d, Bundle[k].name)].holds = Bundle[k].name
    BY <1>1, <2>3
  <2> QED
    BY <2>4 DEF d
<1> QED
  BY <1>1, <1>3, <1>4, <1>5, <1>6 DEF Whole

(* A call of init-demo that reports success left exactly the bundle at the *)
(* path it was asked for, unless others changed the tree during its        *)
(* verification: the look at the path, at the root, at each file and at    *)
(* the directories together see the whole bundle.                          *)
THEOREM SuccessfulCallsAreWhole == Spec => SuccessIsWhole
<1>1. BundleInv /\ [Next]_vars =>
          [\A p \in Procs : /\ me[p].pc # "done" /\ me'[p].pc = "done"
                            /\ me'[p].code = "OK" /\ p \in calm
                            => Whole(p)]_vars
  <2> SUFFICES ASSUME BundleInv, Next, NEW p \in Procs, me[p].pc # "done", me'[p].pc = "done",
                      me'[p].code = "OK", p \in calm
               PROVE  Whole(p)
    OBVIOUS
  <2>1. CASE MoveAway \/ MoveParent \/ Plant \/ Tamper
    BY <2>1 DEF MoveAway, MoveParent, Plant, Tamper, Others
  <2>2. ASSUME NEW q \in Procs, Step(q) PROVE Whole(p)
    <3>1. me \in [Procs -> Call]
      BY DEF BundleInv
    <3>2. q = p
      BY <2>2, <3>1, OneCall
    <3>3. VerifyChildren(p)
      BY <2>2, <3>2, OnlyVerification
    <3>4. /\ me[p].pc = "verifykids"
          /\ \A j \in 1..Len(Children) : Listing(me[p].kids[j]) = NamesIn(Children[j])
      <4>1. me[p].pc = "verifykids" /\ ~Fail(p, "DEMO_OUTPUT_RACE_DETECTED")
        BY <3>1, <3>3 DEF VerifyChildren, Fail, Call
      <4> QED
        BY <3>3, <4>1 DEF VerifyChildren
    <3> QED
      BY <3>4, VerifiedIsWhole
  <2> QED
    BY <2>1, <2>2 DEF Next
<1> QED
  BY <1>1, BundleInvariant, PTL DEF Spec, SuccessIsWhole

-----------------------------------------------------------------------------
(* What a step of a call may do to the tree.                               *)
LEMMA StepOnTree ==
    ASSUME NEW p \in Procs, Step(p)
    PROVE  \/ node' = node /\ links' = links
           \/ \E d, n, kind : Make(d, n, kind, p, "")
           \/ WriteFile(p) \/ WriteFails(p) \/ Unlink(p)
           \/ \E d, n : RemoveDirectory(p, d, n)
<1> USE DEF Look, tree
<1>1. CASE Begin(p) \/ StatOutput(p) \/ PinOutput(p) \/ PinChild(p)
  BY <1>1 DEF Begin, StatOutput, PinOutput, PinChild
<1>2. CASE MkdirOutput(p) \/ MkdirChild(p)
  BY <1>2 DEF MkdirOutput, MkdirChild, MakeDirectory
<1>3. CASE OpenOutput(p) \/ OpenChild(p)
  BY <1>3 DEF OpenOutput, OpenChild, OpenDirectory
<1>4. CASE CreateFile(p)
  BY <1>4 DEF CreateFile
<1>5. CASE CallFails(p) \/ CleanedFiles(p) \/ CleanCallFails(p)
  BY <1>5 DEF CallFails, CleanedFiles, CleanCallFails
<1>6. CASE VerifyPath(p) \/ VerifyRoot(p) \/ VerifyFile(p) \/ VerifyChildren(p)
  BY <1>6 DEF VerifyPath, VerifyRoot, VerifyFile, VerifyChildren
<1>7. CASE CleanFile(p) \/ CleanChild(p) \/ CleanOutput(p)
  BY <1>7 DEF CleanFile, CleanChild, CleanOutput
<1>8. CASE RmdirChild(p) \/ RmdirOutput(p)
  BY <1>8 DEF RmdirChild, RmdirOutput
<1>9. CASE MkdirParent(p) \/ OpenParent(p) \/ ParentFails(p)
  BY <1>9 DEF MkdirParent, OpenParent, ParentFails
<1> QED
  BY <1>1, <1>2, <1>3, <1>4, <1>5, <1>6, <1>7, <1>8, <1>9 DEF Step

LEMMA ForeignKept ==
    ASSUME BundleInv, NEW p \in Procs, Step(p), NEW i \in 1..Len(node),
           node[i].kind # "dir", node[i].owner # p
    PROVE  /\ node'[i].holds = node[i].holds
           /\ Linked(i) => Linked(i)' \/ p \notin calm
<1> USE DEF Beginning, Filling, Verifying, CleaningFiles, CleaningChildren
<1> DEFINE c == me[p]
<1>1. TreeOK(node, links) /\ node \in Seq(Inode) /\ CallOK(node, p, c) /\ c \in Call
  BY DEF BundleInv, TreeOK
<1>2. CASE node' = node /\ links' = links
  BY <1>2 DEF Linked
<1>3. CASE \E d, n, kind : Make(d, n, kind, p, "")
  <2>1. PICK d, n, kind : Make(d, n, kind, p, "")
    BY <1>3
  <2> DEFINE new == [kind |-> kind, owner |-> p, holds |-> ""]
  <2>2. node' = Append(node, new) /\ links \subseteq links'
    BY <2>1 DEF Make
  <2> HIDE DEF new
  <2>3. node'[i] = node[i]
    BY <1>1, <2>2
  <2> QED
    BY <2>2, <2>3 DEF Linked
<1>4. CASE WriteFile(p) \/ WriteFails(p)
  <2>1. c.pc = "write" /\ links' = links
    BY <1>4 DEF WriteFile, WriteFails
  <2>2. PICK content : node' = [node EXCEPT ![c.seen].holds = content]
    BY <1>4 DEF WriteFile, WriteFails
  <2>3. c.seen \in 1..Len(node) /\ node[c.seen].owner = p
    BY <1>1, <2>1 DEF CallOK, ControlOK
  <2>4. node'[i] = node[i]
    BY <1>1, <2>2, <2>3
  <2> QED
    BY <2>1, <2>4 DEF Linked
<1>5. CASE Unlink(p)
  <2> DEFINE d == DirIn(c, Bundle[c.at].dir)
             n == Bundle[c.at].name
  <2>1. c.pc = "unlink" /\ node' = node /\ (Remove(p, d, n) \/ links' = links)
    BY <1>5 DEF Unlink, Remove, DirOf, DirIn, tree
  <2>2. CASE p \in calm /\ Remove(p, d, n)
    <3>1. FileAt(links, c, c.at)
      BY <2>1, <2>2 DEF BundleInv, CalmOK
    <3>2. PICK f \in links : f.dir = d /\ f.name = n /\ f.ino = c.files[c.at]
      BY <3>1 DEF FileAt, Has
    <3>3. c.at \in 1..Len(c.files)
      <4>1. c.at \in Nat /\ Len(c.files) \in Nat
        BY <1>1 DEF Call
      <4> QED
        BY <1>1, <2>1, <4>1 DEF CallOK, ControlOK
    <3>4. node[c.files[c.at]].owner = p
      BY <1>1, <3>3 DEF CallOK, PinnedOK
    <3> HIDE DEF d, n
    <3>5. ASSUME NEW l \in links, l.ino = i PROVE l \in links'
      <4>1. ~(l.dir = d /\ l.name = n)
        BY <1>1, <3>2, <3>4, <3>5 DEF TreeOK
      <4> QED
        BY <2>2, <4>1 DEF Remove
    <3> QED
      BY <2>1, <3>5 DEF Linked
  <2> QED
    BY <2>1, <2>2 DEF Linked
<1>6. CASE \E d, n : RemoveDirectory(p, d, n)
  <2>1. PICK d, n : RemoveDirectory(p, d, n)
    BY <1>6
  <2>2. node' = node /\ (links' = links \/ (IsDir(Entry(d, n)) /\ Remove(p, d, n)))
    BY <2>1 DEF RemoveDirectory, Remove, tree
  <2>3. CASE IsDir(Entry(d, n)) /\ Remove(p, d, n)
    <3>1. ASSUME NEW l \in links, l.ino = i PROVE l \in links'
      <4>1. ~(l.dir = d /\ l.name = n)
        BY <1>1, <2>3, <3>1, EntryFacts DEF IsDir
      <4> QED
        BY <2>3, <4>1 DEF Remove
    <3> QED
      BY <2>2, <3>1 DEF Linked
  <2> QED
    BY <2>2, <2>3 DEF Linked
<1> QED
  BY <1>2, <1>3, <1>4, <1>5, <1>6, StepOnTree

(* init-demo writes over nothing and removes no file it did not make: an   *)
(* undisturbed comparison pins the entry that the removal then takes, and  *)
(* a directory is removed only when it is empty.                           *)
THEOREM ForeignFilesAreKept == Spec => NothingForeignHarmed
<1>1. BundleInv /\ [Next]_vars =>
          [\A p \in Procs : me'[p] # me[p] =>
              \A i \in 1..Len(node) : node[i].kind # "dir" /\ node[i].owner # p =>
                  /\ node'[i].holds = node[i].holds
                  /\ Linked(i) => Linked(i)' \/ p \notin calm]_vars
  <2> SUFFICES ASSUME BundleInv, Next, NEW p \in Procs, me'[p] # me[p], NEW i \in 1..Len(node),
                      node[i].kind # "dir", node[i].owner # p
               PROVE  /\ node'[i].holds = node[i].holds
                      /\ Linked(i) => Linked(i)' \/ p \notin calm
    OBVIOUS
  <2>1. CASE MoveAway \/ MoveParent \/ Plant \/ Tamper
    BY <2>1 DEF MoveAway, MoveParent, Plant, Tamper, Others
  <2>2. ASSUME NEW q \in Procs, Step(q) PROVE q = p
    BY <2>2, OneCall DEF BundleInv
  <2>3. CASE Step(p)
    BY <2>3, ForeignKept
  <2> QED
    BY <2>1, <2>2, <2>3 DEF Next
<1> QED
  BY <1>1, BundleInvariant, PTL DEF Spec, NothingForeignHarmed
================================================================================
