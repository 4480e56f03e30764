----------------------------- MODULE OutputParent -----------------------------
(***************************************************************************)
(* The directory that the run command (bench/run.py) and the package       *)
(* command (bench/engine/platform_package_v0_2.py) publish into.  Both     *)
(* open it once, keep the descriptor, create an entry under a random name  *)
(* of their own, and move it to the public name with one rename.  A        *)
(* command creates one inode, which bears the command's name.              *)
(***************************************************************************)
EXTENDS Integers, FiniteSets, Sequences, SequencesExt

CONSTANTS
  Writers,     \* run or manifest commands: _safe_write_text
  Publishers,  \* package commands: write_v0_2_package
  Together,    \* bound: the sets of commands that run at the same time
  Dirs, Home,  \* directories; the one a command creates
  NoDir,       \* the path leads nowhere
  NoEntry,     \* no such name
  Old,         \* the inode of an earlier output
  Foreign,     \* an inode of somebody else
  MaxForeign   \* bound: what somebody else does to the directory

Commands == Writers \cup Publishers
Inodes == Commands \cup {Old, Foreign}

ASSUME ParentAssumption ==
  /\ Home \in Dirs /\ NoDir \notin Dirs
  /\ NoEntry \notin Inodes /\ Old # Foreign /\ {Old, Foreign} \cap Commands = {}
  /\ Writers \cap Publishers = {} /\ Together \subseteq SUBSET Commands

VARIABLES
  at,        \* the directory the path leads to
  atImage,   \* those it may lead to after a machine crash
  output,    \* per directory, the inode named by --out
  package,   \* per directory, the inode named by --out-dir
  image,     \* per directory, what each name may be after a machine crash
  private,   \* per command, what its random name stands for
  inode,     \* per inode: kind, mode, data, synced, and changes to it
  fd,        \* per command, the directory it holds open
  pc,        \* per command, its next step
  foreign,   \* what somebody else did so far
  maker,     \* history: who made the directory and has not synced the holder
  late       \* history: commands whose random name was given to something
             \* else after they looked at it for the last time

historyVars == <<maker, late>>
parentVars == <<at, atImage, output, package, image, private, inode, fd, pc, foreign,
                historyVars>>

NewInode(mode) == [kind |-> "file", mode |-> mode, data |-> "none", synced |-> FALSE,
                   changes |-> 0]

ParentInit ==
  /\ at \in {Home, NoDir}
  /\ atImage = {at}
  /\ \E first \in {NoEntry, Old} :
       /\ at = NoDir => first = NoEntry
       /\ output = [d \in Dirs |-> IF d = Home THEN first ELSE NoEntry]
  /\ package = [d \in Dirs |-> NoEntry]
  /\ image = [d \in Dirs |-> [output |-> {output[d]}, package |-> {package[d]}]]
  /\ private = [c \in Commands |-> NoEntry]
  /\ inode = [i \in Inodes |-> IF i \in {Old, Foreign}
                THEN [NewInode("shared") EXCEPT !.data = "whole", !.synced = TRUE]
                ELSE NewInode("private")]
  /\ fd = [c \in Commands |-> NoDir]
  /\ \E live \in Together :
       pc = [c \in Commands |-> IF c \in live THEN "start" ELSE "absent"]
  /\ foreign = 0
  /\ maker = NoEntry /\ late = {}

Running(c) == pc[c] \notin {"absent", "start", "returned", "raised", "uncleaned", "dead"}
Go(c, step) == pc' = [pc EXCEPT ![c] = step]

(* _open_output_parent and _open_parent_descriptor: every component opened *)
(* by descriptor and compared with what was seen before; _revalidate_...   *)
(* goes the same way again.                                                *)
StillThere(c) == at = fd[c]

-----------------------------------------------------------------------------
(* Somebody else, with the right to write there.  Processes of the same    *)
(* user that touch a published package are a declared trust boundary.      *)

Touch ==
  /\ foreign < MaxForeign /\ \E c \in Commands : Running(c)
  /\ foreign' = foreign + 1

(* The path leads to another directory.                                    *)
SwapParent ==
  /\ Touch /\ at # NoDir
  /\ \E d \in Dirs \ {at} : at' = d /\ atImage' = {d}
  /\ maker' = NoEntry
  /\ UNCHANGED <<output, package, image, private, inode, fd, pc, late>>

(* An output is edited in place, created, or replaced by a symbolic link.  *)
SetOutput(i, kind) ==
  /\ output' = [output EXCEPT ![at] = i]
  /\ image' = [image EXCEPT ![at].output = @ \cup {i}]
  /\ inode' = [inode EXCEPT ![i] = [inode[i] EXCEPT !.changes = @ + 1, !.kind = kind]]

TouchOutput ==
  /\ Touch /\ at # NoDir
  /\ \/ output[at] \in Inodes /\ SetOutput(output[at], inode[output[at]].kind)
     \/ output[at] \notin {Foreign} /\ \E kind \in {"file", "link"} : SetOutput(Foreign, kind)
  /\ UNCHANGED <<at, atImage, package, private, fd, pc, historyVars>>

(* The package name is taken.                                              *)
TakePackage ==
  /\ Touch /\ at # NoDir /\ package[at] = NoEntry
  /\ package' = [package EXCEPT ![at] = Foreign]
  /\ image' = [image EXCEPT ![at].package = @ \cup {Foreign}]
  /\ UNCHANGED <<at, atImage, output, private, inode, fd, pc, historyVars>>

(* A random name, once it can be seen, is given to something else.         *)
SwapPrivate(c) ==
  /\ Touch /\ private[c] = c
  /\ private' = [private EXCEPT ![c] = Foreign]
  /\ late' = IF pc[c] \in {"unlink", "rmdir"} THEN late \cup {c} ELSE late
  /\ UNCHANGED <<at, atImage, output, package, image, inode, fd, pc, maker>>

(* The process is killed, or the whole machine.                            *)
Kill(c) ==
  /\ Running(c) /\ Go(c, "dead")
  /\ UNCHANGED <<at, atImage, output, package, image, private, inode, fd, foreign, historyVars>>

MachineCrash ==
  /\ \E c \in Commands : Running(c) \/ pc[c] = "returned"
  /\ at' \in atImage /\ atImage' = {at'}
  /\ output' \in {o \in [Dirs -> Inodes \cup {NoEntry}] : \A d \in Dirs : o[d] \in image[d].output}
  /\ package' \in {o \in [Dirs -> Inodes \cup {NoEntry}] : \A d \in Dirs : o[d] \in image[d].package}
  /\ image' = [d \in Dirs |-> [output |-> {output'[d]}, package |-> {package'[d]}]]
  /\ inode' = [i \in Inodes |-> IF inode[i].synced THEN inode[i]
                                ELSE [inode[i] EXCEPT !.data = "partial"]]
  /\ pc' = [c \in Commands |-> IF pc[c] = "absent" THEN "absent" ELSE "dead"]
  /\ maker' = NoEntry
  /\ UNCHANGED <<private, fd, foreign, late>>

Somebody ==
  \/ SwapParent \/ TouchOutput \/ TakePackage \/ MachineCrash
  \/ \E c \in Commands : SwapPrivate(c) \/ Kill(c)
=============================================================================
