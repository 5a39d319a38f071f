--------------------------- MODULE Ext2Namespace ----------------------------
(***************************************************************************)
(* The tree of directories that the commands cd, mkdir, rmdir, rm and cp of*)
(* fs/vfs.c work on: the entries of directories, the link counts of inodes *)
(* and the inode bitmap, with the handles in which copies of inodes are    *)
(* kept and written back.                                                  *)
(*                                                                         *)
(* It composes what Ext2Dir and Ext2InodeAlloc show in detail: here a      *)
(* directory is a set of entries, an entry comes and goes in one write, and*)
(* a directory that such a write would damage is torn and not walked again.*)
(* A step is one write to the device.  Paths have one or two components    *)
(* from the working directory; the last is no dot name, and a regular file *)
(* is not taken for a directory.  A free inode is: nothing looks whether   *)
(* the working directory, or a name that a crash has left, is still in use.*)
(* The data of files and the source of cp, a regular file, are not shown;  *)
(* there is one block group.                                               *)
(***************************************************************************)
EXTENDS Integers, Sequences, FiniteSets, FiniteSetsExt

CONSTANTS
  NumInodes, Root,        \* inodes 1 .. NumInodes, the root directory
  Names, Dot, DotDot,     \* ordinary names, and the two of every directory
  NoName,                 \* the name of an entry whose name was not written
  U16,                    \* the number of uint16_t values
  MaxMishaps              \* bound on the numbers of crashes and of names astray, together

Inodes == 1 .. NumInodes
Dots   == {Dot, DotDot}

ASSUME NamespaceAssumption ==
  /\ NumInodes \in Nat /\ Root \in Inodes /\ U16 \in Nat \ 0 .. 2
  /\ MaxMishaps \in Nat
  /\ Dot # DotDot /\ Names \cap (Dots \cup {NoName}) = {} /\ NoName \notin Dots

VARIABLES
  marked,   \* disk: the inodes marked in the inode bitmap
  kind,     \* disk: i_mode: "none" (a zeroed inode), "dir" or "file"
  links,    \* disk: i_links_count
  ents,     \* disk: the entries of directories
  pwd,      \* memory: the inode number of file_pwd
  hdl,      \* memory: the handles of a command, with their copy of the link count
  copy,     \* memory: the rest of the inodes in the handles of mkdir and cp
  pc, op,   \* the write to come, and the locals of the command
  torn,     \* ghost: directories whose entries cannot be walked any more
  leaked,   \* ghost: inodes a command has lost hold of
  spilt,    \* ghost: number of entries that went with the directory they were in
  dropped,  \* ghost: directories that have lost their name and live on
  astray,   \* ghost: number of names mkdir and cp were to write into a free inode, and
            \* of names left to an inode some of whose blocks are free
  crashes   \* ghost: crashes so far

disk  == <<marked, kind, links, ents>>
ghost == <<torn, leaked, spilt, dropped>>
vars  == <<disk, pwd, hdl, copy, pc, op, ghost, astray, crashes>>

Entry(n, i)  == [name |-> n, ino |-> i]
NoEntry      == Entry(NoName, 0)
NoOp         == [cmd |-> "none", todo |-> <<>>, e |-> NoEntry, late |-> FALSE, first |-> NoEntry]
NoHandle     == [ino |-> 0, links |-> 0]
NoHandles    == [parent |-> NoHandle, child |-> NoHandle]
NewDir       == [kind |-> "dir", ents |-> {}]
NewFile      == [kind |-> "file", ents |-> {}]
Zeroed       == [kind |-> "none", ents |-> {}]
NoCopies     == [parent |-> Zeroed, child |-> Zeroed]

(* read_inode_ext2, and what else the inode holds: its mode, and the entries*)
(* that its block numbers lead to.                                          *)
Read(i) == [ino |-> i, links |-> links[i]]
View(i) == [kind |-> kind[i], ents |-> ents[i]]

(* write_inode_ext2 writes the whole inode as its handle has it.            *)
Put(i, c, n) ==
  /\ kind'  = [kind EXCEPT ![i] = c.kind]
  /\ ents'  = [ents EXCEPT ![i] = c.ents]
  /\ links' = [links EXCEPT ![i] = n]

(* Parts of a command: give the inode of one handle a name in the directory *)
(* of another, take a name out of a directory, read a handle again.         *)
Link(at, n, to) == [do |-> "link", at |-> at, name |-> n, to |-> to]
Unlink(at, n)   == [do |-> "unlink", at |-> at, name |-> n, to |-> at]
Reread(at)      == [do |-> "reread", at |-> at, name |-> NoName, to |-> at]

Dirs == {i \in Inodes : kind[i] = "dir"}

(* The entries that name an inode. *)
Naming(i) == {de \in UNION {{d} \X ents[d] : d \in Dirs} : de[2].ino = i}

(* A volume with an empty root directory. *)
Init ==
  /\ marked = {Root}
  /\ kind = [i \in Inodes |-> IF i = Root THEN "dir" ELSE "none"]
  /\ links = [i \in Inodes |-> IF i = Root THEN 2 ELSE 0]
  /\ ents = [i \in Inodes |-> IF i = Root THEN {Entry(n, Root) : n \in Dots} ELSE {}]
  /\ pwd = Root /\ hdl = NoHandles /\ copy = NoCopies /\ pc = "rest" /\ op = NoOp
  /\ torn = {} /\ leaked = {} /\ dropped = {} /\ spilt = 0 /\ astray = 0 /\ crashes = 0

-----------------------------------------------------------------------------
(* parse_path_ext2 for all but the last component: the working directory or *)
(* what one of its entries names, unless it is a regular file.              *)
Parents ==
  {p \in {pwd} \cup {e.ino : e \in ents[pwd]} : pwd \notin torn /\ p \notin torn /\ kind[p] # "file"}

(* main reads file_pwd again by its number, whatever has become of it; the  *)
(* data of a regular file are not taken for entries.                        *)
AtRest == pc = "rest" /\ kind[pwd] # "file"

Begin(cmd, todo, handles, first) ==
  /\ AtRest
  /\ hdl' = handles
  /\ op' = [NoOp EXCEPT !.cmd = cmd, !.todo = todo, !.first = first]
  /\ UNCHANGED <<disk, pwd, ghost, crashes>>

(* A name is to be written into p, which may be free.                       *)
Enter(p) ==
  /\ copy' = [NoCopies EXCEPT !.parent = View(p)]
  /\ astray' = IF p \in Dirs THEN astray ELSE astray + 1
  /\ astray' + crashes <= MaxMishaps

Elsewhere == UNCHANGED <<copy, astray>>

Cd ==
  /\ AtRest /\ \E p \in Parents : pwd' = p
  /\ UNCHANGED <<disk, hdl, pc, op, ghost, crashes>> /\ Elsewhere

(* create_directory_ext2; no name is refused for being there. *)
MkdirTodo(n) ==
  <<Link("parent", n, "child"), Link("child", Dot, "child"), Link("child", DotDot, "parent")>>

Mkdir(p, n) ==
  /\ p \in Parents /\ pc' = "mark" /\ Enter(p)
  /\ Begin("mkdir", MkdirTodo(n), [NoHandles EXCEPT !.parent = Read(p)], NoEntry)

(* The path before the last component is not found: execute_mkdir goes on   *)
(* with an empty handle, and dies after the inode has been allocated.       *)
MkdirNowhere == pc' = "mark" /\ Begin("mkdir", <<>>, NoHandles, NoEntry) /\ Elsewhere

(* execute_cp creates a file in the working directory. *)
Cp(n) ==
  /\ pwd \notin torn /\ pc' = "mark" /\ Enter(pwd)
  /\ Begin("cp", <<Link("parent", n, "child")>>, [NoHandles EXCEPT !.parent = Read(pwd)],
           NoEntry)

(* execute_rm takes directories as well as files. *)
Rm(p, n) ==
  /\ p \in Parents /\ pc' = "next" /\ Elsewhere
  /\ Begin("rm", <<Unlink("parent", n)>>, [NoHandles EXCEPT !.parent = Read(p)], NoEntry)

(* Deviation: the handle of the parent is not read again.                   *)
M_RmdirTodo(n) ==
  <<Unlink("child", DotDot), Unlink("child", Dot), Unlink("parent", n)>>

RmdirTodo(n) ==
  <<Unlink("child", DotDot), Unlink("child", Dot), Reread("parent"), Unlink("parent", n)>>

(* Deviation: an entry besides the dots does no harm.                       *)
M_Removable(c) == Cardinality(ents[c]) \in 2 .. 3

(* delete_directory_ext2 looks at the offset of the last entry only         *)
(* (RmdirExact of Ext2Dir): it takes a directory with two entries, which a  *)
(* crash may have kept from being "." and "..".                             *)
Removable(c) == Cardinality(ents[c]) = 2

Rmdir(p, n) ==
  /\ p \in Parents /\ pc' = "next" /\ Elsewhere
  /\ \E e \in ents[p] :
        /\ e.name = n /\ e.ino \notin torn /\ kind[e.ino] # "file" /\ Removable(e.ino)
        /\ Begin("rmdir", RmdirTodo(n), [parent |-> Read(p), child |-> Read(e.ino)], e)

(* A path that is not found kills every command but cp and cat; so does the *)
(* user of one that hangs in a torn directory.  "quit" ends the program too.*)
Restart ==
  /\ pc = "rest" /\ pwd # Root
  /\ pwd' = Root
  /\ UNCHANGED <<disk, hdl, pc, op, ghost, crashes>> /\ Elsewhere

-----------------------------------------------------------------------------
(* Deviation: the bitmap is not written back.                               *)
M_Mark ==
  /\ pc = "mark"
  /\ \E n \in Inodes \ marked :
        /\ \A m \in Inodes \ marked : n <= m
        /\ hdl' = [hdl EXCEPT !.child = [ino |-> n, links |-> 0]]
  /\ pc' = "inode"
  /\ UNCHANGED <<disk, pwd, op, ghost, crashes>> /\ Elsewhere

(* allocate_new_inode: the first clear bit is set ...                       *)
Mark ==
  /\ pc = "mark"
  /\ \E n \in Inodes \ marked :
        /\ \A m \in Inodes \ marked : n <= m
        /\ marked' = marked \cup {n}
        /\ hdl' = [hdl EXCEPT !.child = [ino |-> n, links |-> 0]]
  /\ pc' = "inode"
  /\ UNCHANGED <<kind, links, ents, pwd, op, ghost, crashes>> /\ Elsewhere

(* ... or there is none: mkdir returns, and cp goes on without an inode and *)
(* dies if there is something to copy.                                      *)
MarkFails ==
  /\ pc = "mark" /\ marked = Inodes
  /\ pwd' \in (IF op.cmd = "cp" THEN {pwd, Root} ELSE IF op.todo = <<>> THEN {Root} ELSE {pwd})
  /\ pc' = "rest" /\ op' = NoOp /\ hdl' = NoHandles /\ copy' = NoCopies
  /\ UNCHANGED <<disk, ghost, astray, crashes>>

(* ... and the inode is written, with no links yet.                         *)
NewInode ==
  /\ pc = "inode"
  /\ LET n == hdl.child.ino
         c == IF op.cmd = "cp" THEN NewFile ELSE NewDir
     IN  /\ Put(n, c, 0)
         /\ copy' = [copy EXCEPT !.child = c]
         /\ torn' = torn \ {n} /\ dropped' = dropped \ {n}
         /\ leaked' = IF op.todo = <<>> THEN leaked \cup {n} ELSE leaked \ {n}
  /\ pc' = "next"
  /\ UNCHANGED <<marked, pwd, hdl, op, spilt, astray, crashes>>

Task == Head(op.todo)
At   == hdl[Task.at]

(* What the parts of a command do, one after the other.                     *)
Doing(p, part) == pc = p /\ op.todo # <<>> /\ Task.do = part

Proceed == pc' = "next" /\ op' = [op EXCEPT !.todo = Tail(@), !.e = NoEntry, !.late = FALSE]

Done ==
  /\ pc = "next" /\ op.todo = <<>>
  /\ pwd' = IF hdl.parent = NoHandle THEN Root ELSE pwd
  /\ pc' = "rest" /\ op' = NoOp /\ hdl' = NoHandles /\ copy' = NoCopies
  /\ UNCHANGED <<disk, ghost, astray, crashes>>

(* create_dir_entry_ext2 writes the entry, and with it the inode of the     *)
(* directory as its handle has it.                                          *)
Entered == [copy[Task.at] EXCEPT !.ents = @ \cup {Entry(Task.name, hdl[Task.to].ino)}]

WriteEntry ==
  /\ Doing("next", "link")
  /\ Put(At.ino, Entered, At.links)
  /\ copy' = [copy EXCEPT ![Task.at] = Entered]
  /\ pc' = "count"
  /\ UNCHANGED <<marked, pwd, hdl, op, ghost, astray, crashes>>

Inc16(n) == (n + 1) % U16

(* Then the link is counted, in the handle of the inode that got the name.  *)
CountLink ==
  /\ Doing("count", "link")
  /\ LET to == hdl[Task.to]
     IN  /\ hdl' = [hdl EXCEPT ![Task.to].links = Inc16(@)]
         /\ Put(to.ino, copy[Task.to], Inc16(to.links))
  /\ Proceed
  /\ UNCHANGED <<marked, pwd, copy, ghost, astray, crashes>>

ReadAgain ==
  /\ Doing("next", "reread")
  /\ hdl' = [hdl EXCEPT ![Task.at] = Read(At.ino)]
  /\ Proceed
  /\ UNCHANGED <<disk, pwd, ghost, crashes>> /\ Elsewhere

(* unlink_file_ext2: no such name. *)
NoSuchName ==
  /\ Doing("next", "unlink") /\ At.ino \notin torn
  /\ \A e \in ents[At.ino] : e.name # Task.name
  /\ Proceed
  /\ UNCHANGED <<disk, pwd, hdl, ghost, crashes>> /\ Elsewhere

(* The entry before takes over the room of this one; the first entry of a   *)
(* block, "." among them, stays until the end ("late").  Which of several   *)
(* entries of a name comes first is left open, but it is the one that rmdir *)
(* has found before.                                                        *)
Hide ==
  /\ Doing("next", "unlink") /\ At.ino \notin torn
  /\ \E e \in ents[At.ino], late \in BOOLEAN :
        /\ e.name = Task.name
        /\ op.cmd = "rmdir" /\ Task.at = "parent" => e = op.first
        /\ Task.name = Dot => late
        /\ Task.name = DotDot => ~late
        /\ op' = [op EXCEPT !.e = e, !.late = late]
        /\ ents' = IF late THEN ents ELSE [ents EXCEPT ![At.ino] = @ \ {e}]
  /\ links' = [links EXCEPT ![At.ino] = At.links]
  /\ pc' = "drop"
  /\ UNCHANGED <<marked, kind, pwd, hdl, ghost, crashes>> /\ Elsewhere

(* Deviation: the count does not wrap.                                      *)
M_LinksLeft(i) == links[i] - 1

LinksLeft(i) == (links[i] + U16 - 1) % U16

(* The inode of the name loses a link; if it was the last one its blocks    *)
(* are freed and the inode is zeroed.                                       *)
DropLink ==
  /\ Doing("drop", "unlink")
  /\ LET i == op.e.ino
     IN  /\ links' = [links EXCEPT ![i] = LinksLeft(i)]
         /\ IF LinksLeft(i) = 0
            THEN /\ kind' = [kind EXCEPT ![i] = "none"]
                 /\ ents' = [ents EXCEPT ![i] = {}]
                 /\ spilt' = spilt + Cardinality(ents[i]) /\ torn' = torn \ {i}
                 /\ pc' = "clear"
                 /\ UNCHANGED dropped
            ELSE /\ pc' = "wipe"
                 /\ dropped' = IF Task.name \in Names /\ kind[i] = "dir"
                               THEN dropped \cup {i} ELSE dropped
                 /\ UNCHANGED <<kind, ents, spilt, torn>>
  /\ UNCHANGED <<marked, pwd, hdl, op, leaked, crashes>> /\ Elsewhere

(* deallocate_inode with its ASSERT(test_bit(...)). *)
ClearBit ==
  /\ Doing("clear", "unlink")
  /\ IF op.e.ino \in marked
     THEN marked' = marked \ {op.e.ino} /\ pc' = "wipe"
     ELSE pc' = "halted" /\ UNCHANGED marked
  /\ UNCHANGED <<kind, links, ents, pwd, hdl, op, ghost, crashes>> /\ Elsewhere

(* Deviation: the handle of the directory is not read again.                *)
M_ReadBack == At

ReadBack == Read(At.ino)

(* Without its first entry a directory cannot be walked: "." if it has one, *)
(* any that is wiped late if mkdir was killed before it wrote ".".  Nor can *)
(* one whose last link this was: it is zeroed, and then written to.         *)
TornBy(d) ==
  IF Task.name = Dot \/ (op.e.ino = d /\ links[d] = 0) THEN {{d}}
  ELSE IF op.late /\ \A e \in ents[d] : e.name # Dot THEN {{}, {d}}
  ELSE {{}}

(* The handle of the directory is read again, and the entry wiped.          *)
WipeEntry ==
  /\ Doing("wipe", "unlink")
  /\ hdl' = [hdl EXCEPT ![Task.at] = ReadBack]
  /\ links' = [links EXCEPT ![At.ino] = ReadBack.links]
  /\ ents' = [ents EXCEPT ![At.ino] = @ \ {op.e}]
  /\ \E d \in TornBy(At.ino) : torn' = torn \cup d
  /\ Proceed
  /\ UNCHANGED <<marked, kind, pwd, leaked, spilt, dropped, crashes>> /\ Elsewhere

-----------------------------------------------------------------------------
(* An ASSERT has failed, or a torn directory is walked for ever: the program*)
(* does nothing more until it is killed.  Or the volume is followed no      *)
(* further.                                                                 *)
Stopped ==
  /\ \/ pc \in {"halted", "lost"}
     \/ Doing("next", "unlink") /\ At.ino \in torn
  /\ UNCHANGED vars

(* Killed and started again in the root directory.  While an entry is being *)
(* written the directory may be torn, with or without a nameless entry.     *)
Crash ==
  /\ pc \notin {"rest", "lost"} /\ astray + crashes < MaxMishaps
  /\ crashes' = crashes + 1
  /\ \/ UNCHANGED <<kind, links, ents, torn>>
     \/ /\ Doing("next", "link")
        /\ torn' = torn \cup {At.ino}
        /\ \/ Put(At.ino, copy[Task.at], At.links)
           \/ Put(At.ino, [copy[Task.at] EXCEPT !.ents = @ \cup {Entry(NoName, hdl[Task.to].ino)}],
                  At.links)
  /\ pwd' = Root /\ hdl' = NoHandles /\ copy' = NoCopies /\ pc' = "rest" /\ op' = NoOp
  /\ UNCHANGED <<marked, leaked, spilt, dropped, astray>>

(* Killed while the blocks of an inode are freed, of which a name is left:  *)
(* the one that is wiped late, or one that a crash has left uncounted.  The *)
(* blocks may be handed out again, as Ext2BlockAlloc shows, and two         *)
(* directories then have the same entries.                                  *)
CrashFreeing ==
  /\ Doing("drop", "unlink") /\ LinksLeft(op.e.ino) = 0 /\ Naming(op.e.ino) # {}
  /\ astray + crashes < MaxMishaps
  /\ astray' = astray + 1
  /\ pwd' = Root /\ hdl' = NoHandles /\ copy' = NoCopies /\ pc' = "lost" /\ op' = NoOp
  /\ UNCHANGED <<disk, ghost, crashes>>

Next == \/ Cd \/ MkdirNowhere \/ Restart
        \/ \E p \in Inodes, n \in Names : Mkdir(p, n) \/ Rm(p, n) \/ Rmdir(p, n)
        \/ \E n \in Names : Cp(n)
        \/ Mark \/ MarkFails \/ NewInode \/ Done \/ WriteEntry \/ CountLink
        \/ ReadAgain \/ NoSuchName \/ Hide \/ DropLink \/ ClearBit \/ WipeEntry
        \/ Stopped \/ Crash \/ CrashFreeing

Spec == Init /\ [][Next]_vars

-----------------------------------------------------------------------------
TypeOK ==
  /\ marked \subseteq Inodes
  /\ kind \in [Inodes -> {"none", "dir", "file"}]
  /\ links \in [Inodes -> 0 .. U16 - 1]
  /\ \A i \in Inodes : \A e \in ents[i] : /\ e.name \in Names \cup Dots \cup {NoName}
                                          /\ e.ino \in Inodes
  /\ pwd \in Inodes
  /\ \A h \in {"parent", "child"} : /\ hdl[h].ino \in Inodes \cup {0}
                                    /\ hdl[h].links \in 0 .. U16 - 1
  /\ pc \in {"rest", "mark", "inode", "next", "count", "drop", "clear", "wipe", "halted",
             "lost"}
  /\ torn \subseteq Inodes /\ leaked \subseteq Inodes /\ dropped \subseteq Inodes /\ spilt \in Nat
  /\ astray \in Nat /\ crashes \in Nat /\ astray + crashes <= MaxMishaps

Refs(i) == Cardinality(Naming(i))

(* A link count is the number of entries that name the inode, at rest, and a*)
(* name never stands for a free inode, until the first crash or the first   *)
(* name that was to be written into a free inode.                           *)
LinksSound ==
  pc = "rest" /\ astray = 0 /\ crashes = 0 =>
    \A i \in Inodes : links[i] = Refs(i) /\ (Refs(i) > 0 => i \in marked)

(* A crash makes one link count differ by one from the number of names, in  *)
(* whatever order the writes were done that it came between; the working    *)
(* directory, and what else commands have found, may be a free inode, as    *)
(* long as no name is to be written into it; a name may be left to an inode *)
(* that a removal was at work on, as long as none of its blocks was freed.  *)
Off(a, b) == Min({(a - b) % U16, (b - a) % U16})

LinkDrift ==
  pc = "rest" /\ astray = 0 =>
    Cardinality(UNION {{i} \X (1 .. Off(links[i], Refs(i))) : i \in Inodes}) <= crashes + spilt

(* Until then the directories are a tree: every inode in use but those      *)
(* whose allocation led nowhere has one name besides the dots, or none if   *)
(* it is a directory that rm has taken the name from, and ".." leads back   *)
(* to where that name is.                                                   *)
TreeShape ==
  pc = "rest" /\ astray = 0 /\ crashes = 0 =>
    \A i \in marked \ ({Root} \cup leaked) :
       LET named == {de \in Naming(i) : de[2].name \notin Dots}
       IN  /\ Cardinality(named) = IF i \in dropped THEN 0 ELSE 1
           /\ \A de \in named : i \in Dirs => Entry(DotDot, de[1]) \in ents[i]

(* The ASSERT of deallocate_inode fails only after a crash, or after a name *)
(* was to be written into a free inode.                                     *)
HaltsExplained == pc = "halted" => astray > 0 \/ crashes > 0

(* What that ASSERT says: an inode whose last link is gone is marked.       *)
LastLinkMarked == pc # "halted"
=============================================================================
