------------------------------ MODULE Ext2Dir -------------------------------
(***************************************************************************)
(* One directory of fs/ext2.c: its entries on the device, the walks of     *)
(* lookup_name_in_dir_ext2, lookup_last_in_dir_ext2 and                    *)
(* create_dir_entry_ext2 over them, and the writes by which names are added*)
(* and removed, from create_directory_ext2 to delete_directory_ext2.       *)
(*                                                                         *)
(* The device is shown in units of four bytes: an entry is a header of two *)
(* units, inode and lengths, and a name of at least one.  A step is one    *)
(* write to the device, or one entry that a walk visits; the process may be*)
(* killed between two.  Access times, the inodes that the names stand for, *)
(* their link counts and the blocks of the directory (Ext2File) are not    *)
(* shown.  Names of equal need are taken to be equally long.               *)
(***************************************************************************)
EXTENDS Integers, Sequences

CONSTANTS
  Names, NoName,   \* the names that occur; what no name compares equal to
  NewNames,        \* names that commands give to new entries
  Need,            \* the units of an entry for a name: header and padded name
  Dot, DotDot,     \* "." and ".."
  Self, Parent,    \* the inodes these two stand for
  Inodes,          \* inodes that get further names
  BlockLen,        \* units in a block
  MaxBlocks,       \* bound on the blocks of the directory
  MaxCrashes       \* bound on the number of crashes

Header == 2
Limit  == MaxBlocks * BlockLen
Units  == 0 .. Limit - 1

ASSUME DirAssumption ==
  /\ NewNames \subseteq Names /\ Dot \in Names /\ DotDot \in Names /\ Dot # DotDot /\ NoName \notin Names
  /\ BlockLen \in Nat /\ MaxBlocks \in Nat \ {0} /\ MaxCrashes \in Nat
  /\ Need \in [Names -> Header + 1 .. BlockLen]
  /\ Need[Dot] = Header + 1 /\ Need[DotDot] = Header + 1
  /\ {Self, Parent} \cup Inodes \subseteq Nat \ {0}
  /\ 2 * (Header + 1) <= BlockLen            \* a block has room for both dots
  /\ {Self, Parent} \cap Inodes = {}         \* names are made for new inodes alone

VARIABLES
  mem,      \* disk: the units of the directory's blocks
  size,     \* disk: i_size
  pc,       \* what the program is about to do
  op,       \* the operation in progress
  walk,     \* the locals of its walk over the entries
  plan,     \* operations to follow within mkdir or rmdir
  live,     \* ghost: the offsets of the entries
  torn,     \* ghost: a crash or the loss of its first entry damaged the directory
  crashes   \* ghost: crashes so far

vars == <<mem, size, pc, op, walk, plan, live, torn, crashes>>

(* A unit holds zeros, an inode number, rec_len with name_len, the          *)
(* beginning of a name or more of it.                                       *)
Unit(k, a, b, n) == [k |-> k, a |-> a, b |-> b, name |-> n]
Zero       == Unit("zero", 0, Header, NoName)
InoUnit(i) == IF i = 0 THEN Zero ELSE Unit("ino", i, 0, NoName)
RecUnit(rec, need) == Unit("rec", rec, need, NoName)

Zeros(n) == [i \in 1 .. n |-> Zero]
HeaderOf(ino, rec, need) == <<InoUnit(ino), RecUnit(rec, need)>>

(* The name in a zeroed buffer of n units (writedir_ext2). *)
NameIn(name, n) ==
  [i \in 1 .. n |-> IF i = 1 THEN Unit("text", 0, 0, name)
                    ELSE IF i <= Need[name] - Header THEN Unit("more", 0, 0, name)
                    ELSE Zero]

NoOp   == [kind |-> "none", name |-> NoName, ino |-> 0, at |-> 0, rec |-> 0,
           how |-> "none", end |-> 0, next |-> "none", done |-> FALSE]
NoWalk == [at |-> 0, before |-> 0, next |-> 0, ino |-> 0, rec |-> 0, need |-> Header,
           buf |-> NoName]

Larger(a, b) == IF a >= b THEN a ELSE b
Align(n)     == ((n + BlockLen - 1) \div BlockLen) * BlockLen

Task(k, n, i) == [kind |-> k, name |-> n, ino |-> i]
Entry(n, i)   == [name |-> n, ino |-> i]

(* The entries but for one that is not complete, and whether "." and ".."   *)
(* are as mkdir made them.                                                  *)
Pending(o) == op.kind = "create" /\ ~op.done /\ op.how # "none" /\ o = op.at
Entries    == {Entry(mem[o + Header].name, mem[o].a) :
                 o \in {p \in live : mem[p].k = "ino" /\ ~Pending(p)}}
Dots       == {Entry(Dot, Self), Entry(DotDot, Parent)}

(* allocate_new_inode has made the inode of a new directory, the parent has *)
(* an entry for it, and create_directory_ext2 goes on with "." and "..".    *)
Init ==
  /\ mem = [u \in Units |-> Zero] /\ size = 0
  /\ pc = "rest" /\ op = NoOp /\ walk = NoWalk
  /\ plan = <<Task("create", Dot, Self), Task("create", DotDot, Parent)>>
  /\ live = {} /\ torn = FALSE /\ crashes = 0

-----------------------------------------------------------------------------
Start(t) ==
  /\ pc = "rest"
  /\ op' = [NoOp EXCEPT !.kind = t.kind, !.name = t.name, !.ino = t.ino]
  /\ walk' = NoWalk
  /\ pc' = "walk"
  /\ UNCHANGED <<mem, size, live, torn, crashes>>

(* cp and mkdir bring an inode that has no name here, and do not look       *)
(* whether the name is taken.                                               *)
Create(n, i) ==
  /\ plan = <<>> /\ i \in Inodes \ {e.ino : e \in Entries}
  /\ Start(Task("create", n, i)) /\ UNCHANGED plan

Unlink(n) == plan = <<>> /\ Start(Task("unlink", n, 0)) /\ UNCHANGED plan

(* delete_directory_ext2 looks for the last entry first. *)
Rmdir == plan = <<>> /\ Start(Task("last", NoName, 0)) /\ UNCHANGED plan

(* The next operation within create_directory_ext2 or                       *)
(* delete_directory_ext2, which look at the result of none.                 *)
Continue ==
  /\ plan # <<>> /\ Head(plan).kind # "gone"
  /\ Start(Head(plan)) /\ plan' = Tail(plan)

(* In the end the parent drops its entry, and the directory with it.        *)
Gone ==
  /\ pc = "rest" /\ plan # <<>> /\ Head(plan).kind = "gone"
  /\ pc' = "gone" /\ plan' = <<>>
  /\ UNCHANGED <<mem, size, op, walk, live, torn, crashes>>

-----------------------------------------------------------------------------
(* readdir_ext2: name_len bytes of the name.  A name of which the size cuts *)
(* everything off leaves the buffer as it was, which nobody has set before  *)
(* the first entry; name_len then cuts a longer one.                        *)
Cut(name, need) == IF name \in Names /\ Need[name] <= need THEN name ELSE NoName

NamesRead(o, need) ==
  IF o + Header < size
  THEN {IF mem[o + Header].k = "text" THEN Cut(mem[o + Header].name, need) ELSE NoName}
  ELSE IF o = 0 THEN {Cut(n, need) : n \in Names} \cup {NoName}
  ELSE {Cut(walk.buf, need)}

Visited(o, b) ==
  [at |-> o, before |-> walk.at, next |-> o + mem[o + 1].a,
   ino |-> mem[o].a, rec |-> mem[o + 1].a, need |-> mem[o + 1].b, buf |-> b]

(* Deviation: all of the entry is taken for free.                           *)
M_FreeSpace(v) == v.rec

FreeSpace(v) == IF v.ino = 0 THEN v.rec ELSE v.rec - v.need

(* A walk is over when its name, or room for its name, is found.            *)
Stops(v) == \/ op.kind = "unlink" /\ v.buf = op.name
            \/ op.kind = "create" /\ FreeSpace(v) >= Need[op.name]

(* One pass of a walk's loop.  Bytes that are no header end what the model  *)
(* follows.                                                                 *)
Visit ==
  /\ pc = "walk" /\ walk.next < size
  /\ LET o == walk.next
     IN  IF mem[o].k \in {"zero", "ino"} /\ mem[o + 1].k \in {"zero", "rec"}
         THEN \E b \in NamesRead(o, mem[o + 1].b) :
                 /\ walk' = Visited(o, b)
                 /\ pc' = IF Stops(walk') THEN "found" ELSE "walk"
         ELSE pc' = "garbled" /\ UNCHANGED walk
  /\ UNCHANGED <<mem, size, op, plan, live, torn, crashes>>

Return ==
  /\ pc' = "rest" /\ op' = NoOp /\ walk' = NoWalk
  /\ UNCHANGED <<mem, size, live, torn, crashes>>

Ended == pc = "walk" /\ walk.next >= size

(* unlink_file_ext2 returns -1: no such name. *)
NotFound == Ended /\ op.kind = "unlink" /\ Return /\ UNCHANGED plan

(* Deviation: a last entry in a later block will do.                        *)
M_Removable == walk.at % BlockLen \in {0, Header + 1}

(* offset_last == sizeof(dir_entry_ext2_t) + 4 *)
Removable == walk.at = Header + 1

(* The verdict of delete_directory_ext2. *)
RmdirChecks ==
  /\ Ended /\ op.kind = "last" /\ Return
  /\ plan' = IF Removable
             THEN <<Task("unlink", DotDot, 0), Task("unlink", Dot, 0), Task("gone", NoName, 0)>>
             ELSE <<>>

-----------------------------------------------------------------------------
(* write_file_ext2 within a block that exists: the block, then the inode    *)
(* with the size brought up to the end of the request.                      *)
Write(o, us, next, o2) ==
  /\ mem' = [u \in Units |-> IF u \in o .. o + Len(us) - 1 THEN us[u - o + 1] ELSE mem[u]]
  /\ op' = [o2 EXCEPT !.end = o + Len(us), !.next = next]
  /\ pc' = "size"
  /\ UNCHANGED <<size, walk, plan, crashes>>

SetSize ==
  /\ pc = "size"
  /\ size' = Larger(size, op.end)
  /\ pc' = op.next
  /\ op' = [op EXCEPT !.done = @ \/ op.next = "assert"]
  /\ UNCHANGED <<mem, walk, plan, live, torn, crashes>>

(* create_dir_entry_ext2 has found an entry whose inode is 0, with room. *)
TakeNull ==
  /\ pc = "found" /\ op.kind = "create" /\ walk.ino = 0
  /\ op' = [op EXCEPT !.at = walk.at, !.rec = walk.rec, !.how = "null"]
  /\ pc' = "header"
  /\ UNCHANGED <<mem, size, walk, plan, live, torn, crashes>>

(* Deviation: the new entry ends where it needs no more.                    *)
M_SplitRec == Need[op.name]

(* What the found entry leaves over. *)
SplitRec == walk.rec - walk.need

(* It has found an entry with room behind its name, whose rec_len is cut.   *)
Split ==
  /\ pc = "found" /\ op.kind = "create" /\ walk.ino # 0
  /\ Write(walk.at, HeaderOf(walk.ino, walk.need, walk.need), "header",
           [op EXCEPT !.at = walk.at + walk.need, !.rec = SplitRec, !.how = "split"])
  /\ UNCHANGED <<live, torn>>

(* Deviation: the rest of the block is not skipped.                         *)
M_NewStart == IF size = 0 THEN 0 ELSE walk.at + walk.need

(* No room: behind the last entry, or in the next block if the rest of the  *)
(* block is too small.                                                      *)
NewStart ==
  LET start == IF size = 0 THEN 0 ELSE walk.at + walk.need
      rest  == BlockLen - (start % BlockLen)
  IN  IF rest < Need[op.name] THEN start + rest ELSE start

(* The last entry is written again, up to the new one (not if the directory *)
(* is empty); the new one reaches to the end of a block.                    *)
AppendEntry ==
  /\ Ended /\ op.kind = "create" /\ NewStart + Need[op.name] <= Limit
  /\ LET o2 == [op EXCEPT !.at = NewStart, !.how = "append",
                          !.rec = Align(Larger(NewStart + Need[op.name], size)) - NewStart]
     IN  IF size = 0
         THEN /\ op' = o2 /\ pc' = "header"
              /\ UNCHANGED <<mem, size, walk, plan, crashes>>
         ELSE Write(walk.at, HeaderOf(walk.ino, NewStart - walk.at, walk.need), "header", o2)
  /\ UNCHANGED <<live, torn>>

(* The bound on the blocks is reached: the request is not made. *)
BeyondBound ==
  /\ Ended /\ op.kind = "create" /\ NewStart + Need[op.name] > Limit
  /\ Return /\ UNCHANGED plan

(* allocate_new_data_block: the block, zeroed, and an inode whose size ends *)
(* with the header that is still to come.                                   *)
Grow ==
  /\ pc = "header" /\ op.at >= Align(size)
  /\ size' = op.at + Header
  /\ UNCHANGED <<mem, pc, op, walk, plan, live, torn, crashes>>

WriteHeader ==
  /\ pc = "header" /\ op.at < Align(size)
  /\ Write(op.at, HeaderOf(op.ino, op.rec, Need[op.name]), "name", op)
  /\ live' = live \cup {op.at}
  /\ UNCHANGED torn

(* The name, padded to the end of the entry. *)
WriteName ==
  /\ pc = "name"
  /\ Write(op.at + Header, NameIn(op.name, op.rec - Header), "assert",
           [op EXCEPT !.done = op.at + Header < size])
  /\ UNCHANGED <<live, torn>>

(* ASSERT(i_size % ext2_blocksize == 0).  Then the link is counted. *)
Created ==
  /\ pc = "assert" /\ op.kind = "create"
  /\ IF size % BlockLen = 0
     THEN Return
     ELSE pc' = "halted" /\ UNCHANGED <<mem, size, op, walk, live, torn, crashes>>
  /\ UNCHANGED plan

-----------------------------------------------------------------------------
(* unlink_file_ext2.  The first entry of the directory is told by its       *)
(* offset, the first of a later block by where the two entries would end.   *)
IsFirst == walk.at = walk.before

RecBefore == mem[walk.before + 1].a + walk.rec

(* Deviation: block boundaries are not looked at.                           *)
M_CrossesBlock == FALSE

CrossesBlock == ~IsFirst /\ (walk.before % BlockLen) + RecBefore > BlockLen

(* The entry before takes over the room of the one that goes; across the    *)
(* start of a block it stays as it is.                                      *)
Lengthen ==
  /\ pc = "found" /\ op.kind = "unlink" /\ ~IsFirst
  /\ LET rec == IF CrossesBlock THEN BlockLen - (walk.before % BlockLen) ELSE RecBefore
     IN  Write(walk.before, HeaderOf(mem[walk.before].a, rec, mem[walk.before + 1].b),
               IF CrossesBlock THEN "null" ELSE "wipe", [op EXCEPT !.done = ~CrossesBlock])
  /\ live' = IF CrossesBlock THEN live ELSE live \ {walk.at}
  /\ UNCHANGED torn

(* The first entry of a later block becomes one without inode and name.     *)
NullHeader ==
  /\ pc = "null"
  /\ Write(walk.at, HeaderOf(0, walk.rec, Header), "nullname", [op EXCEPT !.done = TRUE])
  /\ UNCHANGED <<live, torn>>

NullName ==
  /\ pc = "nullname"
  /\ Write(walk.at + Header, Zeros(walk.rec - Header), "unlinked", op)
  /\ UNCHANGED <<live, torn>>

(* Deviation: the header alone is wiped, not the name.                      *)
M_Wiped == Header

Wiped == walk.rec

(* Every other is overwritten with zeros, the first of the directory too,   *)
(* which no entry before spans: its rec_len becomes 0.                      *)
Wipe ==
  /\ pc = "wipe" \/ (pc = "found" /\ op.kind = "unlink" /\ IsFirst)
  /\ Write(walk.at, Zeros(Wiped), "unlinked", [op EXCEPT !.done = TRUE])
  /\ live' = live \ {walk.at}
  /\ torn' = (torn \/ IsFirst)

Unlinked == pc = "unlinked" /\ Return /\ UNCHANGED plan

-----------------------------------------------------------------------------
(* Where a crash damages the directory: a chain of entries that breaks off, *)
(* or an entry without its name.                                            *)
InWindow ==
  /\ op.kind = "create" /\ ~op.done
  /\ \/ op.how = "split"
     \/ op.how = "append" /\ size > op.at
     \/ op.how = "null" /\ pc # "header"

(* Killed and started again, and the directory opened again. *)
Crash ==
  /\ (pc # "rest" \/ plan # <<>>) /\ pc # "gone" /\ crashes < MaxCrashes
  /\ crashes' = crashes + 1
  /\ torn' = (torn \/ InWindow)
  /\ pc' = "rest" /\ op' = NoOp /\ walk' = NoWalk /\ plan' = <<>>
  /\ UNCHANGED <<mem, size, live>>

Stopped == pc \in {"gone", "halted", "garbled"} /\ UNCHANGED vars

Step == \/ Continue \/ Gone \/ Visit \/ NotFound \/ RmdirChecks
        \/ SetSize \/ TakeNull \/ Split \/ AppendEntry \/ BeyondBound \/ Grow
        \/ WriteHeader \/ WriteName \/ Created
        \/ Lengthen \/ NullHeader \/ NullName \/ Wipe \/ Unlinked

Next == \/ \E n \in NewNames, i \in Inodes : Create(n, i)
        \/ \E n \in Names : Unlink(n)
        \/ Rmdir
        \/ Step \/ Crash \/ Stopped

Spec     == Init /\ [][Next]_vars
FairSpec == Spec /\ WF_vars(Step)

-----------------------------------------------------------------------------
TypeOK ==
  /\ \A u \in Units : /\ mem[u].k \in {"zero", "ino", "rec", "text", "more"}
                      /\ mem[u].k = "ino" => mem[u].a \in Inodes \cup {Self, Parent}
                      /\ mem[u].k = "rec" => mem[u].a \in 0 .. BlockLen
                      /\ mem[u].b \in 0 .. BlockLen
                      /\ mem[u].name \in Names \cup {NoName}
  /\ size \in 0 .. Limit
  /\ pc \in {"rest", "walk", "found", "size", "header", "name", "assert", "wipe", "null",
             "nullname", "unlinked", "gone", "halted", "garbled"}
  /\ op.kind \in {"none", "create", "unlink", "last"} /\ op.at \in Units
  /\ walk.at \in Units /\ walk.before \in Units /\ walk.next \in 0 .. Limit
  /\ Len(plan) <= 3 /\ live \subseteq Units /\ torn \in BOOLEAN
  /\ crashes \in 0 .. MaxCrashes

(* The entries of an intact directory fill its blocks without gap or        *)
(* overlap, none crosses the border of a block, each has room for its name  *)
(* and one that stands for an inode has a name: at every moment that a      *)
(* crash may choose, outside of the windows.                                *)
Tiled ==
  /\ size % BlockLen = 0 /\ (size > 0 => 0 \in live)
  /\ \A o \in live :
        LET rec == mem[o + 1].a
        IN  /\ mem[o].k \in {"zero", "ino"} /\ mem[o + 1].k = "rec"
            /\ mem[o + 1].b <= rec
            /\ (o % BlockLen) + rec <= BlockLen
            /\ o + rec \in live \cup {size}
            /\ live \cap (o + 1 .. o + rec - 1) = {}
            /\ mem[o].k = "ino" => /\ mem[o + Header].k = "text"
                                   /\ Need[mem[o + Header].name] = mem[o + 1].b

Tiling == ~torn /\ ~InWindow => Tiled

(* Without a crash nothing is left of a removed entry: what an intact       *)
(* directory does not use is zero, so that the header of the next entry is  *)
(* all that a later one could be mistaken for.                              *)
Used(o) == IF mem[o].k = "zero" THEN Header ELSE mem[o + 1].b

SlackClear ==
  pc = "rest" /\ ~torn /\ crashes = 0 =>
    \A u \in Units : mem[u] # Zero => \E o \in live : u \in o .. o + Used(o) - 1

(* An intact directory that still has its dots is removed if and only if it *)
(* has no other entries and never had a second block: rmdir looks at the    *)
(* offset of the last entry alone.                                          *)
RmdirExact ==
  [][Ended /\ op.kind = "last" /\ crashes' = crashes /\ ~torn /\ Dots \subseteq Entries =>
       (plan' # <<>>) = (Entries = Dots /\ size = BlockLen)]_vars

(* The directory as its users see it. *)
Request == IF op.kind \in {"create", "unlink"}
           THEN [kind |-> op.kind, name |-> op.name, ino |-> op.ino, done |-> op.done]
           ELSE [kind |-> "none", name |-> NoName, ino |-> 0, done |-> FALSE]

Abstract == INSTANCE DirNames WITH
  Inodes <- Inodes \cup {Self, Parent},
  entries <- Entries, req <- Request, aborts <- crashes, damaged <- torn

(* Splitting, appending and merging entries implement a set of names.       *)
ImplementsNames == Abstract!Spec

(* Every operation on an intact directory ends; in particular no walk goes  *)
(* on for ever over an entry whose rec_len is 0, and the ASSERT holds.      *)
OperationEnds == pc # "rest" ~> pc \in {"rest", "gone"} \/ torn
=============================================================================
