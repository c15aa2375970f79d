---------------------------------- MODULE Files ---------------------------------
(***************************************************************************)
(* Files as processes see them: paths (fs/vfs.c), the file system calls    *)
(* (fs/sysfile.c), and the descriptor table of a process (sys/process.c).  *)
(* System calls run with interrupts disabled, so that each is one step;    *)
(* calls of different processes interleave.                                *)
(*                                                                         *)
(* Below the VFS is a file system that keeps directories as sequences of   *)
(* entries and files as a size, as fs/ext2.c does (module Ext2); disk and  *)
(* kmalloc do not fail.  No call deletes a file.                           *)
(***************************************************************************)
EXTENDS Integers, Sequences

CONSTANTS
    Procs,
    Names,          \* what paths are made of, beside "." and ".."
    Paths,          \* the paths processes use: [abs, comps]
    MaxNodes,       \* bound: files and directories, the root included
    MaxFds,         \* bound: files opened by a process beside the standard ones
    MaxSize,        \* bound: the size of a file
    Counts,         \* the sizes of reads and writes
    Block,          \* the size of a block of the file system
    Offsets,        \* arguments of sys_lseek
    Garbage,        \* what the flags of a node may hold before they are set
    Anywhere        \* whether files are created by other than simple names

Dot == "."
DotDot == ".."
Root == 1
None == 0
Ids == 1 .. MaxNodes
Attrs == {"O_RDONLY", "O_WRONLY"}       \* O_RDWR is the same as O_RDONLY

ASSUME FilesAssumption ==
    /\ MaxNodes \in Nat \ {0} /\ MaxSize \in Nat /\ Block \in Nat
    /\ Counts \subseteq Nat /\ Offsets \subseteq Int
    /\ Dot \notin Names /\ DotDot \notin Names
    /\ \A path \in Paths : path.comps \in Seq(Names \cup {Dot, DotDot})

VARIABLES
    fs,         \* per node: its kind, the entries of a directory, the size of a file
    proc,       \* per process: cwd, the descriptor table fdt, a directory stream dir
    seen        \* per process: the names that its directory stream has returned

vars == <<fs, proc, seen>>
--------------------------------------------------------------------------------
(* normalizePath: the components of the working directory, if the path is   *)
(* relative, then those of the path, "." left out and ".." removing one.    *)
PushedUnpopped(out, c) ==
    IF c \in {Dot, DotDot} THEN out ELSE Append(out, c)

Popped(out) == SubSeq(out, 1, Len(out) - 1)

Pushed(out, c) ==
    IF c = DotDot THEN (IF out = <<>> THEN out ELSE Popped(out))
    ELSE IF c = Dot THEN out
    ELSE Append(out, c)

PushAll(out, comps) ==
    LET after[k \in 0 .. Len(comps)] == IF k = 0 THEN out ELSE Pushed(after[k - 1], comps[k])
    IN  after[Len(comps)]

Relative(path) == ~path.abs /\ path.comps # <<>>

normalizePath(cwd, path) == PushAll(IF Relative(path) THEN cwd ELSE <<>>, path.comps)

First(at) == CHOOSE k \in at : \A j \in at : k <= j

(* vfs_finddir and vfs_openFile: the node a normalized path leads to.       *)
vfs_finddir(f, id, name) ==
    LET at == {k \in DOMAIN f[id].entries : f[id].entries[k].name = name}
    IN  IF f[id].kind # "dir" \/ at = {} THEN None ELSE f[id].entries[First(at)].id

Below(f, id, name) == IF id = None THEN None ELSE vfs_finddir(f, id, name)

Found(f, id, comps) ==
    LET at[k \in 0 .. Len(comps)] == IF k = 0 THEN id ELSE Below(f, at[k - 1], comps[k])
    IN  at[Len(comps)]

vfs_openFile(f, cwd, path) == Found(f, Root, normalizePath(cwd, path))

(* ino2vfs sets the flags of a node by adding to what its memory holds.     *)
NodeOf(id, attr, garbage) ==
    [id |-> id, attr |-> attr, offset |-> 0, size |-> fs[id].size,
     flags |-> {fs[id].kind} \cup garbage]

Standard(attr) == [id |-> None, attr |-> attr, offset |-> 0, size |-> 0, flags |-> {"file"}]

createStandardFiles == <<Standard("O_RDONLY"), Standard("O_WRONLY"), Standard("O_WRONLY")>>
--------------------------------------------------------------------------------
(* getParent: the parent's node, and the name of the new file, which is     *)
(* taken from the path as given at the position the last separator has in   *)
(* the normalized path.  That is the last component of a relative path in   *)
(* the root directory; an absolute one gives a name with a separator, and   *)
(* any other one whatever lies at that place behind the path.               *)
Separator == "/"
Stray == "?"

Name(path) == path.comps[Len(path.comps)]

Simple(cwd, path) ==
    Relative(path) /\ cwd = <<>> /\ normalizePath(cwd, path) = path.comps

FileNameWhole(cwd, path) == {Separator \o Name(path)}

FileName(cwd, path) ==
    IF Simple(cwd, path) THEN {Name(path)}
    ELSE IF path.abs /\ normalizePath(cwd, path) = path.comps /\ path.comps # <<>>
         THEN {Separator \o Name(path)}
         ELSE {Stray} \cup Names

Parent(cwd, path) ==
    LET p == normalizePath(cwd, path) IN Found(fs, Root, IF p = <<>> THEN p ELSE Popped(p))

(* A new node in a directory; mkdir enters "." and "..".                    *)
NewId == First({i \in Ids : fs[i].kind = "none"})

Made(kind) ==
    [kind |-> kind, size |-> 0,
     entries |-> IF kind = "dir" THEN <<[name |-> Dot, id |-> None], [name |-> DotDot, id |-> None]>>
                 ELSE <<>>]

WithNodeFirst(parent, name, kind) ==
    [fs EXCEPT ![parent].entries = <<[name |-> name, id |-> NewId]>> \o @,
               ![NewId] = Made(kind)]

WithNode(parent, name, kind) ==
    [fs EXCEPT ![parent].entries = Append(@, [name |-> name, id |-> NewId]),
               ![NewId] = Made(kind)]

Creatable(p, path, name) ==
    LET parent == Parent(proc[p].cwd, path)
    IN  /\ parent # None /\ fs[parent].kind = "dir"
        /\ vfs_finddir(fs, parent, name) = None
        /\ Anywhere \/ Simple(proc[p].cwd, path)
        /\ \E i \in Ids : fs[i].kind = "none"

Added(p, node) == [proc EXCEPT ![p].fdt = Append(@, node)]

(* sys_open of a path that is found, and of one that has to be created; the *)
(* path is looked up again then.                                            *)
sys_open(p, path, attr) ==
    LET id == vfs_openFile(fs, proc[p].cwd, path)
    IN  /\ id # None
        /\ Len(proc[p].fdt) < 3 + MaxFds
        /\ \E g \in Garbage : proc' = Added(p, NodeOf(id, attr, g))
        /\ UNCHANGED <<fs, seen>>

sys_open_create(p, path, attr) ==
    /\ vfs_openFile(fs, proc[p].cwd, path) = None
    /\ Len(proc[p].fdt) < 3 + MaxFds
    /\ \E name \in FileName(proc[p].cwd, path) :
          /\ Creatable(p, path, name)
          /\ fs' = WithNode(Parent(proc[p].cwd, path), name, "file")
    /\ \E g \in Garbage :
          proc' = IF vfs_openFile(fs', proc[p].cwd, path) = None THEN proc
                  ELSE Added(p, [id |-> NewId, attr |-> attr, offset |-> 0, size |-> 0,
                                 flags |-> {"file"} \cup g])
    /\ UNCHANGED seen

sys_mkdir(p, path) ==
    /\ \E name \in FileName(proc[p].cwd, path) :
          /\ Creatable(p, path, name)
          /\ fs' = WithNode(Parent(proc[p].cwd, path), name, "dir")
    /\ UNCHANGED <<proc, seen>>
--------------------------------------------------------------------------------
(* process_close_file leaves the node in the table: a descriptor is never   *)
(* used again, and goes on to work after it is closed.                      *)
Closed(fdt, fd) == fdt

sys_close(p, fd) ==
    /\ proc' = [proc EXCEPT ![p].fdt = Closed(@, fd)]
    /\ UNCHANGED <<fs, seen>>

(* ext2_read behind vfs_read: nothing at all is read when that would pass   *)
(* the end of the file.                                                     *)
MayRead(node) == node.attr # "O_WRONLY" /\ "file" \in node.flags /\ node.id # None

sys_read(p, fd, count) ==
    LET node == proc[p].fdt[fd]
    IN  /\ MayRead(node) /\ fs[node.id].kind = "file"
        /\ count > 0 /\ node.offset + count <= fs[node.id].size
        /\ proc' = [proc EXCEPT ![p].fdt[fd].offset = @ + count]
        /\ UNCHANGED <<fs, seen>>

(* ext2_write behind vfs_write, whose test of O_RDONLY, that is 0, is never *)
(* true.  The size is that of the inode after the write, which may include  *)
(* a block that was allocated within the file.                              *)
SizesAfter(size, end) == IF end > size THEN {end} ELSE {size, size + Block}

WrittenUnsized(node, size, count) == [node EXCEPT !.offset = @ + count]

Written(node, size, count) == [node EXCEPT !.offset = @ + count, !.size = size]

sys_write(p, fd, count) ==
    LET node == proc[p].fdt[fd]
    IN  /\ node.id # None /\ "file" \in node.flags /\ fs[node.id].kind = "file"
        /\ count > 0 /\ node.offset \in 0 .. fs[node.id].size
        /\ \E size \in SizesAfter(fs[node.id].size, node.offset + count) :
              /\ size <= MaxSize
              /\ fs' = [fs EXCEPT ![node.id].size = size]
              /\ proc' = [proc EXCEPT ![p].fdt[fd] = Written(node, size, count)]
        /\ UNCHANGED seen

(* vfs_fseek; SEEK_END goes to the end that the node knows of, whatever the *)
(* offset.  To seek a standard file changes nothing that is ever used.      *)
Sought(node, offset, whence) ==
    CASE whence = "SEEK_SET" -> offset
      [] whence = "SEEK_CUR" -> node.offset + offset
      [] whence = "SEEK_END" -> node.size

sys_lseek(p, fd, offset, whence) ==
    LET node == proc[p].fdt[fd]
    IN  /\ node.id # None /\ "file" \in node.flags
        /\ Sought(node, offset, whence) <= MaxSize + 1
        /\ proc' = [proc EXCEPT ![p].fdt[fd].offset = Sought(node, offset, whence)]
        /\ UNCHANGED <<fs, seen>>

(* sys_chdir opens the path that it has normalized, and keeps that.         *)
IsDirUnchecked(flags) == TRUE

IsDir(flags) == "dir" \in flags

sys_chdir(p, path) ==
    LET newPath == normalizePath(proc[p].cwd, path)
        id == vfs_openFile(fs, proc[p].cwd, [abs |-> TRUE, comps |-> newPath])
    IN  /\ id # None
        /\ {g \in Garbage : IsDir(NodeOf(id, "O_RDONLY", g).flags)} # {}
        /\ proc' = [proc EXCEPT ![p].cwd = newPath]
        /\ UNCHANGED <<fs, seen>>

(* A directory stream: a descriptor and the number of the next entry.  The  *)
(* path of sys_opendir may well be that of a file, and nothing sets the     *)
(* node's attr, which matters for a file only.  A process has one stream    *)
(* at a time, and reads no further once it has got NULL.                    *)
NoDir == [fd |-> 0, currentEntry |-> 0]

sys_opendir(p, path) ==
    LET id == vfs_openFile(fs, proc[p].cwd, path)
    IN  /\ proc[p].dir = NoDir /\ id # None
        /\ Len(proc[p].fdt) < 3 + MaxFds
        /\ \E g \in Garbage, attr \in IF fs[id].kind = "dir" THEN {"O_RDONLY"} ELSE Attrs :
              proc' = [Added(p, NodeOf(id, attr, g)) EXCEPT
                         ![p].dir = [fd |-> Len(proc[p].fdt) + 1, currentEntry |-> 0]]
        /\ seen' = [seen EXCEPT ![p] = <<>>]
        /\ UNCHANGED fs

vfs_readdir(node, index) ==
    IF fs[node.id].kind = "dir" /\ index < Len(fs[node.id].entries)
    THEN <<fs[node.id].entries[index + 1].name>> ELSE <<>>

sys_readdir(p) ==
    LET dir == proc[p].dir
    IN  /\ dir # NoDir /\ dir.currentEntry = Len(seen[p])
        /\ seen' = [seen EXCEPT ![p] = @ \o vfs_readdir(proc[p].fdt[dir.fd], dir.currentEntry)]
        /\ proc' = [proc EXCEPT ![p].dir.currentEntry = @ + 1]
        /\ UNCHANGED fs

sys_closedir(p) ==
    /\ proc[p].dir # NoDir
    /\ proc' = [proc EXCEPT ![p].fdt = Closed(@, proc[p].dir.fd), ![p].dir = NoDir]
    /\ seen' = [seen EXCEPT ![p] = <<>>]
    /\ UNCHANGED fs
--------------------------------------------------------------------------------
Init ==
    /\ fs = [i \in Ids |-> IF i = Root THEN Made("dir") ELSE Made("none")]
    /\ proc = [p \in Procs |-> [cwd |-> <<>>, fdt |-> createStandardFiles, dir |-> NoDir]]
    /\ seen = [p \in Procs |-> <<>>]

Next ==
    \E p \in Procs :
       \/ \E path \in Paths :
             \/ \E attr \in Attrs :
                   \/ sys_open(p, path, attr)
                   \/ sys_open_create(p, path, attr)
             \/ sys_mkdir(p, path)
             \/ sys_chdir(p, path)
             \/ sys_opendir(p, path)
       \/ \E fd \in DOMAIN proc[p].fdt :
             \/ sys_close(p, fd)
             \/ \E count \in Counts : sys_read(p, fd, count) \/ sys_write(p, fd, count)
             \/ \E offset \in Offsets, whence \in {"SEEK_SET", "SEEK_CUR", "SEEK_END"} :
                   sys_lseek(p, fd, offset, whence)
       \/ sys_readdir(p)
       \/ sys_closedir(p)

Spec == Init /\ [][Next]_vars
--------------------------------------------------------------------------------
Nodes(p) == {proc[p].fdt[k] : k \in DOMAIN proc[p].fdt}

(* Every descriptor of every process is a standard file or a node that      *)
(* exists, with an offset that a seek or a transfer of data may have left.  *)
TypeOK ==
    /\ \A i \in Ids :
          /\ fs[i].kind \in {"none", "file", "dir"} /\ fs[i].size \in 0 .. MaxSize
          /\ \A k \in DOMAIN fs[i].entries : fs[i].entries[k].id \in {None} \cup Ids
    /\ \A p \in Procs :
          /\ proc[p].cwd \in Seq(Names)
          /\ \A n \in Nodes(p) :
                /\ n.id # None => fs[n.id].kind # "none" /\ fs[n.id].kind \in n.flags
                /\ n.attr \in Attrs /\ n.size \in 0 .. MaxSize /\ n.offset <= MaxSize + 1
          /\ proc[p].dir = NoDir \/ proc[p].dir.fd \in 4 .. Len(proc[p].fdt)

(* The working directory that sys_chdir has stored is, at any later time    *)
(* and whatever other processes do, a directory: sys_chdir checks it once.  *)
CwdIsDirectory ==
    \A p \in Procs :
       LET id == Found(fs, Root, proc[p].cwd) IN id # None /\ fs[id].kind = "dir"

(* A walk through the directories themselves, with ".." as the directory    *)
(* that the present one is an entry of.                                     *)
Above(id) ==
    IF id = Root THEN Root
    ELSE CHOOSE d \in Ids : \E k \in DOMAIN fs[d].entries : fs[d].entries[k].id = id

Stepped(id, c) ==
    IF id = None \/ fs[id].kind # "dir" THEN None
    ELSE CASE c = Dot -> id
           [] c = DotDot -> Above(id)
           [] OTHER -> vfs_finddir(fs, id, c)

Walk(id, comps) ==
    LET at[k \in 0 .. Len(comps)] == IF k = 0 THEN id ELSE Stepped(at[k - 1], comps[k])
    IN  at[Len(comps)]

(* normalizePath works on the text of a path only.  All the same, a path    *)
(* that can be walked, from the working directory or from the root, is      *)
(* opened as the file where the walk ends.                                  *)
LexicalAgrees ==
    \A p \in Procs, path \in Paths :
       LET end == Walk(IF Relative(path) THEN Found(fs, Root, proc[p].cwd) ELSE Root, path.comps)
       IN  end # None => vfs_openFile(fs, proc[p].cwd, path) = end

(* A node keeps the size its file had when it was opened or last written    *)
(* through this node, which SEEK_END uses.  It is never more than the file  *)
(* has, so that a write at the end is accepted; and of all the nodes on a   *)
(* file one always knows the size it really has.                            *)
SizeKnown ==
    TypeOK /\ \A i \in Ids :
       LET sizes == {n.size : n \in {m \in UNION {Nodes(p) : p \in Procs} : m.id = i}}
       IN  sizes # {} => fs[i].size \in sizes /\ \A size \in sizes : size <= fs[i].size

(* Successive calls of sys_readdir return each entry of a directory once    *)
(* and in order, while other processes add entries to it.                   *)
StreamExact ==
    \A p \in Procs :
       proc[p].dir # NoDir =>
          \A k \in DOMAIN seen[p] :
             seen[p][k] = fs[proc[p].fdt[proc[p].dir.fd].id].entries[k].name

(* O_CREAT, "create if nonexistent": every file and directory that sys_open *)
(* or sys_mkdir has created can be opened, that is, its entry has a name    *)
(* that a component of a path can equal, and is the first with that name.   *)
(* Only for paths relative to the root directory: getParent takes the name  *)
(* from the wrong place of any other.                                       *)
CreatedIsFound ==
    \A i \in Ids : \A k \in DOMAIN fs[i].entries :
       LET entry == fs[i].entries[k]
       IN  entry.id # None => entry.name \in Names /\ vfs_finddir(fs, i, entry.name) = entry.id
================================================================================
