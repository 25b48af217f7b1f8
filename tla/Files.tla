-------------------------------- MODULE Files --------------------------------
(***************************************************************************)
(* Files as a program sees them: the mounts and the path walk of the        *)
(* virtual file system (modules/vfs.c), the descriptor table of a process   *)
(* (process_open_file, process_close_file) and the calls on a descriptor    *)
(* (cpu/syscall.c, libc/stdio.c), over the disk file systems of module      *)
(* Volume.  A process's table is its own (fork copies it), so one process   *)
(* is enough.  Paths are sequences of names; <<>> is "/".                   *)
(***************************************************************************)
EXTENDS Volume

CONSTANTS
    Volumes,      \* root file systems to start with
    Upcase,       \* the names and their upper-case forms
    Paths,        \* the paths that are opened
    Devices,      \* names under /dev that open treats itself: [name -> [dev, n]]
    NFD,          \* descriptors of a process (256)
    TTYS,         \* terminals
    MAX_MOUNTS,   \* capacity of the mount table (10)
    Counts,       \* bytes asked for in a read
    Modes,        \* flags given to open: "r", "w", "rw", "d" (O_RDONLY | O_DIRECTORY)
    Seeks,        \* whence and offset given to lseek
    MaxOffset,    \* bound: the offset a lseek leads to
    MaxOpens      \* bound: calls of open that find a free descriptor

ASSUME FilesAssumption ==
    /\ {NFD, TTYS, MAX_MOUNTS, MaxOpens, MaxOffset} \subseteq Nat \ {0}
    /\ Counts \subseteq Nat \ {0}
    /\ Paths \subseteq Seq(STRING)
    /\ Seeks \subseteq {"SEEK_SET", "SEEK_CUR", "SEEK_END"} \X Int
    /\ \A name \in DOMAIN Devices : Devices[name].dev \in {"tty", "fb"} /\ Devices[name].n \in Nat
    /\ \A v \in Volumes : WellFormed(v)

VARIABLES
    vol,          \* the root file system
    fat,          \* fs->bitmap: the FAT as it was cached
    cached,       \* whether it could be read
    rootdir,      \* fs->rootdir: "unset", a node, or "none" when it was not found
    to_mount,     \* the paths the kernel still mounts on
    mounts,       \* mounts.m: [ino, fs] of every mount
    fd,           \* the descriptors
    cwd,          \* p->cwd
    opens,        \* calls of open so far
    last,         \* what the last call returned
    seen          \* for every descriptor: what the program knows of it (its path, unless the disk failed)

vars == <<vol, fat, cached, rootdir, to_mount, mounts, fd, cwd, opens, last, seen>>
booted == <<vol, fat, cached, rootdir, to_mount, mounts>>

\* The pseudo file systems, in the order in which the kernel mounts them.
Pseudo == <<"dev", "proc", "tmp">>

Closed == [used |-> FALSE, type |-> "none", tty |-> 0, fb |-> FALSE, mount |-> "none", node |-> "none",
           offset |-> 0, read |-> FALSE, write |-> FALSE]
Unknown == [path |-> <<"none">>, from |-> 0, got |-> <<>>, ended |-> FALSE, astray |-> FALSE, was_tty |-> FALSE]
Nothing == [call |-> "none", ret |-> "ok", path |-> <<>>, failed |-> FALSE]

Init ==
    /\ vol \in Volumes
    /\ fat = <<>> /\ cached = FALSE /\ rootdir = "unset"
    /\ to_mount = Pseudo
    /\ mounts = <<>>
    /\ fd = [i \in 0 .. NFD - 1 |-> Closed]
    /\ cwd = Root
    /\ opens = 0
    /\ last = Nothing
    /\ seen = [i \in 0 .. NFD - 1 |-> Unknown]

-----------------------------------------------------------------------------
(***************************************************************************)
(* The path walk.                                                          *)
(***************************************************************************)

\* strcmp, or stricmp where the file system ignores case.
Alike(v, a, b) == IF Fat(v) THEN Upcase[a] = Upcase[b] ELSE a = b
SameName(fs, a, b) == IF fs = "root" THEN Alike(vol, a, b) ELSE a = b

\* Names under /dev that open treats itself, before it looks for a file.
IsDevice(path) == Len(path) = 2 /\ path[1] = "dev" /\ path[2] \in DOMAIN Devices

\* The names that are looked up are not empty and not those of labels and deleted
\* files; what the pseudo file systems are mounted on are directories below the root.
Mounted == {Pseudo[k] : k \in 1 .. Len(Pseudo)}
Looked == Mounted \cup UNION {{path[k] : k \in 1 .. Len(path)} : path \in Paths}
ASSUME NamesAssumption ==
    /\ "" \notin Looked
    /\ \A path \in Paths : ~IsDevice(path)
    /\ \A v \in Volumes :
          /\ \A x \in DOMAIN v.nodes : \A i \in 1 .. Len(v.nodes[x].slots), name \in Looked :
                v.nodes[x].slots[i].kind \in {"label", "deleted"} => ~Alike(v, v.nodes[x].slots[i].name, name)
          /\ \A i \in 1 .. Len(Entries(v, Root)), name \in Mounted :
                LET entry == Entries(v, Root)[i]
                IN  Alike(v, entry.name, name) => entry.node # Root /\ v.nodes[entry.node].type = "dir"

\* The pseudo file systems have no entries.
readdir(fs, x) == IF fs = "root" THEN fs_readdir(vol, x) ELSE <<>>

\* The file system mounted on a directory: mounts are told by the inode number
\* alone, whichever file system the directory is on.
MountedOn(x) == {i \in 1 .. Len(mounts) : mounts[i].ino = Ino(vol, x)}

\* A fault: names are compared exactly on every file system.
HitsExact(fs, list, name) == {i \in 1 .. Len(list) : list[i].name = name}

\* The entries of a list that have a name.
Hits(fs, list, name) == {i \in 1 .. Len(list) : SameName(fs, list[i].name, name)}

\* A fault: a mounted directory is entered like any other.
EnterBlind(w, f) ==
    IF f = "none" \/ vol.nodes[f].type # "dir" THEN [w EXCEPT !.f = f] ELSE [w EXCEPT !.f = f, !.dir = f]

\* Only a directory becomes the current directory; after a file the walk goes on in
\* the directory the file is in.
Enter(w, f) ==
    IF f = "none" \/ vol.nodes[f].type # "dir" THEN [w EXCEPT !.f = f]
    ELSE IF MountedOn(f) = {} THEN [w EXCEPT !.f = f, !.dir = f]
    ELSE [w EXCEPT !.f = f, !.fs = mounts[Min(MountedOn(f))].fs, !.dir = "none"]

\* The component that a list of entries has under a name: its first entry.
Pick(w, name, list) ==
    LET hits == Hits(w.fs, list, name)
    IN  IF hits = {} THEN [w EXCEPT !.err = "ENOENT"] ELSE Enter(w, list[Min(hits)].node)

\* One component of the path.
Step(w, name) == IF w.err # "ok" THEN w ELSE Pick(w, name, readdir(w.fs, w.dir))

\* Where the walk is after each component of the path.
Walk(path) ==
    LET w[k \in 0 .. Len(path)] ==
            IF k = 0 THEN [err |-> "ok", fs |-> "root", dir |-> rootdir, f |-> rootdir]
            ELSE Step(w[k - 1], path[k])
    IN  w

\* vfs_stat always starts at the root: the working directory is not looked at.
\* For "/" the mount is not returned ("none").
vfs_stat(path) ==
    IF path = <<>> THEN [err |-> "ok", fs |-> "none", dir |-> rootdir, f |-> rootdir]
    ELSE Walk(path)[Len(path)]

\* One component when the disk may fail.  A directory that cannot be read ends the walk.
\* A group descriptor that cannot be read does not: the inode is taken from whatever
\* block the uninitialised descriptor names, so the component is another file or
\* directory x, under the number of the entry that was found, and the walk goes on; or
\* it is no inode at all ("wild").
Mistaken(w, to, x) ==
    IF vol.nodes[x].type # "dir" THEN [w EXCEPT !.f = x]
    ELSE [to EXCEPT !.f = x, !.dir = IF @ = "none" THEN @ ELSE x]
StepLost(w, name) ==
    LET to == Step(w, name)
    IN  {to} \cup
        (IF w.err # "ok" \/ w.fs # "root" THEN {}
         ELSE {[w EXCEPT !.err = err] : err \in Failures(vol, w.dir)} \cup
              (IF vol.kind # "ext2" \/ to.err # "ok" THEN {}
               ELSE {Mistaken(w, to, x) : x \in DOMAIN vol.nodes} \cup {[to EXCEPT !.err = "wild"]}))

\* What vfs_stat may return when the disk fails on the way.
Lost(path) ==
    LET w[k \in 0 .. Len(path)] ==
            IF k = 0 THEN {Walk(path)[0]} ELSE UNION {StepLost(to, path[k]) : to \in w[k - 1]}
    IN  w[Len(path)]

\* The whole FAT is read; when its first copy cannot be read, the second is
\* looked for sectors_per_fat * bytes_per_sector sectors further, and what was
\* not read stays zero.
fat_init ==
    /\ rootdir = "unset" /\ Fat(vol)
    /\ \E ok \in BOOLEAN :
          /\ cached' = ok
          /\ fat' = IF ok THEN fat_table(vol) ELSE [i \in DOMAIN fat_table(vol) |-> 0]
    /\ rootdir' = Root
    /\ UNCHANGED <<vol, to_mount, mounts, fd, cwd, opens, last, seen>>

\* The root directory is inode 2.  It stays unknown when the superblock has no
\* signature or cannot be read, and is not what it should be when its inode cannot.
ext2_init ==
    /\ rootdir = "unset" /\ vol.kind = "ext2"
    /\ rootdir' \in {ext2_read_inode(vol, 2), "none"}
    /\ UNCHANGED <<vol, fat, cached, to_mount, mounts, fd, cwd, opens, last, seen>>

\* At most ten volume descriptors are looked at, up to the terminator; one that
\* cannot be read leaves the former in the buffer.
Descriptors == 10
iso9660_init ==
    /\ rootdir = "unset" /\ vol.kind = "iso9660"
    /\ \E lost \in SUBSET (1 .. Len(vol.descriptors)) :
          LET Read(i) == {k \in 1 .. i : k \notin lost}
              Buffer(i) == IF Read(i) = {} \/ Max(Read(i)) > Len(vol.descriptors) THEN "unknown"
                           ELSE vol.descriptors[Max(Read(i))]
              stop == Min({i \in 1 .. Descriptors : Buffer(i) = "terminator"} \cup {Descriptors + 1})
          IN  rootdir' = IF \E i \in 1 .. stop - 1 : Buffer(i) = "primary" THEN Root ELSE "none"
    /\ UNCHANGED <<vol, fat, cached, to_mount, mounts, fd, cwd, opens, last, seen>>

\* vfs_init copies the root directory without looking whether there is one.  What follows
\* from there, and from an inode that is none, is not modelled.
VfsInitWild ==
    /\ rootdir = "none" /\ last.ret # "wild"
    /\ last' = [Nothing EXCEPT !.ret = "wild"]
    /\ UNCHANGED <<booted, fd, cwd, opens, seen>>
Mountable == rootdir \in DOMAIN vol.nodes /\ last.ret # "wild"

\* The size of a directory is counted along its chain (fat_calculate_actual_size)
\* when its entry is read: in a table of zeros the chain never ends.
Endless ==
    /\ Fat(vol) /\ ~cached
    /\ \E i \in 3 .. Len(readdir("root", Root)) :
          LET x == readdir("root", Root)[i].node IN x # "none" /\ vol.nodes[x].type = "dir"
MountLoops ==
    /\ Mountable /\ to_mount = Pseudo /\ Endless
    /\ last' = [Nothing EXCEPT !.ret = "wild"]
    /\ UNCHANGED <<booted, fd, cwd, opens, seen>>

\* The mount of the next pseudo file system, by the kernel, which does not
\* look at the result: the directory may be missing or unreadable, or its inode
\* number may be in the table already.
vfs_mount ==
    /\ Mountable /\ to_mount # <<>> /\ ~Endless
    /\ to_mount' = Tail(to_mount)
    /\ LET w == vfs_stat(<<Head(to_mount)>>)
       IN  IF Len(mounts) = MAX_MOUNTS \/ w.err # "ok" \/ MountedOn(w.f) # {} THEN UNCHANGED mounts
           ELSE \/ mounts' = Append(mounts, [ino |-> Ino(vol, w.f), fs |-> Head(to_mount)])
                \/ UNCHANGED mounts
    /\ UNCHANGED <<vol, fat, cached, rootdir, fd, cwd, opens, last, seen>>

Running == to_mount = <<>> /\ last.ret # "wild"
Return(call, ret) == UNCHANGED opens /\ last' = [Nothing EXCEPT !.call = call, !.ret = ret]
Opened(path, ret, failed) ==
    /\ opens' = opens + 1
    /\ last' = [call |-> "open", ret |-> ret, path |-> path, failed |-> failed]

-----------------------------------------------------------------------------
(***************************************************************************)
(* Descriptors.                                                            *)
(***************************************************************************)

Free == {i \in 0 .. NFD - 1 : ~fd[i].used}
CanOpen == Running /\ Free # {} /\ opens < MaxOpens
ToldOf(i, path) == [seen EXCEPT ![i] = [Unknown EXCEPT !.path = path, !.was_tty = fd[i].tty # 0]]

\* The first free descriptor, with the access rights of this open added to the
\* ones it was left with.
Taken(mode) ==
    LET i == Min(Free)
    IN  [fd[i] EXCEPT !.used = TRUE, !.offset = 0,
                      !.read = @ \/ mode # "w", !.write = @ \/ mode \in {"w", "rw"}]

\* A terminal or the framebuffer.  A number that does not exist is refused
\* after the descriptor was taken, which stays taken.
OpenDevice(name, mode) ==
    /\ CanOpen
    /\ LET i == Min(Free)
           d == Devices[name]
           missing == d.n > (IF d.dev = "tty" THEN TTYS ELSE 0)
       IN  /\ fd' = [fd EXCEPT ![i] = [Taken(mode) EXCEPT
                        !.type = "chr",
                        !.tty = IF d.dev = "tty" /\ ~missing THEN Max({d.n, 1}) ELSE @,
                        !.fb = @ \/ (d.dev = "fb" /\ ~missing)]]
           /\ Opened(<<"dev", name>>, IF missing THEN "ENOENT" ELSE "ok", FALSE)
           /\ seen' = IF missing THEN seen ELSE ToldOf(i, <<"dev", name>>)
    /\ UNCHANGED <<booted, cwd>>

\* A file or a directory ("d": O_DIRECTORY) to which the walk led.  The mount of the
\* descriptor is written by vfs_stat, which leaves it alone for "/".
Open(path, mode, w, failed) ==
    /\ CanOpen
    /\ LET i == Min(Free)
           err == IF w.err = "ok" /\ mode = "d" /\ vol.nodes[w.f].type # "dir" THEN "ENOTDIR" ELSE w.err
       IN  /\ fd' = [fd EXCEPT ![i] =
                        IF w.err # "ok" THEN [Taken(mode) EXCEPT !.used = FALSE]
                        ELSE [Taken(mode) EXCEPT !.used = (err = "ok"), !.type = vol.nodes[w.f].type, !.node = w.f,
                                                  !.mount = IF path = <<>> THEN @ ELSE w.fs]]
           /\ Opened(path, err, failed)
           /\ seen' = IF err = "ok" THEN ToldOf(i, IF failed THEN Unknown.path ELSE path) ELSE seen
    /\ UNCHANGED <<booted, cwd>>

OpenFile(path, mode) == Open(path, mode, vfs_stat(path), FALSE)

\* The disk fails on the way.
OpenLost(path, mode) == CanOpen /\ \E w \in Lost(path) : w.err # "wild" /\ Open(path, mode, w, TRUE)
OpenWild(path) ==
    /\ CanOpen
    /\ \E w \in Lost(path) : w.err = "wild"
    /\ Opened(path, "wild", TRUE)
    /\ UNCHANGED <<booted, fd, cwd, seen>>

OpenFull ==
    /\ Running /\ Free = {}
    /\ Return("open", "ENOMEM")
    /\ UNCHANGED <<booted, fd, cwd, seen>>

process_close_file(i) ==
    /\ Running
    /\ IF fd[i].used
       THEN /\ fd' = [fd EXCEPT ![i].used = FALSE]
            /\ seen' = [seen EXCEPT ![i] = Unknown]
            /\ Return("close", "ok")
       ELSE Return("close", "EBADFD") /\ UNCHANGED <<fd, seen>>
    /\ UNCHANGED <<booted, cwd>>

\* The size is the one of the stat that open left in the descriptor.
syscall_lseek(i, whence, offset) ==
    /\ Running
    /\ LET to == offset + CASE whence = "SEEK_SET" -> 0
                            [] whence = "SEEK_CUR" -> fd[i].offset
                            [] whence = "SEEK_END" -> IF fd[i].node = "none" THEN 0 ELSE vol.nodes[fd[i].node].size
       IN  IF fd[i].used
           THEN /\ to \in 0 .. MaxOffset
                /\ fd' = [fd EXCEPT ![i].offset = to]
                /\ seen' = [seen EXCEPT ![i].from = to, ![i].got = <<>>, ![i].ended = FALSE]
                /\ Return("lseek", "ok")
           ELSE Return("lseek", "EBADFD") /\ UNCHANGED <<fd, seen>>
    /\ UNCHANGED <<booted, cwd>>

\* chdir and fchdir keep the stat of a file or directory; nothing reads it.
syscall_chdir(path) ==
    /\ Running
    /\ \/ LET w == vfs_stat(path)
          IN  /\ cwd' = IF w.err = "ok" THEN w.f ELSE cwd
              /\ Return("chdir", w.err)
       \/ \E err \in {"ok", "EIO", "ENOENT"} :      \* the disk fails
              /\ path # <<>> /\ (err = "ok" => vol.kind = "ext2")
              /\ cwd' = IF err = "ok" THEN "unknown" ELSE cwd
              /\ Return("chdir", err)
    /\ UNCHANGED <<booted, fd, seen>>

syscall_fchdir(i) ==
    /\ Running
    /\ cwd' = IF fd[i].used THEN fd[i].node ELSE cwd
    /\ Return("chdir", IF fd[i].used THEN "ok" ELSE "error")
    /\ UNCHANGED <<booted, fd, seen>>

-----------------------------------------------------------------------------
(***************************************************************************)
(* read and write.                                                         *)
(***************************************************************************)

\* The device a character descriptor stands for: the terminal goes first.
Device(i) == IF fd[i].tty # 0 THEN "tty" ELSE IF fd[i].fb THEN "fb" ELSE "none"

Refused(i, right) ==
    /\ ~right \/ ~fd[i].used \/ (fd[i].type = "chr" /\ Device(i) = "none")
    /\ Return("access", IF ~right THEN "EACCES" ELSE "EBADFD")
    /\ UNCHANGED <<fd, seen>>

\* A read of a file: a block that could not be read ends it with an error,
\* otherwise the descriptor advances by what was read.  A read is safe at the end
\* of the file, and when it stays in one block or begins with one and, on ext2, the
\* file has no holes and it begins with the file or stays in the direct blocks; on a
\* FAT whose clusters have several sectors, when it stays in the first sector.
Safe(node, offset, n) ==
    \/ offset >= node.size
    \/ /\ offset % BS = 0 \/ (offset % BS) + n <= BS
       /\ vol.kind = "ext2" =>
             Whole(node) /\ (offset = 0 \/ (offset < DIRECT * BS /\ offset + n <= DIRECT * BS))
       /\ Fat(vol) => SPC = 1 \/ (offset < BS /\ offset + n <= BS)

ReadFile(i, count) ==
    /\ fd[i].type = "reg" /\ fd[i].mount = "root"
    /\ LET node == vol.nodes[fd[i].node]
           data == fs_read(vol, fat, node, count, fd[i].offset)
       IN  \/ /\ fd' = [fd EXCEPT ![i].offset = @ + Len(data)]
              /\ seen' = [seen EXCEPT ![i].got = @ \o data,
                                      ![i].ended = (data = <<>>),
                                      ![i].astray = @ \/ ~Safe(node, fd[i].offset, Len(data))]
              /\ Return("read", "ok")
           \/ /\ data # <<>>
              /\ Return("read", "EIO") /\ UNCHANGED <<fd, seen>>

\* A read of a directory returns one entry and counts it in the offset.  When a group
\* descriptor cannot be read, the entry tells the type of another inode.
ReadDir(i) ==
    /\ fd[i].type = "dir" /\ fd[i].mount # "none"
    /\ LET list == readdir(fd[i].mount, fd[i].node)
       IN  IF fd[i].offset < Len(list)
           THEN \/ /\ fd' = [fd EXCEPT ![i].offset = @ + 1]
                   /\ seen' = [seen EXCEPT ![i].got = Append(@, list[fd[i].offset + 1])]
                   /\ Return("read", "ok")
                \/ /\ vol.kind = "ext2" /\ fd[i].mount = "root"
                   /\ fd' = [fd EXCEPT ![i].offset = @ + 1]
                   /\ seen' = [seen EXCEPT ![i].got = Append(@, [list[fd[i].offset + 1] EXCEPT !.node = "lost"]),
                                           ![i].astray = TRUE]
                   /\ Return("read", "ok")
                \/ \E err \in Failures(vol, fd[i].node) :
                      /\ seen' = [seen EXCEPT ![i].ended = @ \/ err = "ENOENT", ![i].astray = @ \/ err = "ENOENT"]
                      /\ Return("read", err) /\ UNCHANGED fd
           ELSE /\ seen' = [seen EXCEPT ![i].ended = TRUE]
                /\ Return("read", "ENOENT") /\ UNCHANGED fd

\* The function table of a mount nobody wrote is called.
ReadNowhere(i) ==
    /\ fd[i].type = "dir" /\ fd[i].mount = "none"
    /\ Return("read", "wild") /\ UNCHANGED <<fd, seen>>

\* Terminals are module Terminal's; a read of the framebuffer writes to it.
ReadDevice(i) ==
    /\ fd[i].type = "chr" /\ Device(i) # "none"
    /\ Return("read", Device(i)) /\ UNCHANGED <<fd, seen>>

read(i, count) ==
    /\ Running
    /\ \/ Refused(i, fd[i].read)
       \/ /\ fd[i].read /\ fd[i].used
          /\ \/ ReadFile(i, count)
             \/ ReadDir(i)
             \/ ReadNowhere(i)
             \/ ReadDevice(i)
    /\ UNCHANGED <<booted, cwd>>

\* The disk file systems are read-only.
write(i) ==
    /\ Running
    /\ \/ Refused(i, fd[i].write)
       \/ /\ fd[i].write /\ fd[i].used /\ fd[i].type \in {"reg", "dir"}
          /\ Return("write", IF fd[i].type = "reg" THEN "EROFS" ELSE "EISDIR")
          /\ UNCHANGED <<fd, seen>>
       \/ /\ fd[i].write /\ fd[i].used /\ fd[i].type = "chr" /\ Device(i) # "none"
          /\ Return("write", Device(i)) /\ UNCHANGED <<fd, seen>>
    /\ UNCHANGED <<booted, cwd>>

Next ==
    \/ fat_init
    \/ ext2_init
    \/ iso9660_init
    \/ VfsInitWild
    \/ MountLoops
    \/ vfs_mount
    \/ \E name \in DOMAIN Devices, mode \in Modes : OpenDevice(name, mode)
    \/ \E path \in Paths, mode \in Modes : OpenFile(path, mode)
    \/ \E path \in Paths, mode \in Modes : OpenLost(path, mode)
    \/ \E path \in Paths : OpenWild(path)
    \/ OpenFull
    \/ \E i \in 0 .. NFD - 1 :
          \/ process_close_file(i)
          \/ \E seek \in Seeks : syscall_lseek(i, seek[1], seek[2])
          \/ syscall_fchdir(i)
          \/ \E count \in Counts : read(i, count)
          \/ write(i)
    \/ \E path \in Paths : syscall_chdir(path)

Spec == Init /\ [][Next]_vars

-----------------------------------------------------------------------------
\* What a path names when it is read component by component: a child of a
\* directory, and nothing below a directory on which a pseudo file system is
\* mounted, which has no entries.  "no" when there is no such file.
Child(v, x, name) ==
    LET entries == Entries(v, x)
        hits == {i \in 1 .. Len(entries) : Alike(v, entries[i].name, name)}
    IN  IF hits = {} THEN "no" ELSE entries[Min(hits)].node
Lookup(v, points, path) ==
    LET to[k \in 0 .. Len(path)] ==
            IF k = 0 THEN Root
            ELSE LET up == to[k - 1]
                 IN  IF up = "no" \/ up \in points \/ v.nodes[up].type # "dir" THEN "no"
                     ELSE Child(v, up, path[k])
    IN  to
MountPoints == {Child(vol, Root, mounts[k].fs) : k \in 1 .. Len(mounts)}
Prefix(path) == Lookup(vol, MountPoints, path)
Names(path) == Prefix(path)[Len(path)]

\* A path that goes on after a file.
ThroughFile(path) ==
    \E k \in 1 .. Len(path) - 1 : Prefix(path)[k] # "no" /\ vol.nodes[Prefix(path)[k]].type # "dir"

\* Whether the walk only meets directories that are listed completely.
PlainWalk(path) ==
    \A k \in 0 .. Len(path) - 1 :
        LET x == Prefix(path)[k] IN x # "no" /\ vol.nodes[x].type = "dir" => Plain(vol, x)

\* A descriptor stands for what its path names, whatever was opened, refused
\* and closed on it before: the file or directory of the tree, with the file
\* system mounted on it, or the device.  Three opens are excepted: a path that
\* goes on after a file (the walk ignores the file), the framebuffer on a
\* descriptor that was a terminal (its terminal is never taken back), and an open during
\* which the disk failed, whose path is not noted (an inode is read without its group
\* descriptor).
OpenedIsNamed ==
    \A i \in 0 .. NFD - 1 :
        LET path == seen[i].path
            name == path[Len(path)]
        IN  fd[i].used /\ path # Unknown.path =>
            IF IsDevice(path)
            THEN \/ Device(i) = Devices[name].dev
                 \/ Devices[name].dev = "fb" /\ seen[i].was_tty
            ELSE PlainWalk(path) /\ ~ThroughFile(path) =>
                 /\ fd[i].node = Names(path)
                 /\ path # <<>> => (fd[i].mount # "root") = (Names(path) \in MountPoints)

\* An open that finds nothing is right: no such path exists.  A directory that
\* cannot be read is excepted, for which FAT and ext2 say the same, and one that is not
\* listed whole (Plain).
MissingIsMissing ==
    last.call = "open" /\ last.ret = "ENOENT" /\ ~last.failed /\ ~IsDevice(last.path)
        /\ PlainWalk(last.path) => Names(last.path) = "no"

\* What a program has read of a file since it opened it, or since its last
\* lseek, is the file from there on without a gap, and a read that returns
\* nothing is at the end; unless a read crossed a block from the middle of one
\* or entered the indirect blocks of an ext2 file from the middle of the file, or the
\* ext2 file is sparse.
StreamIsFile ==
    \A i \in 0 .. NFD - 1 :
        fd[i].used /\ fd[i].type = "reg" /\ (Fat(vol) => cached) /\ ~seen[i].astray =>
            LET node == vol.nodes[fd[i].node]
            IN  /\ seen[i].got = [k \in 1 .. fd[i].offset - seen[i].from |-> Where(vol, node, seen[i].from + k - 1)]
                /\ seen[i].ended => fd[i].offset >= node.size

\* A directory that was read to its end gave every entry once and in order, on
\* ISO 9660 followed by one without a name; a directory whose reads go through a
\* mounted file system is excepted ("/" has the mount an earlier open left in the
\* descriptor), and one the disk did not give, whose end is reported where it failed.
DirectoryIsListed ==
    \A i \in 0 .. NFD - 1 :
        fd[i].used /\ fd[i].type = "dir" /\ seen[i].ended /\ ~seen[i].astray /\ seen[i].from = 0
        /\ fd[i].mount = "root" /\ Plain(vol, fd[i].node) =>
            seen[i].got = Entries(vol, fd[i].node) \o
                              (IF vol.kind = "iso9660" THEN <<Named("", "none")>> ELSE <<>>)
=============================================================================
