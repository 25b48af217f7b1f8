------------------------------- MODULE Volume -------------------------------
(***************************************************************************)
(* Reading the three disk file systems: FAT12/16 (drivers/fs/fat.c), ext2   *)
(* (ext2.c) and ISO 9660 (iso9660.c).  A volume is a record [kind, nodes]:  *)
(* every node has its type, its size, the blocks that hold it in file       *)
(* order and, for a directory, its slots.  A byte is named by where it is   *)
(* on the disk, <<sector, offset in it>>, so that two reads are equal when  *)
(* they read the same bytes.  Module Disk shows what reading one block does.*)
(***************************************************************************)
EXTENDS Integers, Sequences, SequencesExt, FiniteSetsExt

CONSTANTS
    BS,           \* bytes of a block (FAT: of a sector)
    PTR,          \* sizeof(uint32_t): bytes of a block pointer
    INODE,        \* sizeof(ext2_inode) (128, which is what the disk images are made with)
    DIRECT,       \* direct block pointers of an ext2 inode (12)
    SPC,          \* sectors_per_cluster
    DATA,         \* the first sector after the FAT's root directory
    PerBlock      \* directory slots in a block

ASSUME VolumeAssumption ==
    /\ {BS, PTR, INODE, DIRECT, SPC, DATA, PerBlock} \subseteq Nat \ {0}
    /\ BS % PTR = 0 /\ BS % INODE = 0

\* The root directory's node.
Root == "root"

-----------------------------------------------------------------------------
(***************************************************************************)
(* The bytes of a file.                                                    *)
(***************************************************************************)

Least(a, b) == IF a < b THEN a ELSE b

\* The common loop: BS bytes of block after block of the list until count bytes
\* are read, each block copied from the offset at which the read began in its
\* first one.  The two memcpy calls together never stop at the end of a block.
Chunks(list, count, off) ==
    [k \in 1 .. Least(Len(list) * BS, count) |-> <<list[(k - 1) \div BS + 1], off + ((k - 1) % BS)>>]

\* The bytes a read may return at most.
Clip(size, count, offset) ==
    IF offset >= size THEN 0 ELSE IF offset + count > size THEN size - offset ELSE count

\* ISO 9660: a file is one extent.
iso9660_read(node, count, offset) ==
    LET n == Clip(node.size, count, offset)
    IN  Chunks([k \in 1 .. (node.size + BS - 1) \div BS |->
                   node.blocks[1] + (offset + (k - 1) * BS) \div BS],
               n, offset % BS)

\* FAT: the table as it lies on the disk, twelve or sixteen bits an entry.  The
\* driver caches it (fat_init) and never writes it.
End(kind) == IF kind = "fat12" THEN 4088 ELSE 65528
fat_table(vol) ==
    LET Entry(c) ==
            LET owner == {x \in DOMAIN vol.nodes :
                             \E k \in 1 .. Len(vol.nodes[x].blocks) : vol.nodes[x].blocks[k] = c}
                b == vol.nodes[CHOOSE x \in owner : TRUE].blocks
                k == CHOOSE j \in 1 .. Len(b) : b[j] = c
            IN  IF owner = {} THEN 0 ELSE IF k = Len(b) THEN End(vol.kind) + 7 ELSE b[k + 1]
    IN  [i \in 0 .. 2 * vol.clusters + 3 |->
            IF vol.kind = "fat16"
            THEN IF i % 2 = 0 THEN Entry(i \div 2) % 256 ELSE Entry(i \div 2) \div 256
            ELSE LET pair == 2 * (i \div 3)
                 IN  CASE i % 3 = 0 -> Entry(pair) % 256
                       [] i % 3 = 1 -> Entry(pair) \div 256 + 16 * (Entry(pair + 1) % 16)
                       [] i % 3 = 2 -> Entry(pair + 1) \div 16]

\* A fault: the entries of odd clusters are taken from the low bits as well.
NextClusterLow(kind, fat, cluster) ==
    LET fat_offset == IF kind = "fat12" THEN cluster + cluster \div 2 ELSE cluster * 2
        table_value == fat[fat_offset] + 256 * fat[fat_offset + 1]
    IN  IF kind = "fat16" THEN table_value ELSE table_value % 4096

\* fat12_next_cluster and fat16_next_cluster.
next_cluster(kind, fat, cluster) ==
    LET fat_offset == IF kind = "fat12" THEN cluster + cluster \div 2 ELSE cluster * 2
        table_value == fat[fat_offset] + 256 * fat[fat_offset + 1]
    IN  CASE kind = "fat16" -> table_value
          [] kind = "fat12" /\ cluster % 2 = 1 -> table_value \div 16
          [] kind = "fat12" /\ cluster % 2 = 0 -> table_value % 4096

\* The clusters from the first one on, n further ones; what ends the chain stays.
Chain(kind, fat, first, n) ==
    LET at[k \in 0 .. n] ==
            IF k = 0 THEN first
            ELSE IF at[k - 1] >= End(kind) THEN at[k - 1] ELSE next_cluster(kind, fat, at[k - 1])
    IN  at

\* Clusters are skipped up to the offset, then read, one sector of each, until the
\* chain ends.
fat_read(kind, fat, node, count, offset) ==
    LET n == Clip(node.size, count, offset)
        skipped == offset \div BS
        last == skipped + (n + BS - 1) \div BS
        chain == Chain(kind, fat, node.blocks[1], last)
        length == Min({k \in 0 .. last : k = last \/ chain[k] >= End(kind)})
        sectors == [k \in 1 .. length |-> (chain[k - 1] - 2) * SPC + DATA]
    IN  IF n = 0 THEN <<>> ELSE Chunks(SubSeq(sectors, skipped + 1, length), n, offset % BS)

\* The pointers of an indirect block, and the indirect blocks of a file that point to
\* its blocks.
Pointers == BS \div PTR
IndirectBlocks == 1 + Pointers + Pointers * Pointers

\* ext2: a block that a sparse file does not have is a pointer of 0, which ends the
\* loop that meets it.
Hole == 0
BeforeHole(list) ==
    SubSeq(list, 1, Min({k \in 1 .. Len(list) : list[k] = Hole} \cup {Len(list) + 1}) - 1)

\* The k-th indirect block, in the order in which they are read, points to the blocks of
\* the file from DIRECT + k * Pointers on; it is there when one of them is.
Table(node, k) ==
    LET first == DIRECT + k * Pointers
    IN  SubSeq(node.blocks, first + 1, Least(first + Pointers, Len(node.blocks)))
Present(node, k) == \E j \in 1 .. Len(Table(node, k)) : Table(node, k)[j] # Hole

\* The block that points to it: the inode (-1), the doubly indirect block (0), or one of
\* those of the triply indirect block.  The loops get to it when those before it in that
\* block are there and, below the triply indirect block, the blocks before that one.
Parent(k) == (k - 1) \div Pointers
Visited(node, k) ==
    /\ \A j \in 0 .. k : Parent(j) = Parent(k) => Present(node, j)
    /\ \A j \in Pointers + 1 .. k : \E i \in 0 .. IndirectBlocks - 1 : Parent(i) = Parent(j) /\ Present(node, i)

ext2_read_singly_indirect_block_pointer(node, k, count, offset) ==
    LET table == Table(node, k)
        start == (offset \div BS) \div PTR
    IN  Chunks(BeforeHole(SubSeq(table, start + 1, Len(table))), count, offset % BS)

\* The direct blocks and, while bytes are missing, the blocks of the singly, doubly and
\* triply indirect pointers.
ext2_read(node, count, offset) ==
    LET n == Clip(node.size, count, offset)
        direct == SubSeq(node.blocks, offset \div BS + 1, Least(DIRECT, Len(node.blocks)))
        More(read, k) ==
            IF Len(read) = n \/ ~Visited(node, k) THEN read
            ELSE read \o ext2_read_singly_indirect_block_pointer(
                             node, k, n - Len(read),
                             IF offset < Len(read) THEN 0 ELSE offset - Len(read))
        read[k \in 0 .. IndirectBlocks] ==
            IF k = 0 THEN Chunks(BeforeHole(direct), n, offset % BS) ELSE More(read[k - 1], k - 1)
    IN  read[IndirectBlocks]

\* Where the inode of a node lies on an ext2 volume: every group has its table,
\* whole inodes to a block, inodes_per_group (ipg) of them; inodes are numbered
\* from 1 on.
InodePlace(vol, x) ==
    LET k == (vol.nodes[x].ino - 1) % vol.ipg
        group == (vol.nodes[x].ino - 1) \div vol.ipg
    IN  <<vol.bgd[group + 1] + k \div (BS \div INODE), INODE * (k % (BS \div INODE))>>

\* The block of the inode table of a group: the descriptors start in the block
\* after the superblock's, and one block of them is read.
ext2_read_bgd(vol, index) == vol.bgd[index + 1]

\* The inode a number stands for; "none" when no inode in use lies there.  When the
\* descriptor cannot be read, which nobody looks at, some other block is taken for the
\* inode table: see Lost in module Files.
ext2_read_inode(vol, index) ==
    LET inode_index == (index - 1) % vol.ipg
        place == <<ext2_read_bgd(vol, (index - 1) \div vol.ipg) + (inode_index * INODE) \div BS,
                   (inode_index * INODE) % BS>>
        there == {x \in DOMAIN vol.nodes : InodePlace(vol, x) = place}
    IN  IF there = {} THEN "none" ELSE CHOOSE x \in there : TRUE

Fat(vol) == vol.kind \in {"fat12", "fat16"}

\* The read function of the volume's file system.
fs_read(vol, fat, node, count, offset) ==
    CASE Fat(vol) -> fat_read(vol.kind, fat, node, count, offset)
      [] vol.kind = "ext2" -> ext2_read(node, count, offset)
      [] vol.kind = "iso9660" -> iso9660_read(node, count, offset)

\* Where the disk holds the byte at a position of a file.
Where(vol, node, position) ==
    IF Fat(vol)
    THEN LET cluster == node.blocks[position \div (BS * SPC) + 1]
         IN  <<(cluster - 2) * SPC + DATA + ((position \div BS) % SPC), position % BS>>
    ELSE <<node.blocks[position \div BS + 1], position % BS>>

-----------------------------------------------------------------------------
(***************************************************************************)
(* The entries of a directory.  A slot is an entry, is free, or holds what *)
(* a listing should skip: a volume label, a piece of a long name, a        *)
(* deleted file.                                                           *)
(***************************************************************************)

Entry == "entry"

\* What st_ino tells of a node: the first cluster, the inode, the extent.
Ino(vol, x) ==
    LET node == vol.nodes[x]
    IN  IF vol.kind = "ext2" THEN node.ino ELSE IF node.blocks = <<>> THEN 0 ELSE node.blocks[1]

Named(name, x) == [kind |-> Entry, name |-> name, node |-> x]

\* The slots a listing returns, in their order.
Kept(slots, I) ==
    LET upto[i \in 0 .. Len(slots)] ==
            IF i = 0 THEN <<>> ELSE IF i \in I THEN Append(upto[i - 1], slots[i]) ELSE upto[i - 1]
    IN  upto[Len(slots)]

\* The first slot of the block that has the i-th, and whether that is the first of its cluster.
BlockBegin(i) == ((i - 1) \div PerBlock) * PerBlock + 1
FirstSector(i) == ((i - 1) \div PerBlock) % SPC = 0
NoFree(slots, first, i) == \A j \in first .. i : slots[j].kind # "free"

\* A fault: a free slot ends the directory, not just its sector.
FatReaddirStops(vol, x) ==
    LET slots == vol.nodes[x].slots
    IN  IF x = Root
        THEN <<Named(".", x), Named("..", x)>> \o
             Kept(slots, {i \in 1 .. Len(slots) : slots[i].kind \notin {"free", "label"}})
        ELSE Kept(slots, {i \in 1 .. Len(slots) : FirstSector(i) /\ NoFree(slots, 1, i)})

\* What fat_readdir returns for the indices 0, 1, ... until -ENOENT: in the
\* root ".", ".." and every slot that is in use and no label, in another
\* directory the slots before a free one in the first sector of every cluster.
fat_readdir(vol, x) ==
    LET slots == vol.nodes[x].slots
    IN  IF x = Root
        THEN <<Named(".", x), Named("..", x)>> \o
             Kept(slots, {i \in 1 .. Len(slots) : slots[i].kind \notin {"free", "label"}})
        ELSE Kept(slots, {i \in 1 .. Len(slots) : FirstSector(i) /\ NoFree(slots, BlockBegin(i), i)})

\* The block of a directory that ext2_readdir searches in its round b: two blocks are read
\* from the b-th one on, and the first that comes is searched.  0: nothing was read.
FirstBlock(node, data) ==
    IF data = <<>> THEN 0 ELSE CHOOSE n \in 1 .. Len(node.blocks) : node.blocks[n] = data[1][1]
BlockRead(node, b) == FirstBlock(node, ext2_read(node, 2 * BS, b * BS))
SlotsOf(node, n) == SubSeq(node.slots, (n - 1) * PerBlock + 1, Least(n * PerBlock, Len(node.slots)))
Searched(node) ==
    LET rounds == Min({b \in 0 .. Len(node.blocks) : BlockRead(node, b) = 0})
        upto[b \in 0 .. rounds] == IF b = 0 THEN <<>> ELSE upto[b - 1] \o SlotsOf(node, BlockRead(node, b - 1))
    IN  upto[rounds]

\* An inode number of 0 ends the directory; the inode of every other entry is
\* looked up by its number.
LookedUp(vol, slots) ==
    LET found == [i \in 1 .. Len(slots) |->
                     [slots[i] EXCEPT !.node = IF @ = "none" THEN @ ELSE ext2_read_inode(vol, vol.nodes[@].ino)]]
    IN  Kept(found, {i \in 1 .. Len(slots) : NoFree(slots, 1, i)})
ext2_readdir(vol, x) == LookedUp(vol, Searched(vol.nodes[x]))

\* The first block only; the slot that ends it is returned as an entry too,
\* with an empty name, because only the slots before it are tested.
iso9660_readdir(vol, x) ==
    LET slots == vol.nodes[x].slots
    IN  Append(Kept(slots, {i \in 1 .. Len(slots) : i <= PerBlock /\ NoFree(slots, 1, i)}), Named("", "none"))

fs_readdir(vol, x) ==
    CASE Fat(vol) -> fat_readdir(vol, x)
      [] vol.kind = "ext2" -> ext2_readdir(vol, x)
      [] vol.kind = "iso9660" -> iso9660_readdir(vol, x)

\* What a listing returns when the disk fails: below the root of a FAT, and on
\* ext2 when the directory itself cannot be read, the same as at its end.
Failures(vol, x) ==
    CASE Fat(vol) -> {IF x = Root THEN "EIO" ELSE "ENOENT"}
      [] vol.kind = "ext2" -> {"EIO", "ENOENT"}
      [] vol.kind = "iso9660" -> {"EIO"}

\* The entries the directory has.
Entries(vol, x) ==
    LET slots == vol.nodes[x].slots
    IN  (IF Fat(vol) /\ x = Root THEN <<Named(".", x), Named("..", x)>> ELSE <<>>) \o
        Kept(slots, {i \in 1 .. Len(slots) : slots[i].kind = Entry})

\* The directories whose listing is not disturbed by what a listing should
\* skip, and which it reaches whole: on FAT no deleted file and, outside the root, no
\* label and nothing past the first sector of a cluster; on ext2 no unused slot and
\* direct blocks only; on ISO 9660 one block.
Plain(vol, x) ==
    LET slots == vol.nodes[x].slots
        Has(kind) == \E i \in 1 .. Len(slots) : slots[i].kind = kind
    IN  CASE Fat(vol) -> ~Has("deleted") /\ (x = Root \/ (~Has("label") /\ (SPC = 1 \/ Len(slots) <= PerBlock)))
          [] vol.kind = "ext2" -> ~Has("free") /\ Len(vol.nodes[x].blocks) <= DIRECT
          [] vol.kind = "iso9660" -> Len(slots) <= PerBlock

-----------------------------------------------------------------------------
(***************************************************************************)
(* Volumes as the programs that make them leave them.                      *)
(***************************************************************************)

Slots == [kind : {Entry, "free", "label", "deleted"}, name : STRING, node : STRING]
Nodes == [type : {"reg", "dir"}, ino : Nat, size : Nat, blocks : Seq(Nat), slots : Seq(Slots)]
Whole(node) == \A k \in 1 .. Len(node.blocks) : node.blocks[k] # Hole

\* Below a FAT's root, and on ISO 9660, only free slots follow a free one in its block.
FreeLast(vol, x) ==
    LET slots == vol.nodes[x].slots
    IN  \A i, j \in 1 .. Len(slots) :
            i < j /\ slots[i].kind = "free" /\ BlockBegin(i) = BlockBegin(j) => slots[j].kind = "free"

DirectoryBlocks(node) ==
    /\ Whole(node) /\ node.size = BS * Len(node.blocks)
    /\ Len(node.slots) <= PerBlock * Len(node.blocks)
    /\ \A j, k \in 1 .. Len(node.blocks) : node.blocks[j] = node.blocks[k] => j = k

WellFormed(vol) ==
    /\ vol.kind \in {"fat12", "fat16", "ext2", "iso9660"}
    /\ vol.nodes \in [DOMAIN vol.nodes -> Nodes]
    /\ Root \in DOMAIN vol.nodes /\ vol.nodes[Root].type = "dir"
    /\ {"none", "no", "unset"} \cap DOMAIN vol.nodes = {}
    /\ \A x \in DOMAIN vol.nodes :
          LET node == vol.nodes[x]
          IN  /\ node.size <= BS * Len(node.blocks) * (IF Fat(vol) THEN SPC ELSE 1) \/ node.type = "dir"
              /\ \A i \in 1 .. Len(node.slots) :
                    /\ IF node.slots[i].kind = Entry THEN node.slots[i].node \in DOMAIN vol.nodes
                       ELSE node.slots[i].node = "none"
                    /\ node.slots[i].kind \in {Entry, "free"} \/ Fat(vol)
              /\ vol.kind = "ext2" \/ (Fat(vol) /\ x = Root) \/ FreeLast(vol, x)
    \* the clusters of a FAT belong to one file each
    /\ Fat(vol) =>
          /\ vol.clusters \in Nat /\ vol.clusters + 1 < End(vol.kind)
          /\ \A x \in DOMAIN vol.nodes : \A j \in 1 .. Len(vol.nodes[x].blocks) :
                /\ vol.nodes[x].blocks[j] \in 2 .. vol.clusters + 1
                /\ \A y \in DOMAIN vol.nodes : \A k \in 1 .. Len(vol.nodes[y].blocks) :
                      vol.nodes[x].blocks[j] = vol.nodes[y].blocks[k] => x = y /\ j = k
    \* the inodes of an ext2 have places of their own, the root's is the second; a
    \* directory has whole blocks, one for every PerBlock slots
    /\ vol.kind = "ext2" =>
          /\ vol.ipg \in Nat \ {0} /\ vol.nodes[Root].ino = 2
          /\ \A x \in DOMAIN vol.nodes :
                /\ vol.nodes[x].ino # 0
                /\ vol.nodes[x].type = "dir" => DirectoryBlocks(vol.nodes[x])
                /\ \A y \in DOMAIN vol.nodes : InodePlace(vol, x) = InodePlace(vol, y) => x = y
    \* a file of an ISO 9660 is one extent
    /\ vol.kind = "iso9660" =>
          \A x \in DOMAIN vol.nodes : \A k \in 1 .. Len(vol.nodes[x].blocks) :
              vol.nodes[x].blocks[k] = vol.nodes[x].blocks[1] + k - 1
    \* directories are told apart by their inode numbers
    /\ \A x, y \in DOMAIN vol.nodes :
          vol.nodes[x].type = "dir" /\ vol.nodes[y].type = "dir" /\ Ino(vol, x) = Ino(vol, y) => x = y
=============================================================================
