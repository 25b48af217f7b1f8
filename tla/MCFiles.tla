------------------------------ MODULE MCFiles ------------------------------
EXTENDS Files

File(ino, size, blocks) == [type |-> "reg", ino |-> ino, size |-> size, blocks |-> blocks, slots |-> <<>>]
Dir(ino, blocks, slots) == [type |-> "dir", ino |-> ino, size |-> BS * Len(blocks), blocks |-> blocks, slots |-> slots]
Slot(kind) == [kind |-> kind, name |-> kind, node |-> "none"]
Self(x, up) == <<Named(".", x), Named("..", up)>>
Tree(root, d, dev, f, g) ==
    [x \in {"root", "d", "dev", "f", "g"} |->
        CASE x = "root" -> root [] x = "d" -> d [] x = "dev" -> dev [] x = "f" -> f [] x = "g" -> g]
With(tree, name, node) == [x \in DOMAIN tree \cup {name} |-> IF x = name THEN node ELSE tree[x]]

\* A label and a free slot in the root, a directory of two sectors with a
\* free slot in the first, a file over odd and even clusters out of order.
FatVolume(kind) ==
    [kind |-> kind, clusters |-> 6,
     nodes |-> Tree(
        Dir(0, <<>>, <<Slot("label"), Named("d", "d"), Slot("free"), Named("DEV", "dev"), Named("f", "f")>>),
        Dir(0, <<2, 5>>, Self("d", Root) \o <<Slot("free"), Slot("free"), Slot("free"), Named("g", "g")>>),
        Dir(0, <<3>>, Self("dev", Root)),
        File(0, 11, <<4, 7, 6>>),
        File(0, 0, <<>>))]

\* A file that needs its triply indirect blocks, and a sparse one, with holes where a
\* pointer of every kind is followed; inodes in three groups, at both ends of an inode
\* table and of its blocks; a directory of all direct blocks, and one of more.
Ext2Volume ==
    [kind |-> "ext2", ipg |-> 5, bgd |-> <<60, 50, 70>>,
     nodes |-> With(Tree(
        Dir(2, <<10, 11>>, Self(Root, Root) \o
                           <<Named("d", "d"), Named("dev", "dev"), Named("f", "f"), Named("long", "long")>>),
        Dir(5, <<12>>, Self("d", Root) \o <<Named("g", "g")>>),
        Dir(6, <<13>>, Self("dev", Root)),
        File(8, 38, <<30, 20, 31, 21, 32, 22, 33, 23, 34, 24>>),
        File(11, 54, <<40, 0, 41, 0, 0, 0, 42, 43, 0, 0, 44, 45, 46, 47>>)),
        "long",
        Dir(9, <<14, 15, 16>>, Self("long", Root) \o [k \in 1 .. 8 |-> Named("x", "f")] \o <<Named("g", "g")>>))]

\* A directory d of two blocks, of which the second is never looked at.
IsoVolume ==
    [kind |-> "iso9660", descriptors |-> <<"boot", "primary", "terminator">>,
     nodes |-> Tree(
        Dir(0, <<10, 11>>, Self(Root, Root) \o <<Named("d", "d"), Named("f", "f"), Slot("free")>>),
        Dir(0, <<12, 13>>, Self("d", Root) \o <<Slot("free"), Slot("free"), Slot("free"), Named("g", "g")>>),
        Dir(0, <<14>>, Self("dev", Root)),
        File(0, 7, <<20, 21>>),
        File(0, 3, <<30>>))]

MCVolumes == {FatVolume("fat12"), FatVolume("fat16"), Ext2Volume, IsoVolume}
MCUpcase == [n \in {"d", "f", "g", "dev", "proc", "tmp", "D", "DEV", ".", "..", "", "x", "label", "long"} |->
                CASE n = "d" -> "D" [] n = "dev" -> "DEV" [] OTHER -> n]
MCPaths == {<<>>, <<"f">>, <<"d">>, <<"D", "g">>, <<"dev">>, <<"dev", "x">>, <<"d", "..", "f">>, <<"f", "d">>,
            <<"d", "g">>, <<"long", "g">>}
MCDevices == [n \in {"tty1", "tty9", "fb0"} |->
                CASE n = "tty1" -> [dev |-> "tty", n |-> 1]
                  [] n = "tty9" -> [dev |-> "tty", n |-> 9]
                  [] n = "fb0" -> [dev |-> "fb", n |-> 0]]

MCSeeks == {<<"SEEK_SET", 4>>, <<"SEEK_CUR", 4>>, <<"SEEK_END", 0>>}

\* Nothing reads the working directory, nor what a closed descriptor stood for;
\* nor what was read of one that went astray; of the last call only a missing path is
\* looked at.
View ==
    <<vol.kind, cached, rootdir, to_mount, mounts, opens, last.ret = "wild",
      IF last.call = "open" /\ last.ret = "ENOENT" /\ ~last.failed THEN last.path ELSE <<>>,
      [i \in DOMAIN fd |-> IF fd[i].used THEN fd[i]
                           ELSE [fd[i] EXCEPT !.type = "none", !.node = "none", !.offset = 0]],
      [i \in DOMAIN seen |-> IF seen[i].astray THEN [seen[i] EXCEPT !.from = 0, !.got = <<>>, !.ended = FALSE]
                             ELSE seen[i]]>>
=============================================================================
