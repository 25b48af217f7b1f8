------------------------------- MODULE MCDisk -------------------------------
EXTENDS Disk

Place4(a, b, c, d) == [p \in 0 .. 3 |-> CASE p = 0 -> a [] p = 1 -> b [] p = 2 -> c [] p = 3 -> d]

\* A disk before a disc, a disc before two disks with a gap, an empty drive
\* between them, and a machine with only an empty drive.
MCWirings == {Place4("ata", "none", "atapi", "none"),
              Place4("atapi", "none", "ata", "ata"),
              Place4("empty", "ata", "none", "atapi"),
              Place4("none", "none", "empty", "none")}
=============================================================================
