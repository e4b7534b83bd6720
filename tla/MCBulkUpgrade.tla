---------------------------- MODULE MCBulkUpgrade ---------------------------
(* BulkUpgrade with memory for three packets.  An all-in-one file is the    *)
(* boot loader, the romfile and a tclinux of one packet each.               *)
EXTENDS BulkUpgrade

MCFile(n, k, l) == [name |-> n, kind |-> k, len |-> l, intact |-> TRUE, size |-> "fits"]
Over(f) == [f EXCEPT !.size = "over"]

MCFiles == {MCFile("linux A", "bin", 3), MCFile("linux B", "bin", 2),
            Over(MCFile("linux big", "bin", 3)),
            [MCFile("linux bad", "bin", 2) EXCEPT !.intact = FALSE],
            MCFile("all in one", "aio", 3), Over(MCFile("all too big", "aio", 3)),
            MCFile("text", "text", 1),
            MCFile("boot loader", "boot", 1), Over(MCFile("boot big", "boot", 2)),
            [MCFile("boot small", "boot", 1) EXCEPT !.size = "short"],
            MCFile("romfile", "romfile", 2), Over(MCFile("romfile big", "romfile", 2)),
            MCFile("rom-d", "romd", 2), MCFile("no romfile", "clear romfile", 1)}
=============================================================================
