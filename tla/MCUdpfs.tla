---- MODULE MCUdpfs ----
\* A server with a disc image, a card image, a compressed image and a
\* directory; the disc image is its block device as well.
EXTENDS Udpfs

MCPaths == {"disc", "card", "chd", "chd.iso", "dir", "dir/f"}
MCParent == [p \in MCPaths |-> IF p = "dir/f" THEN "dir" ELSE ""]
MCBacking == [p \in {"chd.iso"} |-> "chd"]
\* Inode 3 unpacks to a sector and a half.
MCUnpacked == [i \in 1 .. 4 |-> IF i = 3 THEN <<31, 32, 33>> ELSE <<>>]
MCTree == [p \in MCPaths |->
             CASE p = "disc" -> [kind |-> "file", ino |-> 1]
               [] p = "card" -> [kind |-> "file", ino |-> 2]
               [] p = "chd" -> [kind |-> "file", ino |-> 3]
               [] p = "dir" -> [kind |-> "dir", ino |-> 0]
               [] OTHER -> Nothing]
MCData == <<<<1, 2, 3, 4>>, <<5, 6, 7, 8>>, <<9>>, <<>>>>

New(n) == [i \in 1 .. n |-> 20 + i]
Open(path, flags) == [op |-> "udpfs_open", path |-> path, flags |-> flags]
OnName(op, path) == [op |-> op, path |-> path]
On(op, fd) == [op |-> op, fd |-> fd]
Part(op, fd, sector, count) ==
    [op |-> op, fd |-> fd, sector |-> sector, count |-> count, data |-> New(2 * count)]

MCInputs ==
    {Open("disc", {"RD"}), Open("card", {"RD", "WR"}), Open("chd.iso", {"RD"}),
     Open("dir/f", {"WR", "CREAT", "TRUNC"}), Open("card", {"WR", "CREAT", "APPEND"}),
     Open("chd.iso", {"RD", "WR"})}
    \union {OnName("udpfs_dopen", p) : p \in {"", "dir"}}
    \union {OnName("udpfs_getstat", p) : p \in {"disc", "chd.iso", "dir", "dir/f"}}
    \union {OnName("udpfs_mkdir", "dir"), OnName("udpfs_rmdir", "dir"),
            OnName("udpfs_remove", "disc"), OnName("udpfs_remove", "dir/f")}
    \union {On(op, fd) : op \in Closes \union {"udpfs_dread"}, fd \in Fds}
    \union {[op |-> "udpfs_read", fd |-> fd, size |-> n] : fd \in Fds, n \in {0, 2, 4}}
    \union {[op |-> "udpfs_write", fd |-> fd, size |-> n, data |-> New(n)] :
               fd \in Fds, n \in {1, 4}}
    \union {[op |-> "udpfs_lseek64", fd |-> fd, offset |-> to[1], whence |-> to[2]] :
               fd \in Fds, to \in {<<1, "SET">>, <<-1, "CUR">>, <<2, "END">>}}
    \union {Part("fhi_write", fd, 0, 2) : fd \in Fds}
    \union {Part("fhi_read", 1, 0, 2), Part("fhi_read", 2, 1, 1)}
    \union {Part(op, 1, 0, 2) : op \in BdCalls}
    \union {Part("udpfs_bd_read", 1, 1, 2), Part("udpfs_bd_read", 1, 2, 1)}

Stage(as, ops, calls) == [as |-> as, ops |-> ops, calls |-> calls]
History(plan, faults, read_only_) ==
    [plan |-> plan, faults |-> faults, read_only |-> read_only_]

MCHistories ==
    {\* files are opened, read and closed
     History(<<Stage("ioman", {"udpfs_open", "udpfs_close", "udpfs_read", "udpfs_lseek64"}, 3)>>,
             1, FALSE),
     History(<<Stage("ioman", {"udpfs_open", "udpfs_write", "udpfs_lseek64", "udpfs_read"}, 3)>>,
             1, FALSE),
     \* a directory is listed while it changes
     History(<<Stage("ioman", {"udpfs_dopen", "udpfs_dread", "udpfs_dclose"} \union OnNames, 4)>>,
             0, FALSE),
     \* a write is cut short by a reset, and then another is made
     History(<<Stage("ioman", {"udpfs_open", "udpfs_write"}, 2),
               Stage("ioman", {"udpfs_open", "udpfs_write", "udpfs_close"}, 3)>>, 1, FALSE),
     \* the loader opens, the game reads and writes
     History(<<Stage("ioman", {"udpfs_open"}, 2), Stage("fhi", FhiCalls, 2)>>,
             1, FALSE),
     History(<<Stage("bd", BdCalls, 2)>>, 1, FALSE),
     \* a server that may not write
     History(<<Stage("ioman", {"udpfs_open", "udpfs_remove"}, 1), Stage("bd", BdCalls, 2)>>, 0, TRUE)}
====
