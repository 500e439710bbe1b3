---- MODULE MCStorage ----
\* A drive of six sectors: a game in two parts, the second one first, and a
\* virtual memory card of one erase block between them.
EXTENDS Storage

MCLayout == [iso |-> <<5, 6, 1, 2>>, vmc |-> <<3, 4>>]
MCGames ==
    <<[name |-> "other", valid |-> TRUE,
       parts |-> <<[part_offset |-> 0, data_start |-> 3, part_size |-> 4]>>],
      [name |-> "iso", valid |-> FALSE,
       parts |-> <<[part_offset |-> 0, data_start |-> 1, part_size |-> 8]>>],
      [name |-> "iso", valid |-> TRUE,
       parts |-> <<[part_offset |-> 0, data_start |-> 5, part_size |-> 4],
                   [part_offset |-> 1, data_start |-> 1, part_size |-> 4]>>]>>
MCPartition == [sector |-> 3, count |-> 2]

\* One round of the port and a bit, with some left over; and less.
MCSizes == {[elements |-> 3, pio |-> 1], [elements |-> 1, pio |-> 0]}

\* Two parts in one read; and less than a part.
MCRuns == {[sector |-> 1, count |-> 3], [sector |-> 0, count |-> 1]}

History(via, open, ops, n) ==
    [via |-> via, open |-> open, ops |-> ops, calls |-> n.calls, sessions |-> n.sessions,
     pads |-> n.pads, faults |-> n.faults, unplugs |-> n.unplugs]
N(calls, sessions, pads, faults, unplugs) ==
    [calls |-> calls, sessions |-> sessions, pads |-> pads, faults |-> faults,
     unplugs |-> unplugs]

\* The menu makes any one call; it opens, reads, writes and closes; a game
\* reads its disc while its card is used, over a card emulator and on a drive;
\* the loader looks up the files.
MCHistories ==
    {History("manager", <<"iso">>, DOMAIN mmce_fio_ops \union DOMAIN mmce_fs_devctl,
             N(1, 0, 1, 1, 0)),
     History("manager", <<>>, {"mmce_fs_open", "mmce_fs_read", "mmce_fs_write",
                               "mmce_fs_lseek", "mmce_fs_close"}, N(3, 0, 0, 1, 0)),
     History("game", <<"iso", "vmc">>, DOMAIN exp_mmcedrv, N(2, 0, 0, 1, 0)),
     History("game", <<"iso", "vmc">>, {"mmcedrv_read_sector"},
             N(1, 1, 0, 1, 0)),
     History("game", <<"iso", "vmc">>, {}, N(0, 2, 0, 1, 0)),
     History("bd", <<>>, {"fhi_read"}, N(1, 1, 0, 1, 1)),
     History("bd", <<>>, {}, N(0, 2, 0, 1, 1)),
     History("hdl", <<>>, {"hdl_open", "hdl_lseek64", "hdl_read", "bdfs_open", "bdfs_lseek64",
                           "bdfs_read"}, N(4, 0, 0, 1, 0))}
====
