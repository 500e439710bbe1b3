# LUNA: a TLA+ model of the loader, its drivers and its servers

LUNA is a PlayStation 2 game loader. *nhddl* is the launcher: it starts drivers, finds the games on the
drives, shows them in four views and hands one over. *neutrino* takes over: its loader puts together the
modules for the game, resets the IO processor (IOP) and starts the game, whose drive, memory cards and hard
disk are from then on emulations that get their data from a disk, a memory card slot or a PC.

These modules model the logic of both: the user interface and what it saves, the start of the launcher and
of the game, and the drivers and protocols on the IOP, which run concurrently. TLC checks them on small
instances, TLAPS proves for all values of the constants what matters most about the transport, the files of
UDPFS, the block device, the drive and its streaming, the SIO2 port, and what the library shows, launches and saves.
`PROJECT.json` maps every definition to the lines it models.

To run: `tlc -config <run>.cfg <module>` with the pairs of section 3; `tlapm <module>_proofs.tla`.

## 1. Inventory

### 1.1 The console's life, and who talks to whom

1. nhddl's `main` loads IOP modules by the modes of its options, maps devices, walks them for titles beside
   a thread that draws the splash screen, and enters the library (`uiLoop`). **Startup** over **TitleScan.**
2. The library draws a frame, reads the pad, loads covers one a frame, saves the view, the title and the
   favourites. **Library** over **Navigation, CoverCache, GridPages, SavedState.**
3. The options of a title are edited and saved. **TitleOptions.**
4. A title is launched: memory card emulators change their card, arguments are put together, `neutrino.elf`
   is started. **TitleOptions** (`LaunchStep`).
5. neutrino's loader reads its tables and the command line, makes the list of modules, resets the IOP, finds
   the game's ID and its own table, and starts it. **Loader.**
6. Under the game stays the EE core: it loads each program of the game in EELOAD's place, takes over the IOP
   resets that programs ask for, so that neutrino's modules are there again afterwards, and watches the pad for
   the combination that leaves the game for the launcher. **EeCore.** 1 and 3-6 together, again and again, are
   **Console**.
7. While nhddl and the loader run, files come from drives or, over the SIO2 port, from a memory card emulator,
   or, over Ethernet, from a PC. In the game the emulated drive (cdvdman, cdvdfsv) and the virtual memory
   card (mc_emu) read them through a *file handle interface* (fhi): fhi_bd over a block device, mmcedrv,
   or udpfs_fhi. **Storage** (SIO2 and drives), **Udpfs** (files of a PC) over **Udprdma** (its transport),
   **Udpbd** (a PC's block device), **CdvdStream** and **CdvdServer** (the drive).

### 1.2 Components

| Component | State | Operations | What is hard | Correct when |
|---|---|---|---|---|
| UDPRDMA transport, client (`udprdma.c`) and server (`udpfs_server.py`) | sequence numbers, receive buffer, tx buffer, event flag, retries | discover, send, recv, `_ist`, alarm; handle data, window and final ACK | loss both ways, racing retries, wrap-around, a reset client against a server that keeps state | requests in order, at most once; answers whole; window kept; nobody waits for ever |
| UDPFS, console (`udpfs_core/ioman/fhi/bd`) and server handlers | handles at both ends, positions, write under way | open, close, read, write, lseek, dread, getstat, mkdir, ..., sectors; one handler each | resets between stages, a connection that breaks mid-call, two game threads, a server started anew | calls do what they would on local files; handles match; no half write |
| UDPBD (`udpbd.c`) | command number, event flag, alarm, receive pointers | init, read, write, isr, time-out | answer against alarm, left-over bits | a count returned means the data is there; one fault does not cost the device |
| Emulated drive and streaming (`cdvdman_emu`) | lock, request, event flag, callback data, alarm; ring buffer, `StIsReading` | `sceCdRead/Sync/Seek/Standby`, read thread, event alarm; `sceCdSt*` | interrupt-level callbacks between any two statements, a DMA beside a read | one read at a time; the stream in order; calls return |
| Drive files and RPC server (`searchfile.c`, `ioops.c`, `cdvdfsv`) | `cdrom_sema`, the search's semaphore, two shared buffers, directories of both layers, fds, per-thread calls | EE reads and chains, IOP reads, searches, `cdrom` device, devctl, S commands, break, power button, shutdown | four threads, the game and its callback on one drive; three locks; power off in the middle | reads arrive to the byte; files as on the disc; off only at rest; all calls return |
| SIO2 port and MMCE files (`sio2man_hook.c`, `mmce_sio2.c`, `mmce_fs.c`, `mmce_cmds.c`, `mmcedrv.c`) | two semaphores, interrupt handler, event flag, alarm; handles | hooked sio2man calls, transfers, every file and card call | time-out against completion, lock taken in one call and given back in another, cards that stop half way | a transfer ends at its owner; counts are true; calls return |
| Virtual memory card (`mc_emu`) | page, offset, spare area, result | packets of read, write, erase commands | pieces over several packets, errors in between, port given back meanwhile | a page read is the page written |
| File handles over drives (`fhi_bd`, `hdlfs`, `bdfs`, `fhi_config.c`) | fragment lists, one semaphore that is also "the drive is there" | open, seek, read, list; connect, disconnect | unplugging under a reader | fragments lead to the file's own sectors |
| Cover cache and grid buffers (`art_cache.c`, `gui.c`) | ten slots, two full textures; three pages | load, slide, match, residency, release | allocations that fail, moves field by field, prefetch | never three full covers; a place shows its own title |
| Library (`gui.c` `uiLoop`, `navigation.c`) | view, selection, flows, shoulder machine, favourites filter | frames, every button | button at any frame of an animation | what is launched is what was highlighted |
| Saved state (`view_state.c`, `options.c`, `favorites.c`) | temporary and final file | write, remove, rename, load | power cut between any two | old record or new one |
| Titles (`iso.c`, `title_id.c`, `hdl.c`, `target.c`) | list, cache file in three places | walk, match, identify, write | images that come and go, cuts, faults | the list is the drive's |
| Options (`options.c`, `args.c`, `gui.c`) | global and title's lists, files | merge, edit, save line by line | an argument that is off hides the global one | saved is what is loaded |
| Start-up (`main.c`, `init.c`, `devices.c`, splash) | modules, device map, two semaphores | `main`, `forwardBoot`, splash thread | two threads, every mode | ends in the library, an image or an error |
| Launch and loader (`neutrino.c`, `mmce.c`, loader `main.c`, `modlist.c`, `xparam.c`, ...) | settings, module list, emulated files, xparams | as 4 and 5 above | order of tables, lists and reset; leftovers of the game before | the game chosen, with its settings |
| EE core (`ee_core/src/main.c`, `iopmgr.c`, `asm.S`, `padhook.c`, `luna_igr_rpc.c`) | state of the IOP, what was reset and by whom, two hook counters, the pad hook | start of a program, a reset in each of the modes, register writes and polls of the game, `Install_PadOpen_Hook`, IGR thread and handler | the game goes on with a reset that is done; programs that start one another; the combination at any moment | each program has the IOP it asked for, and its pad is watched |

The hazards, with their lines and the properties that look at them, are listed in `PROJECT.json`.

## 2. Modules

| Module | Models | Extends or uses |
|---|---|---|
| `UdprdmaNet` | packets, sequence arithmetic, the lossy wire, the program of messages | – |
| `UdprdmaClient`, `UdprdmaServer` | the two ends of the transport | `UdprdmaNet` |
| `UdprdmaReliable` | abstract: in-order, at-most-once execution; answers of executed messages | – |
| `Udprdma` | composition, timers, restart, refinement of `UdprdmaReliable` | client, server |
| `UdpfsHandlers` | the server's handlers, handle table, write under way | – |
| `LocalFiles` | abstract: what a call would do on local files (`due`) | `UdpfsHandlers` |
| `Udpfs` | the console's calls in its stages; composition and properties | `LocalFiles` |
| `Udpbd` | UDPBD client, an external server and a lossy network | – |
| `CdvdRead` | lock, request, read thread | – |
| `CdvdStream` | event, callbacks, streaming, the game's calls, refinement of the queue | `CdvdRead` |
| `CdvdStreamQueue` | abstract: a bounded queue filled by banks, emptied from the front | – |
| `CdvdFiles`, `CdvdFsv`, `CdvdServer` | searches and the device `cdrom`; cdvdfsv's threads; a running game | `CdvdRead` |
| `Sio2`, `MmceFiles`, `Fragments`, `McEmu`, `Storage` | the port; card emulator files; files as fragments; the virtual card; all of them at work | in this order |
| `Navigation`, `CoverCache`, `GridPages`, `SavedState`, `Library` | the library screen | in this order |
| `TitleScan`, `Startup` | up to the library: devices, modules, titles | in this order |
| `TitleOptions` | arguments, options and launch | – |
| `Loader` | neutrino's loader: its settings and its course | – |
| `EeCore` | the core under the game, the IOP it resets, the game's programs | `Loader` |
| `Console` | composition of the last six | `Startup`, `TitleOptions`, `EeCore` |
| `MC*` | values of the constants, and the histories (below) | |
| `*_proofs` | theorems; `LibraryViews_proofs` those on the pages of Grid | the module of that name |

**Steps.** A step of a model is what the code does between two points where something else can intervene: a
wait, a release of a lock, a statement that an interrupt may precede. `SendCall`, `SendAcked`, `SendRetry`
are parts of `udprdma_send` cut at `WaitEventFlag`; `FillTest`, `FillArguments`, `FillSubmit` are parts of
`StFillStreamBuffer` because an end-of-read alarm fits between them, and `FillNow` is the same function at
interrupt level, where nothing does. cdvdfsv's threads have one priority and run until they block, so a step
of `CdvdFsv` ends where the code waits for a semaphore or the drive. `uiLoop` is one thread: a step is a
frame ("draw"), its buttons ("input") or a step of a save, where the power may go. In `Console` a step is a
file operation or what the code computes between two of them.

**Operations as functions.** Where a component is sequential its state is one record and its operations are
functions from one record to the next (`CoverCache`, `GridPages`, the settings of `Loader`, the argument
lists of `TitleOptions`, the device map of `Startup`); the actions that call them are in the module that owns the thread.

**Histories.** The large compositions take a constant `Histories`: what each behaviour may ask of the system
(which calls, how many, which keys, what is on the drives) and what may go wrong (faults, power cuts, resets,
unplugging). The initial state picks one; the order and the arguments are TLC's choice. So each mixture is
explored to the end and no mixture multiplies another.

**Mutants.** A definition with the comment "A mutant" is not part of the model: it is a plausible bug, put in
place of the definition after it to show that a property can fail.

**Abstractions.** Contents are the numbers of messages, sectors, units or titles. Sequence numbers count
modulo `SeqMod` (8 for 4096), windows, banks, chunks and lines are constants of a few units. A wire keeps
the order of each direction (one LAN segment). In `Udprdma` an alarm is due when nothing in flight could
answer; `MaxSpurious` may come early all the same. In `Udpfs` an exchange (message and handling) is one step,
which is what `Udprdma` shows of the transport, or a break of the connection. In `Udpbd` a data packet
carries one sector, and nothing of a command outlasts the time in which the numbers come round: its packets have
arrived or are lost (`Fresh`) and the server has given up a write that was cut off (`GivenUp`). Files of options are tuples
of tokens in place of text, and paths have the drive apart. Screens and pixels are left out; a cover is the
title it was made from.

**Assumptions on timing** in `CdvdServer`: the alarm of `cdvdman_cb_event` (delay 0) rings before the device
answers the next read; the test of the lock and the event of a command are one step; the game's file thread
is not above cdvdfsv's (0x51); sceCdInit was called; cold searches (first reads of the volume descriptors)
come from one thread; a history leaves the game in one way, button or in-game reset.

**Assumptions on the kernel and the game** in `EeCore`: the kernel ends threads and interrupt handlers when a program
is started; a game's reset is the sequence of `sceSifResetIop` (BOOTEND, the packet, four registers) and
`sceSifSyncIop`; the IOP takes longer to boot than the EE to clear the flags; games open a pad through their library.

## 3. Runs

| Run (module) | Instance | Shows |
|---|---|---|
| `udprdma_session` (`MCUdprdma`) | ten messages over eight sequence numbers, chunked writes before and after the numbers wrap, an answer longer than the window; 3 losses of any kind, 2 early alarms | `TypeOK`, `InOrderOnce`, `ReplyIntact` (the buffer holds a prefix of one answer, success means all of it), `WindowKept` (never too far ahead, everything missing can be sent again), `ImplementsReliable` |
| `udprdma_restart` (`MCUdprdma`) | a write, then an answer longer than the window; a restart after a complete session; 3 losses, 1 early alarm; fair | `SessionsInOrder`, `Terminates`, `CompletesAgain` (loss of answers alone never breaks a session) |
| `udprdma_stale_ack` (`MCUdprdma`) | one loss | violation, finding 1 |
| `udpfs_files` (`MCUdpfs`) | files of a menu, a loader and a game of two threads, directory, block device, read-only server; 2-4 calls; a lost connection, a reset in the middle, a server started anew | `HandlesMatch`, `CallsDoAsOnLocalFiles`, `OnlyWholeWrites`, `CallsReturn` |
| `udpbd_lossy` (`Udpbd`) | two reads or writes of up to three sectors in blocks of two; a packet lost or not sent, an alarm before the answer; fair | `ClearCallIsDone` (a call sent with no bit left over tells the truth), `OneFaultSurvived`, `CallsReturn` |
| `cdvd_stream` (`MCCdvd`) | two banks of two sectors, five calls of streaming, reading, seeking, waiting; with and without `CDVDMAN_COMPAT_SYNC_READ` | `OneReadAtATime`, `BufferInOrder`, `IsQueue` (refinement of `CdvdStreamQueue`), `CallsReturn` |
| `cdvd_server` (`MCCdvdServer`) | a disc of two layers, aligned and unaligned reads of up to four sectors in chunks, chains, files, searches, devctl, S commands, user reads from the callback, a failing sector, breaks, button and shutdown, in eight histories | `ReadArrives`, `FilesAsOnDisc`, `OffAtRest`, `CallsReturn` |
| `storage` (`MCStorage`) | eight histories: menu and game over a card emulator beside the virtual card and the pads, a drive unplugged and plugged in, HDL and whole-partition files; one fault each | `TransferIsOwn`, `CallsDoWhatTheySay`, `CardKeepsPages`, `CallsReturn` |
| `nhddl_library` (`MCLibrary`) | seven titles, one without cover; a new console with a power cut or I/O error at every step of a save, used ones in each view, a frame without memory | `TwoFullCovers`, `CoversMatchTitles`, `ScreenIsRight`, `LaunchIsSeen`, `RecordKept`, `FavouritesAsSaved`, `ScreensSettle` |
| `nhddl_wrong_launch` (`MCLibrary`) | the same | violation, finding 2 |
| `console` (`MCConsole`) | twenty-one histories: images that come and go over three starts with two power cuts; games from every kind of drive, left by the pad and launched again; forwarded images; modules that fail; both options screens with a failed write and a cut; games of up to three programs with up to three resets, in five tables of reset modes and with MODE3 (`UNHOOK`) | `TitlesAsOnDisk`, `SavedIsLoaded`, `GameIsChosen`, `SettingsReachGame` (also the parameters of a DECKARD console, and the watched pad), `GameHasItsImage` (modules and image of the IOP under each program), `StartsEnd` |
| `console_game_patch` (`MCConsole`) | a game whose own table adds a module | violation, finding 3 |

**Why the bounds are enough.** `SeqMod` 8 with windows of 3 leaves more numbers than packets in flight, as 4096
does with a window of 8, and the session passes it so that numbers wrap; three losses can hit a packet, its
retransmission and an ACK. Two banks are the smallest ring in which reader and writer are in different ones;
five calls reach start, read, stop, start, read. In `Udpbd` three numbers let a packet arrive one or two
commands late and still be told apart. In `Udpfs` three server handles and two of the console make both tables
run full; `MaxRead` 3 with chunks of 3 and sectors of 2 units gives reads and writes of more than one part. In
`CdvdServer` three sectors of buffer with a line of half a sector give reads of one, two and more chunks at
every alignment, and a file beyond `Layer1Start` is on the second layer. In `Storage` two elements a round
(`RoundMax`, 16 in the code) and a left over give reads of one round, of two, and with PIO. In the library a
list page of 3 and grid pages of 2 of 7 titles give a short last page, a cache of 4 around a focus in the
middle wraps and skips duplicates. In `Console` drives differ in what they can do wrong: a title without ID,
files in hidden and ignored directories; the configuration tables are cut to a few modules with all their
features; the polls of card emulators to 2 of 15. A game's play list has a reset before a pad is opened, one asked
for twice, another program, and overlays with a pad library or without (TLC chooses): each reset mode meets the
IOP in each of the states that it tells apart.

**Bounds**, each a budget in a guard: `MaxLoss`, `MaxSpurious`, `MaxBoots` (Udprdma); `MaxCalls`, `MaxUserReads`,
`MaxFaults` (CdvdStream); `MaxCalls`, `MaxLost`, `MaxEarly` (Udpbd); the fields of a history, counted down in
`left` (the others); the inodes of `Data0`, of which a new file needs one (`RoomFor`, Udpfs); `MaxPolls` (TitleOptions).

**Deadlock** is checked for `console`, where `Rests` is the only stutter. Elsewhere programs end: a session is
over, the calls are used up, the console is off.

**Fairness.** Weak fairness of each thread (the IOP kernel runs a ready thread of highest priority, and all of
these wait most of the time), of the delivery of a packet that is not lost, and of alarms. Loss, restarts, early
alarms and further calls are not fair. In `Udpfs`, `Storage`, `CdvdServer` weak fairness of `Next` says that
something goes on while something can: the budgets of faults and calls are finite, so nothing can go on for
ever but what the code does. A drive that was unplugged is plugged in again. In `Library` frames follow
frames. In `Console` the main thread goes on while it works, and the splash thread is weakly fair.

`CallsReturn` of `CdvdStream` leaves out reads of a stream that is not fed (`Unfed`): one that was paused, or
whose fill was started while it was (streaming.c:421).

## 4. Findings

1. **An ACK of an earlier packet counts** (`udprdma.c:495`). `(ack - seq) & 0xFFF` is stored in an `int16_t` and
   never negative, so the branch for a stale ACK is dead. Retransmissions cause second ACKs, so `udprdma_send`
   can report success for a request the server never got. The next request then meets a gap. Requests are
   still executed in order, unless the numbers wrap just there (first of the known divergences).
2. **Cross launches another title than the one highlighted** (`gui.c:1260`). After a fast-track through the
   pages of Grid, until the page is loaded, its title is highlighted (gui.c:1018-1023), but Cross launches the
   one selected before. `README.md:211` says "launch the selected game".
3. **A game's own table comes too late** (loader `main.c:838`). With the default `-elf=auto` the table of
   `compat.toml` is applied after the modules were read (`main.c:708`): a module it adds is installed without
   data under QuickBoot, and without QuickBoot the start fails after the IOP reset. `compat.toml:122` says these
   tables override the command line.

### Known divergences

Seen while modelling. With those marked † the constants named make TLC show it; the models follow the code in
all of them, and properties say where they make an exception.

*UDPRDMA and UDPFS.* † A lost chunk is skipped where numbers wrap (server :718): a request with number 0 that is
not the expected one is taken for the first of a restarted client. In a long session the next number may be 0 while
the client, by finding 1, has left a lost chunk of a write behind; the server then writes the next chunk in its place
and says nothing, where UDPRDMA.md:167 says "Out-of-order packet: Discard, send NACK immediately" (`LongWrite`,
`SeqMod` 4, `SendWindow` 2, `MaxRetries` 4, one loss, invariant `InOrderOnce`). † A write refused at its first
chunk breaks the connection (server :950, UDPFS.md:612, :619; `RefusedProgram`, `NoKinds`, `MaxRetries` 4, invariant `NeverBroken`). A lost final ACK makes the server
drop the next request while it waits. A client restarted after exactly one handled request has its first taken
for a duplicate (server :710). A write through an alias or a read-only handle ends the server; handles are
never freed at a client's reset and run out after 32; a server started anew leaves a game's handles unknown;
a missing file opened with `O_RDONLY|O_CREAT` is refused, with its directory made all the same (server :840, :868;
`WellMade` asks for the flags of `fopen`'s modes, the only ones used); `udpfs_lseek` truncates to `int`, sector counts to 16 bits; a full handle table leaves the file created or
truncated; `O_RDWR|O_TRUNC` without `O_CREAT` does not truncate; a seek below 0 on an unpacked file is clamped.
`bread` takes a short answer for a whole one.

*UDPBD.* † A WRITE_DONE later than its alarm completes the next read (udpbd.c:106: the flag is not cleared before
a command; invariant `ReadIsRight`, `SectorCount` 2, `Late` and `MaxEarly` 1 for writes, no loss). After one lost
packet of three the order errors of the others do the same by rarer ways; `ClearCallIsDone` says that a bit left
over is the only way. INFO is broadcast once: when it is lost the device never appears.

*Drive and streaming.* † A game's read is counted as a bank: `StIsReading` is set before a refused request
(streaming.c:26, :66; `Apart = FALSE`, `BufferInOrder`; so do reads of the callback, `MaxUserReads` 1, and a
callback left over after `sceCdStStop`). † A blocking read that drains a full buffer and wants more waits for
ever (`Blocks(4)` in `Reads`, `CallsReturn`; streaming.c:400). † `sceCdSeek` and `sceCdStandby` beside a read can
release or keep its lock (ncmd.c:283; `Apart = FALSE`, `OneReadAtATime`). A failed or past-the-end read counts as
a full bank. A stream started during a game's read gets no callback (cdvdman.c:111).

*cdvdfsv and files.* † Button and in-game reset at once: the second break's alarm wakes the game's callback, which
starts a read between the first's `sceCdSync` and the shutdown of DEV9 (a history with both and a user read,
`OffAtRest`). A press before the thread waits is lost. Unaligned reads read one sector more, past the end of the
disc for its last ones; only the last chunk's error remains; sector sizes 2328 and 2340 compute with that size and
read 2048. Breaks and seeks test the lock and then raise an event: another thread's read in between keeps the lock
for ever. A first volume descriptor that cannot be read makes every search fail for ever, two first searches at
once share one buffer and create the semaphore twice. `cdrom_dread` lists only the first sector of a directory and
skips names of one letter; `getstat` of a directory adds ";1" and fails; `sceCdSearchFile` dereferences NULL for a
path without backslash. DiskReady and ReadClock forget an error. `sceCdReadDiskID` tests the caller's buffer
(ncmd.c:387); the tray's state is overwritten by any seek (scmd.c:85); a read of no sectors divides by zero
(cdvdman_read.c:182); readchain passes its position through a moving pointer.

*SIO2, cards, drives.* The original lock is released before `ioplib_relinkExports` (sio2man_hook.c:128-152). A close
that fails leaks its slot; two opens at once could share one; `update_unit` is outside the lock. † Without the alarm
(`UseAlarm = FALSE`) a silent card stops everyone. `hdl_open` returns without `dclose` on an error, overwrites its
file by each header, advances before a failure; `bdfs_open` reads entries nobody filled. In mc_emu both cards share
`dbufp`. † A failed write followed by a dummy command reports success (`Trailer = TRUE`, `CardKeepsPages`).
† Disconnecting another drive than the one connected takes the semaphore for good (`Unplugged = {"ours", "other"}`,
`CallsReturn`). `mmcedrv_read_sector` checks byte 9 where the protocol's document puts the result at 10.

*Library and saved state.* A prefetch that is refused can be repeated for ever (gui.c:954-975). Two power cuts lose
the view and the title; one cut loses the favourites (favorites.c:117), which `RecordKept` therefore leaves out. One
error is enough to lose the title: the result of `close` is not looked at (options.c:199), so a file that could not be
completed replaces the old one (:203, :204) and the next start finds neither; view and favourites check it
(view_state.c:89, favorites.c:112). `RecordKept` without its exception `IsTorn` shows it. One error loses
the favourites: when the rename fails after the old file was removed (favorites.c:117-120), gui.c:1365 takes the marks back
to what was saved before, which the drive no longer has, and the next start reads none; `FavouritesAsSaved` without
`FavouritesLost` shows it. Where the removal fails too, the old file is still there and the property holds. Grid
may hand over the wrong cover (gui.c:1269). A list of favourites that cannot be built stays the old one (gui.c:1369).
† A tap of a shoulder during a cascade (`TapInCascade = TRUE`, `ScreenIsRight`). `README.md:213` says Start opens the
global options; it leaves the library (gui.c:1517).

*Start-up, titles, options.* An interrupted cache may be read as empty (iso.c:428), and one that could not be closed is
committed as far as it was written (iso.c:373; `CloseCacheFails`); an empty one leaves `cache->entries` unset
(iso.c:416-420), below the model; the count in its header is of all
devices; an image replaced under its path keeps its ID. Only the first failing module of all modes is tolerated
(init.c:194). Options in the file's name are never loaded (README of nhddl, about :210). The metadata path gains
"/OPL" at each save (options.c:326). `-noinit` is ignored by `argInit`; devices of `-mode=usb` are never scanned;
mass storage as root with `mode: mmce` never works. A backend's error discards drives that were counted. A forwarded
image that is not an .iso has no name. A read error of a list frees it under its callers. Options may come from a file
with a longer name, a failed save leaves the file cut short. An argument of the global file that is off and switched
on in the list is not saved; one that was emptied has no value to save (`Emptied` in `SavedIsLoaded`).

*Loader.* The key of a mode is five characters without an end (main.c:584; the model takes the key as read);
`default_*` strings free pointers of `argv`; the order of a module beyond 40 never comes; `read_system_cnf` ignores its
own result; `-gc` without a value ends the start; a missing IMGDRV is only printed; `ee_core_argv` has no bound.

*EE core.* neutrino's README.md:164-165 says to hold the combination for roughly a second, padhook.c:200 acts on the
first frame it is seen. Pressed after the trapped reset returned and before the game's first poll, it ends in the
error colour: `Reset_Iop` reads a register through `Hook_SifGetReg`, which expects the poll (iopmgr.c:448); pressed
while the IOP has only its ROM modules, in the red screen, because nobody answers `lunaIGRShutdown`. With MODE3
(`UNHOOK`) only the first reset is caught: `main` does not hook again for later programs. The IGR thread looks for
`IGR_COMBO_R3_L3`, which the handler never sets, so the power-off path is dead. After `LoadElf` has hooked a pad
library, `Hook_ExecPS2` searches it again, finds no call left and notes that nothing is hooked; the next thread of
the program repeats the search. A reset that fails its checksum stops with the error colour (`Overrun`).

## 5. Proofs

Each theorem holds for every value of the constants that the named assumptions admit, and for behaviours of any
length. Every invariant below was checked by TLC before it was proved. Where a proof needs a hypothesis beyond the
assumptions of the modules, the theorem states it and the reason follows.

*The transport* (`Udprdma_proofs`).

- `TypeCorrect`: `RestartSpec => []TypeOK`, over any number of sessions. `TypeOK` is
  not inductive: a packet made in the middle of a call has a message of the program only if the caller is
  inside the program (`CallInProgram`), and the server has a request to answer only if it executed one
  (`AnswerHasRequest`). One lemma per group of actions, and one on the sequence arithmetic.
- `RequestsInOrder`: `Spec => []InOrderOnce` for programs shorter than the sequence
  space. `OrderInv` adds that the server expects the number after the last message it executed, that the
  client's counter and message agree, and that the requests on the wire are numbered by message, never go
  back, and are none older than the last one executed nor beyond the client's own. So an expected packet is
  the next message, and number 0 is only ever the first: the branch for a restarted client is not taken.
  Loss, early alarms, retries and the stale ACK of finding 1 all keep it. The length cannot be left out
  (first of the known divergences); that sessions with writes of two chunks before and after the wrap go on in order is left to TLC
  (`udprdma_session`).
- `AnswerIsIntact`: `Spec => []ReplyIntact`. `AnswerInv(a, z, b)` says which answer is under way: the one to
  message `a`, with the number of `b` for its first packet, after the one to `z`. Every packet of an answer on the
  wire is one of the two, at its place, those of `z` first; the client expects the packet after those it has when the
  answer is to its operation, and otherwise the server has sent the whole of it and the client, past it, has nothing.
  `CallerInv` says where the caller is in its program and that a request whose operation was received was executed.
  So a packet that is taken is the next of the right answer, since its number tells it from the others: `a` and `z`
  together have no more packets than there are numbers.
- `SessionIsReliable`: `Spec => ImplementsReliable`, step by step. `HandleRequest` is `Execute`, `RecvReturn` of an
  operation is `Answer`, giving up is `Break`, every other step stutters.
- `WindowIsKept`: `Spec => []WindowKept`. `WindowInv` adds to `AnswerInv` how far each acknowledgment on
  the wire is behind what the client expects now: never more than the window leaves, the later the less, and none of
  those the server has read by more than those still to come. So `tx_buffer`, pruned by any of them, holds every packet
  from the one acknowledged on. A request whose answer is still to come acknowledges everything before it, which is why
  a new answer may start with an empty `tx_buffer`.

- `SessionsKeepOrder`: `RestartSpec /\ [][KnownRestart]_vars => []SessionsInOrder`, for programs shorter than the sequence
  space, over any number of sessions against one server, each at any point where the client is reset, after a broken
  call too. `SessionInv` says how far the session under way has reached: while nothing of it was executed the server
  expects some number other than 1 and the client is at its first message (`Fresh`), afterwards they agree as in one session.
  `KnownRestart` leaves out a client that starts again when the server expects number 1: `IsDuplicate` is tested before
  `IsReset`, and its first message passes for the old one's (server :710; among the known divergences).

`AnswerIsIntact`, `SessionIsReliable` and `WindowIsKept` are about one session with fewer messages than sequence numbers (`Len(Program) < SeqMod`), with one
answer to an operation (`OneAnswer`: the chunks of a write are answered once) and answers of which two fit the
numbers (`AnswersFit`: 64 KB, `UDPFS_MAX_READ` of udpfs_packet.h:57, are 47 of 4096 packets); the
window is at most half the numbers (`SmallWindow`: 8 of 4096), since `< 2048` orders the packets of `tx_buffer`.

*The block device* (`Udpbd_proofs`).

- `ClearCallsTrue`: `Spec => []ClearCallIsDone`, for every number of sectors, calls, losses and early alarms.
  `ClearInv` ties what is under way to its command: the packets to the server that carry the current number are the
  last ones there and are what the call sent, every answer with that number is to it, the server's write has as many
  sectors left as packets are still to come, and the bits say "done" only when the receive pointers have passed the
  block. A call that found a bit left over (`c.clear` false) is exempt, as in the property: udpbd.c:106 lets the next
  command wake at once. The proof is what `Fresh` and `GivenUp` are for: without them a number that comes round
  would complete a command with the data of an old one.
- `OneFaultIsSurvived`: `MaxRetries > 2 => (Spec => []OneFaultSurvived)` (`UDPBD_MAX_RETRIES` is 4). `FaultInv` counts what one
  lost packet or early alarm can do: it fails the try it happens to and leaves at most one bit behind, which fails one
  try more, of the same call or of the next.

*The files of a PC* (`Udpfs_proofs`), for every server, file tree, set of names and calls, every history of menu, loader
and game, lost connections, resets and restarts of the server. The assumptions are `NamesAssumption` (files lie in
directories of the root), `FilesAssumption` (the tree at the start is one, contents are sequences of units) and
`InputsAssumption` (calls have the arguments their prototypes give them, what is written has the length the call says, and a file is
made, emptied or appended to with the flags of one of `fopen`'s modes, as all callers do).

- `ServerAndConsole`: `Spec => []IInv`. Its parts are about the server (`TreeInv`: what there is lies in a directory that
  is there; `TableInv`; `NoWriteInv`: on a server that may not write, or was started anew, nothing collects a write), about
  the calls (`CallsInv`: one message at a time; `DueInv`: while a call sends, it still is to do what `due` says, so nothing
  else has touched the files; `WriteInv`: the write that the server collects is exactly the chunks sent so far) and about
  the handles (`OpenInv`: the console's slots are open on the server for the files they were opened for; `MatchInv`: each
  at the caller's place, and what the place will be once the reply under way is taken, given the read or the write it
  answers). Each of the server's handlers is one lemma for what it does to the table and the files, and each call a lemma
  that it does what `due` says.
- `HandlesAreTheirs`: `Spec => []HandlesMatch`. `WritesAreWhole`: `Spec => OnlyWholeWrites`, an action property: the only step
  that changes a file is the exchange of a call's last message, and it makes of the files what the call comes to.
- `CallsDoTheirs`: `Spec => CallsDoAsOnLocalFiles`, for any size of chunks. `AnswerInv` says of a call under way that the bytes
  of its earlier messages are the beginning of what is due, that the reply it waits for is the next part (or
  the length, size, entry or result due), and that a refusal is one the local files would give too, or the full table's
  or the new server's. For reads and sectors this is an argument on the next part of a sequence, by position.

The attempt found places where the model said less than the code, which TLC's instance did not reach, corrected since:
the end of a file just created, appends on a handle of an unpacked image, directories handed over to the game, and a
directory or a file that cannot be decoded behind a name `<file>.iso`.

*The drive and streaming* (`CdvdStream_proofs`, `CdvdStreamQueue_proofs`).

- `LockHeld` and `LockHeldApart`: `Spec => []OneReadAtATime`. The first is for a game that neither seeks nor calls
  `sceCdStandby`, whatever else it does, reads beside the stream and from its callback included (`LockInv`); the
  second is for a game that uses the drive itself only beside no stream and not from its callback (`GameApart`), with
  seeks and standby, whatever fails. One of the two is needed: with those commands beside a read the property is
  false (ncmd.c:283).
- `StreamInOrder`: `Spec => []BufferInOrder`, for all sizes of banks, buffer and disc. `StreamInv` says where the
  game's thread is and what is under way then: the lock is held exactly while a request is, and beside a running
  stream that request is the bank the stream wants next, or a read of the game from before it, whose end the
  stream will not see. `BufferInv` adds the room of the ring, what part of a bank is read and what part of a copy is
  done, and that the slots between reader and writer hold the sectors from the next one the game gets.
- `StreamIsQueue`: `Spec => IsQueue`, the refinement of `CdvdStreamQueue`, step by step: `StmCallback` appends a bank,
  `ReadSectors` and `ReadSectorsEE` take from the front, every other step stutters.
- `QueueInOrder` says of the abstract queue that it delivers the sectors of the disc in order; with the refinement
  `GameGetsDisc` says it of the driver: what the game has and what waits for it are the sectors from where
  `sceCdStStart` began, none missing and none twice.

`StreamInOrder`, `StreamIsQueue` and `GameGetsDisc` need `GameApart` and `NothingFails` (no
failing sector and no end of the disc): the code counts a game's read as a bank (streaming.c:26, :66) and a failed or
short read as a full one, so that without them the properties are false; see the divergences.

*The SIO2 port, drives and the virtual card* (`Storage_proofs`), for every history, with no assumption on a constant.

- `PortLock`: `Spec => []PortLockInv`, that `lock_sema` is with one user or free and only who has it takes
  `lock_sema2`, that the handler in entry 17 and the transfer on the port are those of the user who has both, that an
  alarm that has rung is no longer set and a transfer that is complete is off the port, that a drive's semaphore says
  who reads, and that the virtual card has a call under way only while it waits for its file.
- `TransfersAreOwn`: `Spec => []TransferIsOwn`, and `PortIsWhole`: whoever has the first semaphore finds the second
  free, so that the two cannot be held crosswise although one is taken in one call and given back in another.

*What the library shows, launches and saves* (`Library_proofs`, `LibraryViews_proofs`), for every list of titles,
history of presses and size of page or cache (`CoverCacheAssumption`: two slots at least on either side of the focus).

- `SelectedFavourite`: while only the favourites are shown, the selected title is one of them. `SelectionInv` needs
  what the motions under way will select, and lemmas on the ranks of marked titles (`RankedIsMarked`: the ranks are
  a bijection, so stepping and paging through them, which wraps, ends on a marked title).
- `RecordIsKept`: `[]RecordKept`, `MarksAreSaved`: `[]FavouritesAsSaved`. `RecordsInv` and `MarksInv` say for each step
  of a save (write, remove, rename) what the two files hold. Both are under `OneFault`, one power cut or I/O error per
  behaviour: with two the code loses a record (see the divergences). Two single errors lose one as well and are excepted by
  name: a close of the title's file (`IsTorn`; `RecordsInv` says that nothing else commits an incomplete record), and a
  rename of the favourites once the old file is gone (`FavouritesLost`). All other steps of all three saves may fail. `MCLibrary` assumes `OneFault` of its histories,
  so TLC evaluates it.

- `NoThirdCover`: `Spec => []TwoFullCovers`, and `CoversAreTheirs`: `Spec => []CoversMatchTitles`. `CoverInv` says whose
  covers the ten slots hold: those of the stream's layout around its focus, or of the titles around the one Orbit shows;
  two full-size ones at most, at the focus or next to it; and that a frame leaves them in their places. The lemmas follow
  a cover through the swaps of the cache, which move texture, source and size one by one.
- `LaunchedIsSeen`: `Spec => []LaunchIsSeen`. `SeenInv` ties the selected title, the one the launch code reads and the one the
  last frame drew: in Classic and Orbit all three are one, in Collection they follow from the stream's focus and the
  list of favourites, in Grid from the page.
- `ScreenIsItsOwn`: `~TapInCascade => (Spec => []ScreenIsRight)`. `GridRight` follows the three page buffers through loading,
  cascades, taps and fast-tracks. With a tap in a cascade it is false (†, known divergences).

`LaunchIsSeen` was not provable as first stated: after the last favourite is removed and the list cannot be rebuilt,
Collection shows nothing and selects title -1 (`lunaNavMarkedByRank`, gui.c:1187-1190). Cross then launches no title
(`getTargetByIdx`, target.c:25, gives NULL), so the property is about titles of the list.

Several functions of the models chose by `CASE` with guards that overlap, where TLC takes the first that is true and
the language leaves the choice open; the proofs showed it, and their guards are disjoint now.

Where a proof needs induction over a number it takes a least counterexample (`WFMin`); the library's induction theorems,
which take an operator, and `RECURSIVE` operators are out of the provers' reach. Only model-checked:

- liveness (`CallsReturn`, `Terminates`, `ScreensSettle`, ...), since fairness and ENABLED are out of the prover's reach;
- a session of `Udprdma` whose messages pass the sequence numbers (`udprdma_session` has one);
- what calls return: `CallsDoWhatTheySay` and `CardKeepsPages` in `Storage`,
  `ReadArrives` and `FilesAsOnDisc` in `CdvdServer`, which compare buffers put together over many steps with folds
  over the files;
- `OffAtRest` of `CdvdServer`, which rests on the timing of alarms and threads (section 2);
- everything in `Console`. `TitleScan` and `Loader` declare a recursive operator (a walk of
  directories, tables that name tables), and a module that reaches one has no SMT backend.

## 6. Not modelled

- *UI drawing, easing, the repeat of a held direction, the pad's sampling*: no state the other parts read.
- *Ethernet driver, IP stack, DEV9, the hooking code of sio2man and of mc_emu's RPC, `mmceigr.c`*: hardware
  registers and code patches; seen from outside as a network, a port, an interrupt.
- *IOP patches and stand-in modules, ATA stand-in, cdvdman's glue*: patches of other programs' code, or calls
  passed on.
- *EE core*: its patches of games and of the logo, display modes, cheats, TLB, and the transport of modules to the
  IOP (`loadfile.c`). What its IOP reset does to the drivers is the restart of `Udprdma` and of `Udpfs`.
- *Compressed images on the server*: decoding of formats. *nhddl's copy of udpfs*: a near copy of neutrino's
  (without `rx_nack_sent`: a NACK per packet after a gap instead of one).
- In modelled parts: read pacing, bounce buffer and sector sizes other than 2048; tray, clock, disc ID and other
  values passed on; the wait of command 0x80000596; streaming by RPC (its functions are `CdvdStream`); the second
  virtual card; two threads opening on a card emulator at once; times and attributes of files; addresses and
  checksums of the loader.

## 7. Plan

1. Proofs: `CdvdServer` `OffAtRest`; `CardKeepsPages`; `_findISO` and
   `load_config` as recursive functions, so that `Console` and `EeCore` can be proved about (`GameHasItsImage`).
2. The refinement of `Udpfs` by `Udprdma`: that an exchange is one step or a break is argued, not checked.
3. The SMAP transmit ring as a module of its own under `Udprdma` and `Udpbd`.
