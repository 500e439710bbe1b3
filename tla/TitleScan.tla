---- MODULE TitleScan ----
(***************************************************************************)
(* The titles of a device: the walk over its directories, the title ID of  *)
(* each image from the cache file or from the image, and the cache file    *)
(* that is written anew (nhddl/src/devices/iso.c, title_id.c and hdl.c,    *)
(* nhddl/src/target.c).  A path is that on its drive.                      *)
(***************************************************************************)
EXTENDS Integers, Sequences, SequencesExt

CONSTANTS
    MAX_SCAN_DEPTH,
    Tree,       \* Tree[drive][directory]: its entries, in the order of readdir
    DotNames,   \* names that start with '.'
    OddNames,   \* names that start with '$' or '?'
    UpperRank,  \* the place of a title's name in upper case among all of them
    ImageIds,   \* ImageIds[drive][path]: the title ID in an image, or NoId
    FullIds,    \* title IDs of eleven characters
    Partitions, \* the entries of the partition table of a drive of HDL games
    EntryUnits  \* the size of an entry of the cache file, in its headers

VARIABLES
    present,   \* present[drive]: the images that are there
    cacheFile, \* cacheFile[drive]: the cache file, the one in the making, the older one
    titles,    \* the list of titles
    scan       \* the device that is scanned, and how far its cache file is written

scanVars == <<present, cacheFile, titles, scan>>

NoId == "no id"
NoCache == [there |-> FALSE]
\* magic: "" of a file that was opened and not written, "other" of another version.
CacheOf(total, entries) == [there |-> TRUE, magic |-> "ours", total |-> total, entries |-> entries]
CacheWithout(magic) == [there |-> TRUE, magic |-> magic]

-----------------------------------------------------------------------------
(* The list of titles and the walk.                                        *)

\* insertIntoTargetList: from the end, after the first that is not after it.
insertIntoTargetList(list, title) ==
    LET notAfter == {i \in DOMAIN list : UpperRank[list[i].name] <= UpperRank[title.name]}
        at == IF notAfter = {} THEN 1 ELSE 1 + CHOOSE i \in notAfter : \A j \in notAfter : j <= i
    IN InsertAt(list, at, title)
InsertAll(list, found) == FoldLeft(insertIntoTargetList, list, found)

ignoredDirs == {"nhddl", "neutrino", "APPS", "ART", "CFG", "CHT", "LNG", "THM", "VMC",
                "XEBPLUS", "MemoryCards", "bbnl"}
Target(device, drive, entry, id) ==
    [device |-> device, drive |-> drive, path |-> entry.path, name |-> entry.name, id |-> id]
Enters(entry, level) ==
    /\ entry.dir /\ level # MAX_SCAN_DEPTH
    /\ entry.name \notin DotNames \union OddNames \union ignoredDirs
IsImage(drive, entry) ==
    ~entry.dir /\ entry.iso /\ entry.path \in present[drive] /\ entry.name \notin DotNames
RECURSIVE _findISO(_, _, _, _)
_findISO(device, drive, directory, level) ==
    LET entries == Tree[drive][directory]
        Of(entry) == CASE Enters(entry, level) -> _findISO(device, drive, entry.path, level + 1)
                       [] IsImage(drive, entry) -> <<Target(device, drive, entry, NoId)>>
                       [] OTHER -> <<>>
    IN FlattenSeq([i \in DOMAIN entries |-> Of(entries[i])])
Walk(device, drive) == _findISO(device, drive, "/", 2)

-----------------------------------------------------------------------------
(* The title IDs.                                                          *)

\* loadTitleIDCache: a file in which more entries are announced than fit is
\* refused; one that ends early is taken as far as it goes.
Candidates(drive) ==
    SelectSeq(<<cacheFile[drive].cache, cacheFile[drive].tmp, cacheFile[drive].legacy>>,
              LAMBDA f : f.there)
NotLoaded == [loaded |-> FALSE, entries |-> <<>>]
loadTitleIDCache(drive) ==
    IF Candidates(drive) = <<>> THEN NotLoaded
    ELSE LET f == Head(Candidates(drive))
         IN CASE f.magic = "" -> [loaded |-> TRUE, entries |-> <<>>]
              [] f.magic = "ours" /\ f.total <= Len(f.entries) * EntryUnits ->
                    [loaded |-> TRUE, entries |-> f.entries]
              [] OTHER -> NotLoaded

\* getCachedTitleID: the search goes on from the entry that matched last.
Matches(cached, from, path) ==
    {i \in from .. Len(cached) : cached[i].path = path}
TakeId(state, title) ==
    LET matches == Matches(state.cached, state.lastMatchedIdx, title.path)
        at == CHOOSE i \in matches : \A j \in matches : i <= j
        id == ImageIds[title.drive][title.path]
    IN CASE title.device # state.device -> [state EXCEPT !.list = Append(@, title)]
         [] title.device = state.device /\ matches # {} ->
               [state EXCEPT !.lastMatchedIdx = at,
                             !.list = Append(@, [title EXCEPT !.id = state.cached[at].id])]
         [] title.device = state.device /\ matches = {} ->
               [state EXCEPT !.cacheMisses = @ + 1,
                             !.list = IF id = NoId THEN @
                                      ELSE Append(@, [title EXCEPT !.id = id])]
\* processTitleID, up to the store.
processTitleID(list, device, cached) ==
    FoldLeft(TakeId, [device |-> device, cached |-> cached, lastMatchedIdx |-> 1,
                      cacheMisses |-> 0, list |-> <<>>], list)

\* storeTitleIDCache: the header counts the titles of every device.
CacheTotal(list) == Len(SelectSeq(list, LAMBDA t : t.id \in FullIds))
\* A mutant: the titles of every device are written, too.
CacheEntriesOfAll(list, device) ==
    LET all == SelectSeq(list, LAMBDA t : t.id \in FullIds)
    IN [i \in DOMAIN all |-> [path |-> all[i].path, id |-> all[i].id]]
CacheEntries(list, device) ==
    LET own == SelectSeq(list, LAMBDA t : t.id \in FullIds /\ t.device = device)
    IN [i \in DOMAIN own |-> [path |-> own[i].path, id |-> own[i].id]]

-----------------------------------------------------------------------------
NotScanning == [step |-> "idle", device |-> 0, drive |-> ""]
ScanInit == titles = <<>> /\ scan = NotScanning

\* findISO: the walk, and the IDs up to the store of the cache.
ScanDevice(device, drive) ==
    /\ scan.step = "idle"
    /\ titles' = InsertAll(titles, Walk(device, drive))
    /\ scan' = [step |-> IF titles' = <<>> THEN "scanned" ELSE "ids", device |-> device,
                drive |-> drive]
    /\ UNCHANGED <<present, cacheFile>>
LoadCache ==
    /\ scan.step = "ids"
    /\ scan' = [step |-> "match", device |-> scan.device, drive |-> scan.drive,
                cache |-> loadTitleIDCache(scan.drive)]
    /\ UNCHANGED <<present, cacheFile, titles>>
MatchIds ==
    LET taken == processTitleID(titles, scan.device, scan.cache.entries)
        update == taken.cacheMisses > 0
                  \/ (scan.cache.loaded /\ Len(scan.cache.entries) # Len(titles))
    IN /\ scan.step = "match"
       /\ titles' = taken.list
       /\ scan' = [step |-> IF update /\ CacheTotal(titles') > 0 THEN "store" ELSE "scanned",
                   device |-> scan.device, drive |-> scan.drive]
       /\ UNCHANGED <<present, cacheFile>>
\* findHDLTargets: the games in the table, whose headers hold their IDs.
ScanPartitions(device, drive) ==
    LET games == SelectSeq(Partitions, LAMBDA p : p.main /\ p.valid)
        found == [i \in DOMAIN games |-> Target(device, drive, games[i], games[i].id)]
    IN /\ scan.step = "idle"
       /\ titles' = InsertAll(titles, found)
       /\ scan' = [step |-> "scanned", device |-> device, drive |-> drive]
       /\ UNCHANGED <<present, cacheFile>>

Content == CacheOf(CacheTotal(titles), CacheEntries(titles, scan.device))
StoreStep(from, to, field, file) ==
    /\ scan.step = from
    /\ scan' = [scan EXCEPT !.step = to]
    /\ cacheFile' = [cacheFile EXCEPT ![scan.drive][field] = file]
    /\ UNCHANGED <<present, titles>>
OpenCache == StoreStep("store", "write", "tmp", CacheWithout(""))
WriteCache == StoreStep("write", "remove", "tmp", Content)
\* An error of fwrite removes the file; that of fclose is not looked at, and
\* what was written of the file by then is committed.
TornFiles ==
    {CacheWithout("")} \union
    {[Content EXCEPT !.entries = SubSeq(@, 1, n)] : n \in 0 .. Len(Content.entries)}
WriteCacheFails == StoreStep("write", "scanned", "tmp", NoCache)
CloseCacheFails == \E file \in TornFiles : StoreStep("write", "remove", "tmp", file)
RemoveCache == StoreStep("remove", "rename", "cache", NoCache)
RenameCache ==
    /\ scan.step = "rename"
    /\ scan' = [scan EXCEPT !.step = "scanned"]
    /\ cacheFile' = [cacheFile EXCEPT ![scan.drive].cache = cacheFile[scan.drive].tmp,
                                      ![scan.drive].tmp = NoCache]
    /\ UNCHANGED <<present, titles>>
storeTitleIDCache == OpenCache \/ WriteCache \/ RemoveCache \/ RenameCache

\* What a power cut leaves of the file in the making: any part of it.
TornCache ==
    IF scan.step # "write" THEN {cacheFile}
    ELSE {[cacheFile EXCEPT ![scan.drive].tmp = file] : file \in TornFiles}
====
