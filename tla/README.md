# A verification development for vita-utility

vita-utility is a collection of plugins and small applications for the PS Vita.
They do not call each other; each talks to the system (SceIofilemgr, SceHdmi,
SceSdstor, the kernel's allocators), of which the repository holds no source.
What this directory models first are the ones that keep state over many calls,
whose calls can come in an order nobody tried: the RAM file system of
`kernel/SceVfsMountPoC`, the `host0:` emulation of `kernel/SceVfsMountPoC_old`,
the screen switch `kernel/DevkitTV` and the dumper `kernel/emmc_dumper`. Then come
the small ones that run once from start to end but can fail at every step: the
logs of the analysis plugins, the other dumpers, the module loader, the allocator
tests, the verifiers of the activation and the core lock sample.

- [Inventory](#inventory)
- [Modules](#modules)
- [Runs](#runs)
- [What the runs found](#what-the-runs-found)
- [Proofs](#proofs)
- [What is left out](#what-is-left-out)
- [Plan](#plan)

## Inventory

### RAM file system (`kernel/SceVfsMountPoC/src`)

`main.c` implements the tables of handlers (`vfs_table_test`, `vop_table_test`)
that SceIofilemgr calls for everything done below `vsd0:`; `fs_tool.c` keeps the
directory tree and the objects of open files.

| State | Where | Meaning |
| --- | --- | --- |
| `pTree` | `fs_tool.c:9` | the root entry |
| `FapsDmassFs` | `fs_tool.h:17` | an entry: name, stat, `data`, `next` (sibling), `next_dir` (first child), `refer`, `pDmassFsX`, `pNode` |
| `FapsDmassFsX` | `fs_tool.h:10` | a control object: the file object it belongs to and the `dread` cursor |
| vnode `core.dev_info`, `core.st_size` | `main.c:249` | the entry behind a vnode, and a copy of its size |
| file object offset | `main.c:300` | where the next read or write goes |

Operations: mount and root, lookup, create, mkdir, remove, rmdir, rename, open,
dopen, close, dclose, dread, read, write, pread, pwrite, lseek, chstat, inactive.

Interaction: SceIofilemgr resolves paths by lookups, hands out vnodes, holds
file objects, and calls `vop_inactive` when it retires a vnode.

Hard: one entry has many vnodes (each lookup makes another), each with its own
copy of the size; an entry may be open, half read as a directory, and be moved
or removed at the same time; a handler that fails half way has often done its
first half; the links of moved entries are relinked in two lists.

Correct when: the links form a tree; nothing that is open is freed; counters
match what they count; a successful call loses no entry; a file is a sequence of
bytes whatever vnode it is reached by; no copy runs past a buffer.

### DevkitTV (`kernel/DevkitTV/src/main.c`)

State: the HDMI state (in SceHdmi), the screen, two hooks, a queue of work.
`update_screen` reads the HDMI state and switches the screen. It is called when
the plugin starts (by `module_start`, or five seconds later by a thread), from the
hook of `sceHdmiSetState`, and from a work queue a second after a resume.

Hard: three threads, no lock, two steps; the screen is turned on by the system at
a moment of a resume the plugin does not see.

Correct when: after everything has run, HDMI connected means screen off and HDMI
disconnected means screen on (`kernel/README.md:10-11`).

### eMMC dumper (`kernel/emmc_dumper/src/main.c`)

State: the drive, the list of partitions, the position in the partition and in
the file, and the files on the drive, which outlive the plugin.

Hard: the dump takes ten minutes (`kernel/README.md`), the power may go or a call
may fail at any point, and the next start goes by which files exist.

Correct when: files hold what their partition holds, at its place; a complete
file is never touched again; a start in which nothing fails gets to the end.

### host0: emulation (`kernel/SceVfsMountPoC_old/src`)

`module_start` mounts a file system as `host0:` (`vsd0:` on a development kit) that
shows the kernel's modules, its parameters, random numbers and a piece of mapped
memory as files.

| State | Where | Meaning |
| --- | --- | --- |
| `last_obj`, `DataPack_t` | `item_mgr.c:17`, `fs_mgr.h:45` | the doubly linked list of open items: vnode, position, size, entry, head of a directory |
| `FileEntry` | `fs_mgr.h:25` | an entry of the tree; those of "kernel modules" are freed and made anew at each `dopen` |
| `map_conf1_data` | `map_conf1.c:23` | address and size of the mapped memory, set by writing a file |

Operations: mount, lookup, open, close, read, write, dopen, dclose, dread, get_stat,
get_stat_by_fd. Interaction: SceVfs hands in vnodes; the item is found again by the
address of the vnode.

Hard: items are found in a list that calls change in every order; pointers into
the listing outlive it; the size of one file is set by writing another; names are
compared by prefix, a part of a path that begins with the character 0 ends the walk, and
two modules may have one name.

Correct when: the list has every open item once; the listing owns its cells; a
handle opened after the listing was made leads to a live entry; a path finds the first
entry of the name it ends in, where such a path can find any.

### The small plugins and applications

| Component | State | Correct when |
| --- | --- | --- |
| `log.c` of `SceExfatfsAnalysis`, `SceSdstorAnalysis`, `SceIofilemgrAnalysis` | `log_fd`, `log_pos`, `log_buff`, the file | the file has the lines in order, none twice, none lost unless a call failed |
| `slb2_dumper`, `idstorage_raw_dumper`, `nvs_dumper`, `idstorage_dumper`, `visible_id_dumper` | the files on the drive | a file is a beginning of what it is of, or where a seek failed a stretch of its partition; a start in which nothing fails leaves all of it; what is there is not touched |
| `user/kernel_module_loader` | list of entries, `module_num`, blocks | a number that is listed finds its entry; nothing leaks |
| `malloc_free_test_*`, `PafCustomMalloc`, `KernelCustomMalloc`, `SceZlibSample`, `idstorage_verifier` | slots that hold blocks, heaps, files, sessions | all that is taken is given back once, to where it came from |
| `act_verifier`, `np_act_verifier` | the signature in place | it is reversed exactly; only firmwares of the range pass; only genuine data passes |
| `CorelockSample` | four threads and a lock | all come out of the lock |

### Not modelled

| Component | State and operations | Why not |
| --- | --- | --- |
| `SceVfsMountPoC/src/dmass_process.c` | list of memory blocks per process | its event handlers are not registered by `module_start` |
| `iofilemgr_scheduler_log`, `iofilemgr_test` | none: print what a queue of the system holds, time calls | the queue is not in the repository |
| `syscon_vs_dumper`, `kblparam_dumper` | none | one read and one write |
| `FixedHeap-Test` | none | objects taken in a row |
| `noSuspend*`, `mac_address_spoofer`, `netps_kernel_recv_fix`, `qaf_host0`, `ScePfsMgrAllowDbgPfsPatch`, `activate_reset`, `SceUsbstorVstorFat16` | a patch or callback installed once | nothing changes afterwards |
| debug aids, mapping samples, remaining user programs | none | print or probe once |

## Modules

| Module | Models | Lines |
| --- | --- | --- |
| `DmassTree` | entries, links, control objects and vnodes of the RAM file system | one action per handler that changes them |
| `DmassFile` | buffer, sizes and offsets of one regular file | one action per handler |
| `DmassWriters` | reads and writes of one file by concurrent callers | one action per access to what they share |
| `ByteFile` | what a file promises: a sequence of bytes with positions | abstract |
| `DevkitTV` | the three tasks of DevkitTV and the system around them | one action per call |
| `EmmcDumper` | the dump, call by call, with failures and restarts | one action per system call |
| `HostFs` | items, entries, listing and vnodes of the old `host0:` | one action per handler |
| `LogBuffer` | `log.c` and the reports of the three plugins that use it | one action per call |
| `Dumpers` | the five small dumpers | one action per file, directory or chunk |
| `ModuleLoader` | the list of modules, its numbers, the console | one action per path or line |
| `Allocators` | what six plugins take and give back, as lists of steps | one action per kind of step |
| `ActVerifier` | the two verifiers, check by check | one action per call or round of the loop |
| `Corelock` | the threads of the core lock sample | one action per call of a core |
| `Tools` | composes `EmmcDumper` and the six modules above: one of them runs | |
| `MC*` | instances for TLC | |
| `*_proofs` | theorems about the module of the same name; `Tools_proofs` those about `EmmcDumper`, `ModuleLoader`, `Allocators`, `ActVerifier`, `Corelock` and their composition | |

### DmassTree

A heap cell is a member of `Entry`; `next`, `next_dir`, `name`, `refer`,
`pDmassFsX` and `pNode` are the fields of the same names, as functions of the
cell. A freed cell leaves `live` and keeps its links, as freed memory does; the
name is cleared before the free (`fs_tool.c:276-281`). The two lists of a
directory are walked as the code walks them (`Chain`, `FindInList`), and an entry
without a name, which the second unchecked `name_cpy` leaves behind when memory
is short (`fs_tool.c:224`), makes the walk fault, as `memcmp` does. A fault sets
`panicked`, after which nothing happens.

What SceIofilemgr does is taken from how the handlers use it:

- calls on one file system are serialised by the locks of the vnodes;
- it resolves the directory part of a path and passes a vnode of it together with
  the whole path, and creates entries in directories only;
- a rename holds a vnode of the entry it moves and never moves a directory below
  itself;
- after a removal that returned 0, the vnodes of the entry are only retired;
- the mount keeps the vnode of the root, and a vnode with open files is not
  retired;
- the file system is mounted once (`main.c:1119`).

Every one of these restricts what the model does; each stands in a definition of
its own marked VFS.

### DmassFile and ByteFile

The file of `DmassFile` is one entry that stays in the tree. `data` is the buffer
with its true length, so that a copy past it can be seen; `node_size` is the copy
of the size in each vnode. All bytes of one write are equal, which is enough to
tell a byte that was written from one that was not, and one write from another.
`Junk` is what a fresh buffer holds. A copy past the end of a buffer sets
`overrun` and ends the behaviour. A request of no bytes is one of the requests: a read or
`memcpy` of none touches nothing, but a write of none from behind a truncated end grows no
buffer (`main.c:351`) and still sets the size to where it ends (`main.c:369`). Sizes stay
below `MaxSize`, so that their narrowing to 32 bits (`main.c:355`, `798`) changes nothing.

### DmassWriters

`vop_write` and `vop_read` taken apart at every access to `data`, `st_size` and the heap
(`main.c:350-371`, `305-318`); `pc` is where a caller stands, `temp` is `temp_data` and
`from` the value of `data` that a `memcpy` was started with. A caller enters when no other
is in a handler of its vnode, which is the lock the layer holds; callers on different
vnodes interleave. A block of the heap is its length and whether it is allocated: a copy
from or to a freed block or past its end, and a second free, set `faulted` and end the
behaviour. `raced` is a history variable: a growing write has overlapped another handler,
or a write another write. That the heap hands a freed block out again is part of the
model.

### DevkitTV

`pc` says for each of the three tasks whether it is about to read the HDMI state
or to act on what it read. Every call may fail. `failed` is a history variable: a
call failed and no update that was up to date has been made since. `Window` names
the three moments in which a change of HDMI goes unnoticed; the constant `Races`
says whether HDMI may change in them.

`plugin` says whether `module_start` is still running, has ended, or has refused to start
the plugin (`StartRefused`: a module, an offset or the thread was not to be had). Whether a
hook could be set is not looked at (`main.c:169-170`), so `hooks` may be any of the two;
a change or a resume that goes past a hook that is missing (`Missed`) counts as a failed
call.

Weak fairness is assumed of the steps of a task that has begun, of the end of
`module_start`, of the work queue, and of the system's turning the screen on once
a resume has begun: threads of the kernel that can run do run. Nothing makes the
user plug, unplug, suspend or resume.

### EmmcDumper

`file` is the only variable that a restart leaves alone, with `dirs`. A unit of
data is its own number, so that a file tells where each of its units came from.
`spoiled` is a history variable: the files whose copy a failure or a crash cut
short. Assumed of the outside: what a call that returned has stored stays;
`ksceIoGetstat` fails only on what is not there; the partitions do not change
during a dump (on a unit whose `ux0:` is the internal memory and that dumps to
it, one of them does).

### HostFs

`obj`, `next`, `prev` and `last_obj` are the list of `item_mgr.c`; `Behind` walks it
as `getFileEntryByNode` does. `kids` is the tree, by directory; a file of "kernel
modules" is a `Cell` of the heap, and `cell` says which segment of which module it
shows, or that it is free. `dopen_cb_module` is one action with the rest of
`vfs_dopen` (`OpenModules`): it frees the cells of the listing and builds a new one
from `loaded`. Names are kept apart as values; the comparison by prefix is
modelled by the pairs of names of this tree of which one begins with the other
(`Begins`). A cell has the name of its module, which another module may share: the entry
found is the first of the name, and the kernel answers for the size with any module of it
(`Answering`). The loops along a path run `while(path[0] != '0')` (`fs_mgr.c:43`, `135`,
`188`): at a part that begins with that character they end and report success with the entry
they came to last. `ZERO` stands for all such parts, and a module of `ZeroNames` has such a
name. `map_conf1` is written by any number of bytes, always from its beginning; `conf` is
its second word, the size of the mapped memory, which may become any other when a part of
it is written (`Configured`). The first, the address, decides no size and leads to no entry.
`stale` is a history variable: items that pointed into a listing when it was freed. Following a freed pointer, or the one past the last entry that
`vfs_get_stat_by_fd` follows, sets `fault` and ends the behaviour. Taken of SceVfs:
calls come one at a time, an open vnode is not retired, a vnode has its parent's
vnode as `prev_node`, and `vfs_open` and `vfs_dopen` are handed the path from the mount
point. Paths have one or two parts: the tree is no deeper, and no walk gets to a third. No
name of a module is taken to begin with the text of another's entry ("a text" and
"a text2 text"). The heap and the class of items have room: no result of an
allocation is looked at in the module, and the model says nothing of what follows
when one is refused.

### LogBuffer

A line is what kind it is and `Asked`, the length `vsnprintf` returns. Buffer and file
hold which line of which start they have. A write may store any part of what it is
given, and the power may go between any two calls; the file may or may not be
removed when the plugin starts again. The text of a line is not modelled: a line
longer than the string it is formatted in (`log.c:42`) is copied with what follows
the string. A line may be of any length: one longer than the whole buffer is copied past
its end (`log.c:57`), and the start then ends in "over", of which nothing more is said.

### Dumpers

`dp_file` outlives a restart. A unit of data is named by its source and its place.
`dp_fails` counts failed calls, and a power loss counts as one. The header of an SLB2 file
that is shorter than a sector is what the stack holds (`slb2_dumper/src/main.c:172`
and `209` do not look at the result of the read): no header, or the one of either
partition. The seek to an entry is not looked at (`185`): it may fail, and where the entry
lies behind the end of an image cut short whether it does is the file system's choice; the
entry is then copied from where the last copy ended, and `dp_astray` remembers its file. A
device larger than `DpLargest` (0xFFFFFFFF) is not copied (`255`). `SlbKeeps` says nothing of the file with the hash: when the directory
could not be made, every start hashes again.

### ModuleLoader, Allocators, ActVerifier, Corelock

The module loader's `cvtStrToDec` keeps the width of its number (`MlWrap`), so a number
typed past it finds the entry of what is left of it; an empty read of the console, which
clears the byte before the line (`main.c:201`), goes on or ends in "fault". `Allocators` turns each plugin
into the list of what it takes and gives, with how many steps are skipped when
something is refused; `al_lost` names the blocks that `PafCustomMalloc` loses when
realloc fails. The data of `ActVerifier` are words of four named bytes;
the version is counted in units of 0x1000, as the code masks it; what the ciphers find
(the mac of the data and that of the NVS) is a choice, only the digest follows from the
data. In `Corelock` the lock
is external: `MayPass` is what the comment at `main.c:29` says of it. `cl_made` are
the threads that could be created.

`Tools` runs one of these six, or the eMMC dumper, at a time, so that one instance asks
one question of all:
what is left behind, and whether it ends. Weak fairness is assumed of `ToolStep`, the
steps of the tool itself; not of the power going off, nor of a user at the console of
the loader. Of the core lock, `ToolFinishes` requires an end only when all threads
could be made: without one the others wait for ever, which the model shows too.

## Runs

| Run | Instance | Shows |
| --- | --- | --- |
| `tree` | 3 cells, 4 vnodes, no open file, 4 paths | links stay a tree, back pointers stay fresh, success loses nothing, creation keeps names unique |
| `files` | 3 cells, 3 vnodes, 2 file objects | an open file keeps its entry, counters are exact, control objects have owners |
| `refused`, `cursor` | 2 cells, 2 vnodes, 1 file object | violations, see below |
| `shared` | 2 vnodes, 2 file objects, blocks of 2, size up to 4 | without a resize no overrun, sizes of vnodes never ahead, `ByteFile` implemented |
| `writers` | 3 callers, 2 vnodes, 2 blocks of the heap, blocks of 2, size up to 3 | only a growing write beside another handler, or a write beside a write, does harm |
| `resized` | the same with every size for chstat | the buffer covers the size, and only an empty write behind a truncated end loses that |
| `truncate` | 1 vnode, 2 file objects, truncation to 0 | violation, see below |
| `windows` | both ways to start, 2 work items | the screen agrees with HDMI when all is quiet, and gets there |
| `race` | HDMI may change in a window | violation, see below |
| `listing` | 3 modules of one segment each, two of one name and one whose name begins with 0, at most 2 loaded; 3 vnodes, 3 items, 2 cells, 2 openings of each vnode; `map_conf1` of two words of 2 bytes | the list of items is sound and complete, the listing owns its cells, only handles it outlived lead to freed ones, positions stay within sizes, handles are what their paths find |
| `tools` | partitions of 3, 4 and 6 units, buffer of 2, sizes up to 5, two starts of the eMMC dumper; reports of up to 44 lines in a buffer of 118, lines of 118 and 119, two starts; the dumpers on partitions of 8, 5 and 9 units, of which the last is too large, in chunks of 2, two starts, one failure; 4 paths; tables of 3; 2 to 5 words | order and completeness of logs and dumps, files are pieces of what they are of, what was there stays, numbers, ownership of blocks, reversal, firmware range, termination |

Why the bounds are enough to see the interesting cases:

- Three cells are the root, a directory and an entry that moves between the two;
  with four vnodes the root, the directory, the entry and the vnode a rename makes
  exist at once. Three vnodes are enough for an entry opened through two of them.
- A block of two bytes has a request below, at and above its size, and a file of
  four bytes grows twice.
- Three callers on two vnodes are two on one vnode, which exclude each other, and one
  beside them; two blocks are the buffer and the one a growing write is about to put in
  its place. A block that a race leaks stays taken, so that later growth is refused: what
  follows a race is not what the properties are about.
- Two work items let a second suspend and resume overtake the first item.
- Two vnodes beside the root, opened twice each over three items, have an item in the
  middle of the list closed, a directory and a file of it open at once, and the
  listing rebuilt, longer or shorter, under both. Items, cells and the vnodes other than
  the root's are symmetric.
- Three modules are two that share a name, one of which comes and goes, and one whose
  file cannot be found, which does too (`ComeAndGo`); no more are loaded than the heap
  has cells for (`HeapHolds`). A configuration of two words of two bytes is written in
  pieces that end before, in and behind a word. Paths whose first part begins with 0 are
  left to the theorems: they can be opened beside anything else, and make the instance
  three times as large.
- Lines of 29 bytes fill a buffer of 118 to its last byte but one, and 100 more do
  not fit with any other; one of 118 fills it to the last byte and one of 119 does not fit
  at all; the reports hold every kind of line.
- The entry in the last of four sectors lies behind the end of an image cut short before
  it. One failure is enough: it, or the loss of power, cuts the image short, and a seek
  behind the end of one fails or not at no cost.
- Three rows make the first, a middle and the last; two to five words are both
  parities of the in-place loop; the versions are those at both ends of the range
  and of the number.
- A partition of three units has a whole buffer and a rest, one of four ends with
  a whole buffer, the one of six is refused. The second start sees everything the
  first can leave behind.

Every passing run was also checked against the mistakes named `Bug_...` beside the
definitions: each property is violated when one of them takes the place of the
code's definition.

### What the runs found

- `refused` (`InUseStaysInTree`): `vop_remove` and `vop_rmdir` unlink the entry
  (`main.c:421-433`, `507-519`) before `delete_dmass_info` refuses to free one that
  is open ("Has other refer", `fs_tool.c:267`). The caller is told of an error, and
  the entry can no longer be found, removed or freed.
- `cursor` (`CursorLive`): the cursor of an open directory (`fs_tool.h`, "for
  dread") is counted by nobody, so the entry it leads to can be freed; the next
  `vop_dread` reads a freed cell.
- `truncate` (`CopiesInBounds`): a file object keeps its offset while another one
  truncates the file, and `vop_write` then copies to an offset behind the buffer it
  has just sized (`main.c:355`, `365`).
- `race` (`QuietAgrees`): a task of DevkitTV reads "disconnected", HDMI is connected
  and the hook turns the screen off, and the task turns it on again; nothing
  corrects it.

Not stated as properties, because nothing in the repository promises the
contrary, but reached by the models:

- a file of "kernel modules", or a half-read listing, leads to freed entries once the
  directory is opened again;
- two growing writes through two vnodes free one buffer twice, and a write that grows
  the file frees the buffer under a reader on another vnode;
- a module loader's number past 2^32 wraps;
- an empty write from behind a truncated end gives the file a size without a buffer;
- a module whose name begins with the character 0 is listed by `host0:` and cannot be opened:
  its path leads to the directory, which opens for reading as a file of no bytes;
- `map_conf1` written in two pieces takes both from its beginning;
- an entry of an SLB2 image cut short may be extracted from the wrong place;
- DevkitTV reports a successful start without its hooks;
- a line longer than the log's buffer is copied past its end;
- a dump or a hash may be made of a file that was cut short, and a dump cut short is
  skipped by every later start, because the file that `write_file_from_fd` has sized at
  once is there;
- a rename onto a name that exists hides the older entry, and one after the retirement
  of the vnode in `pNode` dereferences NULL.

## Proofs

All theorems are checked by TLAPS from the named assumptions of the modules
(`DmassAssumption`, `FileAssumption`, `WritersAssumption`, `DevkitAssumption`,
`DumperAssumption`, `DumpersAssumption`, `HostAssumption`, `LogAssumption`,
`LoaderAssumption`, `ActAssumption`, `AllocatorsAssumption`) and hold for every value of the constants.

- `DmassTree_proofs`: `TypeOK`, `ReferCountsObjects`, `ObjectsOwned` and
  `BackPointerFresh` are inductive together. Type correctness alone is not: that
  `refer` stays a natural number needs the counter to be exact, exactness under
  `vop_close` needs the closing object to hang on one entry only, and that is
  `ObjectsOwned`. The shape of the lists plays no part: the step lemmas say what a
  handler does to the entry it picks, however it found it.
- The shape of the tree, in the same module: `TreeInv` adds to the invariant that some set of entries
  (`Shape`) is allocated, closed under the links and entered by at most one link at each
  entry, that the vnodes in use lead to allocated entries, and that an entry knows the
  files open on it. The set exists; it need not be what a walk finds. That the recursive
  walks (`Chain`, `FindInList`, `get_fs_entry`, `Reachable`) stay in it is shown by
  induction on their length. The induction is `NatSetInduction`, stated for a set instead
  of a predicate and derived from the well-foundedness of strict inclusion; the recursive
  functions are first shown to exist (`ChainIs`, `PathWalkIs`, `ReachIs`). From it follow
  `OpenFileBacked` and `SingleParent`.
- That the walks miss no entry, the converse, is `WalksRight`: a list, and the tree, is the
  least set that holds its start and is closed under the links. It rests on `TreeInv` (at
  most one link leads to an entry, so no chain comes back), on the root having no sibling
  (`RootAlone`), and on the walks being bounded by the number of cells. From it follow
  `CreationKeepsNamesUnique` (the lookup before a creation would have met the name) and
  `SuccessLosesNothing` (what is unlinked is freed, or linked again by the same call into a
  directory that is still reached, because the layer above does not move an entry below
  itself). Both compare the tree before and after a step, so the lemmas (`CreateLinks`,
  `UnlinkLinks`, `MoveLinks`) say which links a handler changes. `DmassAssumption` says
  that the fault of a lookup is no entry and not NULL.
- `DmassFile_proofs`: with `TypeOK`, every step keeps `BufferCoversSize` but an empty write
  that raises the size (`CoverLostByEmptyWrite`), for any sequence of resizes. Without resizes (`ChstatSize = {}`) the invariant `BoundInv`
  adds that sizes in vnodes and offsets do not pass the size, and that the buffer
  has whole blocks; from it follow `CopiesInBounds`, `CopyNotAhead`, and that every
  step is one of `ByteFile` under the mapping that takes the first `st_size` bytes
  of the buffer.
- `DmassWriters_proofs`: `Sound` says what each caller relies on at its step while nothing
  has raced: the pointer it holds is the present one, and what it is about to copy has
  room. A growing write is alone, so only it sees a buffer in between; a write that stays
  in its buffer leaves everything a reader has read. `FaultsNeedRace` and
  `QuietFileWhole` follow.
- `DevkitTV_proofs`: `TypeOK` needs that a suspend leaves room in the queue;
  `QuietAgrees` without `Races` follows from `SeenFresh` (a task that is about to
  act has read the present state) and `Attended` (a screen that disagrees has
  somebody who will put it right).
- `Tools_proofs`, the eMMC dumper: `Position` says where the copy stands at each call and that
  file, buffer and position of the partition fit together; with it
  `PrefixThenFill` and `UncutIsComplete` are inductive, and `CompleteStays` follows
  for every step. `StartReachesAll` needs `Passed`: what the list has behind it has its
  file, as long as no call of this start failed.
- `HostFs_proofs`: `HostTypeOK` (with `SeekWithinSize`), `LinksAgree`, `ListingOwned` and
  `FreshHandlesLive` are proved from one inductive invariant. The links agree because
  whatever item `getFileEntryByNode` returns is a live one, so its neighbours are. That
  a fresh handle is live needs the listing to own its cells, and that every fresh
  pointer into the heap leads into the present listing, which the next entry of a
  `dread` keeps.
- What is looked up, in the same module: `HandlesReached` counts the items that the walk of
  `getFileEntryByNode` meets per vnode, and follows from the links forming one chain
  through all live items (`WInv`). `FilesFound` rests on the tree being as it was mounted
  (`TreeMade`) and on the order of the static names: no entry stands behind one whose name
  begins its own, so a walk passes only entries of other names before the first of the name.
  `HandleIsPath` rests on what each kind of opening stores in its item (`HandlesStand`), and
  on a vnode keeping its path while anything is open on it. `HostAssumption` says that
  `ZERO` is no entry, and that no cell is one of the static entries.
- `LogBuffer_proofs`: `LogInOrder` follows from an invariant on the pieces
  of file and buffer: each is older than the next, and all are older than the message to
  come.
- `Tools_proofs`, the activation verifiers: the loop invariant says of each word whether the loop has passed
  it from either end; at the end the middle word is the only one left, and only when
  their number is odd. `FwAccepted` follows from unsigned arithmetic and from the
  second reversal undoing the order the key leaves.
- `Tools_proofs`, the module loader: numbers count the list from its end, and no path still to be
  added is on it; from both, that a path and a number find one entry each.
- `Tools_proofs`, the allocators: `BlocksOwned` alone is not inductive, as whether a give is
  right depends on what the steps before it left in the slot. Each program has a plan
  (`PlanOf`) that says, before every step, which slots may hold a block and of which heap;
  `Leads` says that a plan and the steps of a program fit together. Plans of straight lines, of
  loops of any number of rounds and of jumps are put together by `LeadsOn`, `LeadsAgain`
  and `LeadsUnless`, so a table or a list of sizes may have any length. The inductive
  invariant `AlIInv` then says of the state that it is within the plan: blocks are named for
  earlier steps, no two slots hold one block, a block is held or lost, and a block of the
  program's own heap is there only with that heap. What a step does to it is said once for
  each kind of step (`Taken`, `NotTaken`, `NothingGiven`, `GivenBack`, `Moved`, `Lost`).
- `Tools_proofs`, the composition: a step of `Tools` is a step of one tool that leaves the
  others' variables alone, so `ToolsSpec` implies the specification of each of the seven
  (`ToolsAreTheirOwn`), and the types (`ToolsTypeOK`) and all safety properties of the
  tools hold of the composition (`ToolsKeepAll`).
- `Dumpers_proofs`: `DpInv` adds to the types where a start stands, and that what it is
  about to write to is no file of an earlier start. For the entries of a directory that
  needs `Housed`: a file of a directory is there only with its directory, so a directory
  that was not there when the start began had no files. `SlbKeeps` follows for every step.
  `DpContent` says how far a copy is: what is in the file is a beginning of what it is to
  become, the position of the read is right behind it, and what is left is what is missing;
  a copy whose seek failed has consecutive units of the partition instead.
  It holds whether the source is the partition or an image that was cut short, and whether
  the header came from the image or from the stack; from it follows what `SlbPieces` says of
  every file. The other half, that a start which got to its end without any failure leaves
  everything, is `AllWhole`: every image but the one the copy is at is whole, every
  directory but the one being filled is whole with its hash and entries, the loop over the
  entries has whole ones behind it, and every job behind the present one has left its file.
  Both halves are about one header per partition that describes it (`SlbFits` in
  `DumpersAssumption`): its entries lie in the partition and have names of their own. The
  jobs dump the image before its directory (`BinsFirst`), which is why a hash without a
  failure is one of the whole image.

Only model-checked: `Converges` and `ToolFinishes`, which rest on fairness and so are
outside what TLAPS proves. Every invariant and every action property of a passing run is a
theorem.

## What is left out

- Of the RAM file system: dates, attributes and the fields `unk_*`; `prev_node`,
  set by lookups and not read; the mode check of chstat; get_stat, sync, ioctl and
  devctl, which change nothing; rename across mounts; debug output.
- Handlers of the tree that run at the same time, and concurrent `vop_pread`,
  `vop_pwrite` and chstat: `DmassWriters` has the read, the write and the seek.
- Of DevkitTV: the callback of idle dimming; what dimming does to the screen is not
  in the source.
- Of the dumper: the lights (GPO), and the thread around the dump.
- Of the old `host0:`: the bytes that are read and written, but for the configuration, dates and modes, the kernel's
  own memory behind the files, calls that run at the same time (whether SceVfs
  serialises them is not in the repository), and a heap that is full.
- Of the analysis plugins: code behind `if(0)`, hooks that are commented out, the text of
  the lines.
- Of the allocator tests: sizes, times and contents. Of the verifiers: the ciphers.
  Of `idstorage_verifier`: what it prints of a certificate.
- The components listed as not modelled in the inventory: they keep no state between
  calls, or their state belongs to a part of the system that is not in the repository.

## Plan

1. *DmassWriters* with chstat, and with `vop_pwrite`, which shares the body of
   `vop_write`.
2. *Namespace*: the tree as a map from paths to entries, and `DmassTree` shown to
   implement it where calls succeed.
3. `HostFs` with calls that interleave, once it is known what SceVfs locks, and with
   allocations that fail.
4. The process contexts of `dmass_process.c`, should they be registered.
