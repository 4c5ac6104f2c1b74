---------------------------- MODULE MudaqDriver ----------------------------
(***************************************************************************)
(* The kernel driver of the PCIe board, the programs that have its file    *)
(* open, and the part of the DMA engine that walks through the table of    *)
(* host addresses the driver has given it.                                 *)
(*                                                                         *)
(* Memory is counted in pages; a block of the engine fills one page.  Page *)
(* 0 stands for the address of an entry of the table that is cleared.      *)
(***************************************************************************)
EXTENDS Integers, Sequences, FiniteSets

CONSTANTS
  Users,      \* programs that open /dev/mudaq0
  HostPages,  \* pages the kernel can allocate
  Junk,       \* those of which an earlier host may have left the address in the table
  BufPages,   \* pages of the DMA buffer: MUDAQ_DMABUF_DATA_LEN (8192)
  EntryPages, \* pages of the first allocation tried (1024)
  Locations,  \* locations of the table (4096)
  IntEvery,   \* blocks to an interrupt (64)
  MaxProbes, MaxEvents, MaxBlocks \* bounds: probes, interrupts, blocks since the engine was enabled

ASSUME PageAssumption ==
  /\ HostPages \subseteq Nat \ {0} /\ Junk \subseteq HostPages
  /\ {BufPages, EntryPages, Locations, IntEvery} \subseteq Nat \ {0}
ASSUME BoundAssumption == {MaxProbes, MaxEvents, MaxBlocks} \subseteq Nat

VARIABLES
  mode, k, held,        \* the driver: what it is doing, how far, what it has acquired
  entries, ctrlpage,    \* its memory: the list of dmabuf, the control buffer
  event, seen,          \* interrupts, to_user[0]
  file,                 \* of each program: what it does with the file
  on, irqs, ctrl, n,    \* registers: DMA and interrupts enabled, control address, number of addresses
  table,                \* RAM of the engine with the host addresses
  master,               \* bus mastering is enabled
  state, target,        \* the engine: what it is doing, the page of the block under way
  addr, count, blocks,  \* its place in the table, blocks since it was last disabled
  moved,                \* history: the table was filled under an engine that was not disabled
  probes

driver == <<mode, k, held, probes>>
buffers == <<entries, ctrlpage>>
events == <<event, seen>>
place == <<addr, count, blocks>>
engine == <<state, target, place>>
registers == <<on, irqs, ctrl, n, table>>
vars == <<driver, buffers, events, file, registers, master, engine, moved>>

Cleared == [handle |-> 0, pages |-> 0]
Entry == [handle : HostPages, pages : 1..EntryPages]
PagesOf(e) == e.handle .. e.handle + e.pages - 1
BufferPages(list) == UNION {PagesOf(list[j]) : j \in 1..Len(list)}
Own == BufferPages(entries) \cup (IF "ctrl" \in held THEN {ctrlpage} ELSE {})

(* The registers after a reset; the RAM keeps what an earlier host wrote. *)
Init ==
  /\ mode = "absent" /\ k = 1 /\ held = {} /\ probes = 0
  /\ entries = <<>> /\ ctrlpage = 0 /\ event = 0 /\ seen = 0
  /\ file = [u \in Users |-> "closed"]
  /\ on = FALSE /\ irqs = FALSE /\ ctrl = 0 /\ n = 0 /\ master = FALSE
  /\ \E e \in {Cleared} \cup [handle : Junk, pages : {1}] : table = [l \in 0..Locations-1 |-> e]
  /\ state = "disabled" /\ target = 0 /\ addr = 0 /\ count = 0 /\ blocks = 0
  /\ moved = FALSE

-----------------------------------------------------------------------------
(***************************************************************************)
(* The engine.  "waiting" stands for a block that waits for the PCIe core, *)
(* too.                                                                    *)
(***************************************************************************)
(* mudaq_deactivate, and the end of a readout: two registers. *)
Deactivate == on' = FALSE /\ irqs' = FALSE

EngineOn ==
  /\ state = "disabled" /\ on /\ state' = "waiting"
  /\ UNCHANGED <<driver, buffers, events, file, registers, master, target, place, moved>>

(* Only without a complete block does the engine follow the register.  It  *)
(* then loses its place.                                                   *)
EngineOff ==
  /\ state = "waiting" /\ ~on /\ state' = "disabled"
  /\ addr' = 0 /\ count' = 0 /\ blocks' = 0 /\ moved' = FALSE
  /\ UNCHANGED <<driver, buffers, events, file, registers, master, target>>

(* Where the next block goes; the low memory at a cleared entry is page 0. *)
Target == IF table[addr] = Cleared THEN 0 ELSE table[addr].handle + count

(* A complete block is sent whether the engine is still enabled or not.    *)
StartBlock ==
  /\ state = "waiting" /\ master /\ blocks < MaxBlocks
  /\ state' = "sending" /\ target' = Target
  /\ UNCHANGED <<driver, buffers, events, file, registers, master, place, moved>>

(* Mutant: one page too many of each entry. *)
AdvanceLate ==
  IF count > table[addr].pages
  THEN count' = 0 /\ addr' = IF addr + 1 >= n THEN 0 ELSE addr + 1
  ELSE count' = count + 1 /\ UNCHANGED addr

(* After a block: the next page, the next entry, the beginning. *)
Advance ==
  IF count + 1 >= table[addr].pages
  THEN count' = 0 /\ addr' = IF addr + 1 >= n THEN 0 ELSE addr + 1
  ELSE count' = count + 1 /\ UNCHANGED addr

(* Mutant: a process is woken from its sleep only: it has been marked too late. *)
InterruptSleepers ==
  /\ event' = event + 1
  /\ file' = [u \in Users |-> IF file[u] = "asleep" THEN "reading" ELSE file[u]]

(* A handled interrupt counts and wakes all who are marked as sleeping. *)
Interrupt ==
  /\ event' = event + 1
  /\ file' = [u \in Users |-> IF file[u] \in {"marked", "unseen", "asleep"} THEN "reading" ELSE file[u]]

FinishBlock ==
  /\ state = "sending" /\ master /\ state' = "waiting"
  /\ Advance /\ blocks' = blocks + 1
  /\ IF irqs /\ (blocks + 1) % IntEvery = 0 /\ "msi" \in held
     THEN event < MaxEvents /\ Interrupt
     ELSE UNCHANGED <<event, file>>
  /\ UNCHANGED <<driver, buffers, seen, registers, master, target, moved>>

-----------------------------------------------------------------------------
(***************************************************************************)
(* The buffer: entries of ever smaller size until it is large enough,      *)
(* sorted by address.  It has exactly the size asked for.                  *)
(***************************************************************************)
Sizes == {s \in 1..EntryPages : EntryPages % s = 0 /\ \E e \in 0..EntryPages : s = 2^e}
Free == HostPages \ {ctrlpage}

Layouts ==
  {list \in UNION {[1..m -> [handle : Free, pages : Sizes]] : m \in 1..BufPages} :
     /\ BufferPages(list) \subseteq Free /\ Cardinality(BufferPages(list)) = BufPages
     /\ \A j \in 2..Len(list) : list[j-1].handle + list[j-1].pages <= list[j].handle}

(* dmabuf_mmap: the page of the buffer a program finds at place i of its mapping. *)
Mapped(i) ==
  LET start[j \in 1..Len(entries)] == IF j = 1 THEN 0 ELSE start[j-1] + entries[j-1].pages
      j == CHOOSE e \in 1..Len(entries) : i \in start[e] .. start[e] + entries[e].pages - 1
  IN entries[j].handle + i - start[j]

(* Mutant: the table is filled from location 1. *)
FillFromOne ==
  /\ table' = [l \in 0..Locations-1 |-> IF l \in 1..Len(entries) THEN entries[l] ELSE table[l]]
  /\ n' = (Len(entries) + 1) % Locations
  /\ moved' = (state # "disabled")

(* The table of the device, in which an entry past the end overwrites one  *)
(* at the beginning.  The number of addresses is one more than there are.  *)
Fill ==
  /\ table' = [l \in 0..Locations-1 |->
       LET last == {j \in 1..Len(entries) : (j-1) % Locations = l /\ j + Locations > Len(entries)} IN
       IF last = {} THEN table[l] ELSE entries[CHOOSE j \in last : TRUE]]
  /\ n' = (Len(entries) + 1) % Locations
  /\ moved' = (state # "disabled")

(* Mutant: only the number of addresses is cleared. *)
ClearNumber == n' = 0 /\ UNCHANGED table

Clear == n' = 0 /\ table' = [l \in 0..Locations-1 |-> Cleared]

-----------------------------------------------------------------------------
(***************************************************************************)
(* probe and remove.  A step that fails leads to the label from which on   *)
(* everything acquired is given back; what is not held is skipped.         *)
(***************************************************************************)
Steps == <<"alloc", "enable", "mmio", "ctrl", "minor", "dmabuf", "name", "misc",
           "dmaname", "miscdma", "table", "msi">>

(* Mutant: the files disappear after the memory. *)
LabelsLate == <<"deactivate", "clear", "msi", "deactivate", "clear", "dmabuf", "minor", "misc", "name",
                "miscdma", "dmaname", "ctrl", "mmio", "enable", "alloc", "end">>

Labels == <<"deactivate", "clear", "msi", "deactivate", "clear", "misc", "name", "miscdma",
            "dmaname", "dmabuf", "minor", "ctrl", "mmio", "enable", "alloc", "end">>

(* Mutant: a failure of the interrupt leaves the device registered. *)
CleanupShort(step) ==
  CASE step = "msi" -> 12
    [] step \in {"minor", "dmabuf", "name", "misc", "dmaname", "miscdma"} -> 4
    [] step = "ctrl" -> 13
    [] step = "mmio" -> 14
    [] step = "enable" -> 15
    [] step = "alloc" -> 16

(* The label a step jumps to when it fails. *)
Cleanup(step) ==
  CASE step \in {"minor", "dmabuf", "name", "misc", "dmaname", "miscdma", "msi"} -> 4
    [] step = "ctrl" -> 13
    [] step = "mmio" -> 14
    [] step = "enable" -> 15
    [] step = "alloc" -> 16

Probe ==
  /\ mode = "absent" /\ probes < MaxProbes /\ probes' = probes + 1
  /\ mode' = "probe" /\ k' = 1
  /\ UNCHANGED <<held, buffers, events, file, registers, master, engine, moved>>

Acquire ==
  /\ mode = "probe"
  /\ held' = held \cup ({Steps[k]} \ {"table"})
  /\ IF k = Len(Steps) THEN mode' = "live" /\ k' = 1 ELSE k' = k + 1 /\ UNCHANGED mode
  /\ CASE Steps[k] = "ctrl" ->
            /\ ctrlpage' \in HostPages /\ ctrl' = ctrlpage' /\ Deactivate
            /\ UNCHANGED <<entries, events, n, table, master, moved>>
       [] Steps[k] = "dmabuf" ->
            /\ entries' \in Layouts
            /\ UNCHANGED <<ctrlpage, events, registers, master, moved>>
       [] Steps[k] = "table" ->
            Deactivate /\ Fill /\ UNCHANGED <<buffers, events, ctrl, master>>
       [] Steps[k] = "msi" ->
            master' = TRUE /\ event' = 0 /\ UNCHANGED <<buffers, seen, registers, moved>>
       [] Steps[k] = "alloc" ->
            seen' = 0 /\ UNCHANGED <<buffers, event, registers, master, moved>>
       [] OTHER -> UNCHANGED <<buffers, events, registers, master, moved>>
  /\ UNCHANGED <<probes, file, engine>>

(* Without a number or a name mudaq_register comes to err_out with error   *)
(* still 0: what is held is given back, and probe goes on.                 *)
Fails ==
  /\ mode = "probe" /\ Steps[k] # "table"
  /\ mode' = IF Steps[k] \in {"minor", "name", "dmaname"} THEN "lost" ELSE "remove"
  /\ k' = Cleanup(Steps[k])
  /\ master' = (master \/ Steps[k] = "msi")
  /\ UNCHANGED <<probes, held, buffers, events, file, registers, engine, moved>>

(* rmmod: the module is in use while a file is open. *)
Remove ==
  /\ mode = "live" /\ \A u \in Users : file[u] = "closed"
  /\ mode' = "remove" /\ k' = 1
  /\ UNCHANGED <<probes, held, buffers, events, file, registers, master, engine, moved>>

Gone == {Labels[k]} \cap {"msi", "misc", "name", "miscdma", "dmaname", "dmabuf", "minor",
                          "ctrl", "mmio", "enable", "alloc"}

(* Clearing takes 4096 writes that are read back: a block that was on its  *)
(* way to a page of the table is finished by then.  The registers are      *)
(* unmapped under a file that is still open.                               *)
Release ==
  /\ mode \in {"remove", "lost"} /\ Labels[k] # "end"
  /\ ~(mode = "lost" /\ Labels[k] = "ctrl")
  /\ k' = k + 1 /\ held' = held \ Gone
  /\ file' = IF Labels[k] # "mmio" THEN file
             ELSE [u \in Users |-> IF file[u] = "closed" THEN "closed" ELSE "stale"]
  /\ CASE Labels[k] = "deactivate" /\ "minor" \in held ->
            Deactivate /\ UNCHANGED <<entries, ctrlpage, ctrl, n, table, master>>
       [] Labels[k] = "clear" /\ "minor" \in held ->
            /\ state = "sending" => target = 0
            /\ Clear /\ UNCHANGED <<entries, ctrlpage, on, irqs, ctrl, master>>
       [] Labels[k] = "dmabuf" ->
            entries' = <<>> /\ UNCHANGED <<ctrlpage, registers, master>>
       [] Labels[k] = "ctrl" ->
            /\ Deactivate /\ ctrl' = 0 /\ ctrlpage' = 0
            /\ UNCHANGED <<entries, n, table, master>>
       [] Labels[k] = "enable" ->
            master' = FALSE /\ UNCHANGED <<buffers, registers>>
       [] OTHER -> UNCHANGED <<buffers, registers, master>>
  /\ UNCHANGED <<mode, probes, events, engine, moved>>

(* The end of remove, and setup_msi on a device that is not registered. *)
Ends ==
  /\ \/ mode = "remove" /\ Labels[k] = "end" /\ mode' = "absent"
     \/ mode = "lost" /\ Labels[k] = "ctrl" /\ mode' = "oops"
  /\ k' = 1
  /\ UNCHANGED <<probes, held, buffers, events, file, registers, master, engine, moved>>

-----------------------------------------------------------------------------
(***************************************************************************)
(* The programs.                                                           *)
(***************************************************************************)
kernel == <<driver, buffers, master, engine, moved>>
Now(u, what) == file' = [file EXCEPT ![u] = what]

(* From misc_register, in the middle of probe, to misc_deregister.  The     *)
(* kernel refuses to open a file of a module that rmmod has begun to       *)
(* remove; the model does not tell that from the undoing of a failed probe *)
(* and lets the file be opened in both.                                    *)
Open(u) ==
  /\ file[u] = "closed" /\ "misc" \in held
  /\ Now(u, "open")
  /\ UNCHANGED <<kernel, events, registers>>

(* enable_continous_readout, with interrupts or without, by the program's  *)
(* own mapping of the registers.                                           *)
Enable(u) ==
  /\ file[u] \in {"open", "stale"} /\ on' = TRUE /\ irqs' \in BOOLEAN
  /\ UNCHANGED <<kernel, events, file, ctrl, n, table>>

Disable(u) ==
  /\ file[u] \in {"open", "stale"} /\ Deactivate
  /\ UNCHANGED <<kernel, events, file, ctrl, n, table>>

(* mudaq_fops_release, also when the program is killed. *)
Close(u) ==
  /\ file[u] \in {"open", "asleep"}
  /\ Now(u, "closed") /\ Deactivate
  /\ UNCHANGED <<kernel, events, ctrl, n, table>>

(* An ioctl that is not the driver's own clears the table. *)
IoctlFails(u) ==
  /\ file[u] = "open" /\ Now(u, "failing") /\ Deactivate
  /\ UNCHANGED <<kernel, events, ctrl, n, table>>

IoctlClears(u) ==
  /\ file[u] = "failing" /\ Now(u, "open") /\ Clear
  /\ UNCHANGED <<kernel, events, on, irqs, ctrl>>

(* An operation on a file left over from a probe that failed uses memory   *)
(* that is no longer there.                                                *)
Crash(u) ==
  /\ file[u] = "stale" /\ mode' = "oops"
  /\ UNCHANGED <<k, held, probes, buffers, events, file, registers, master, engine, moved>>

(* read: mark, look, sleep, and from the beginning when woken. *)
Read(u) ==
  /\ file[u] = "open" /\ "msi" \in held /\ Now(u, "reading")
  /\ UNCHANGED <<kernel, events, registers>>

Mark(u) ==
  /\ file[u] = "reading" /\ Now(u, "marked")
  /\ UNCHANGED <<kernel, events, registers>>

Look(u) ==
  /\ file[u] = "marked"
  /\ IF event # seen THEN seen' = event /\ Now(u, "open")
     ELSE UNCHANGED seen /\ (Now(u, "unseen") \/ Now(u, "open"))
  /\ UNCHANGED <<kernel, event, registers>>

Sleep(u) ==
  /\ file[u] = "unseen" /\ Now(u, "asleep")
  /\ UNCHANGED <<kernel, events, registers>>

Next ==
  \/ Probe \/ Acquire \/ Fails \/ Remove \/ Release \/ Ends
  \/ EngineOn \/ EngineOff \/ StartBlock \/ FinishBlock
  \/ \E u \in Users :
       \/ Open(u) \/ Enable(u) \/ Disable(u) \/ Close(u)
       \/ IoctlFails(u) \/ IoctlClears(u) \/ Crash(u)
       \/ Read(u) \/ Mark(u) \/ Look(u) \/ Sleep(u)

Spec == Init /\ [][Next]_vars

-----------------------------------------------------------------------------
(* The type of the variables (struct mudaq, registers and engine). *)
Resources == {"alloc", "enable", "mmio", "ctrl", "minor", "dmabuf", "name", "misc",
              "dmaname", "miscdma", "msi"}
TypeOK ==
  /\ mode \in {"absent", "probe", "live", "remove", "lost", "oops"}
  /\ k \in 1..16 /\ held \subseteq Resources /\ probes \in 0..MaxProbes
  /\ entries \in Seq(Entry) /\ ctrlpage \in HostPages \cup {0}
  /\ event \in 0..MaxEvents /\ seen \in 0..MaxEvents
  /\ file \in [Users -> {"closed", "open", "failing", "reading", "marked", "unseen", "asleep", "stale"}]
  /\ on \in BOOLEAN /\ irqs \in BOOLEAN /\ ctrl \in HostPages \cup {0} /\ n \in 0..Locations-1
  /\ table \in [0..Locations-1 -> Entry \cup {Cleared}]
  /\ master \in BOOLEAN /\ moved \in BOOLEAN
  /\ state \in {"disabled", "waiting", "sending"} /\ target \in Nat
  /\ addr \in 0..Locations-1 /\ count \in 0..EntryPages /\ blocks \in 0..MaxBlocks

(* A failed probe and a remove give back everything that was acquired,     *)
(* whichever step failed and whenever a program opened the file, and leave *)
(* the board without bus mastering and, unless a file is left open, with   *)
(* the engine switched off.                                                *)
NoLeak ==
  mode = "absent" =>
    /\ held = {} /\ entries = <<>> /\ ~master /\ ctrl = 0
    /\ (\A u \in Users : file[u] = "closed") => ~on

(* The mapped registers and the buffers are there as long as a file of the *)
(* driver can be opened, through remove and the undoing of a failed probe; *)
(* and as long as one is open, unless it was opened before probe ended and *)
(* a later step of that probe fails.                                       *)
FilesHaveMemory ==
  \/ "misc" \in held
  \/ (mode \in {"probe", "live"} /\ \E u \in Users : file[u] \notin {"closed", "stale"})
  => {"alloc", "mmio", "ctrl", "dmabuf"} \subseteq held

(* The engine writes to no page the driver has given back, although it     *)
(* goes on sending complete blocks after mudaq_deactivate, however this,   *)
(* programs, remove and failing probes interleave.  Excepted are the low   *)
(* memory at a cleared entry (page 0), the location behind the last entry, *)
(* which nobody sets (see OwnPages), and an engine that was still not      *)
(* disabled when the next probe filled the table: it goes on at its old    *)
(* place, which may be past the end of a new entry.                        *)
NeverIntoFreed ==
  state = "sending" /\ master /\ ~moved =>
    /\ ctrl = 0 \/ ("ctrl" \in held /\ ctrl = ctrlpage)
    /\ target \in Own \cup {0} \/ (entries # <<>> /\ addr = Len(entries))

(* From the moment the engine has left "disabled", for the length of the   *)
(* buffer, block after block comes to the next page of the mapping of the  *)
(* programs, in whatever pieces the buffer could be allocated, and however *)
(* often it is switched off and on with blocks still to be sent.           *)
FirstLap == state = "sending" /\ ~moved /\ n # 0 /\ blocks < BufPages => target = Mapped(blocks)

(* No process sleeps over an interrupt it has not been told of. *)
NoSleepOverEvent == \A u \in Users : file[u] = "asleep" => event = seen

(* "reached end of DMA buffer, start at beginning again" (dma_engine.vhd): *)
(* the engine stays in the pages of the buffer.                            *)
OwnPages == state = "sending" /\ n # 0 => target \in Own
=============================================================================
