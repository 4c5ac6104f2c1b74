------------------------- MODULE MudaqDriverProofs -------------------------
(***************************************************************************)
(* Theorems about MudaqDriver, for any number of programs, any memory and  *)
(* any bounds.  Programs may open the file in the middle of probe, any     *)
(* step of it may fail, the engine sends complete blocks when it is        *)
(* switched off, and an oops may end the driver in any state.              *)
(***************************************************************************)
EXTENDS MudaqDriver, FiniteSetTheorems, SequenceTheorems, WellFoundedInduction, TLAPS

(* What is held while probe is at step k: the steps before it. *)
Probing ==
  /\ k \in 1..12 /\ held \subseteq Resources \ {"msi"}
  /\ ("alloc" \in held <=> k > 1) /\ ("enable" \in held <=> k > 2) /\ ("mmio" \in held <=> k > 3)
  /\ ("ctrl" \in held <=> k > 4) /\ ("minor" \in held <=> k > 5) /\ ("dmabuf" \in held <=> k > 6)
  /\ ("name" \in held <=> k > 7) /\ ("misc" \in held <=> k > 8) /\ ("dmaname" \in held <=> k > 9)
  /\ ("miscdma" \in held <=> k > 10)

(* What may still be held at label k: what the labels from k on give back. *)
Releasing ==
  /\ k <= 3 => held = Resources
  /\ ("msi" \in held => k <= 3) /\ ("misc" \in held => k <= 6) /\ ("name" \in held => k <= 7)
  /\ ("miscdma" \in held => k <= 8) /\ ("dmaname" \in held => k <= 9)
  /\ ("dmabuf" \in held => k <= 10) /\ ("minor" \in held => k <= 11)
  /\ ("ctrl" \in held => k <= 12) /\ ("mmio" \in held => k <= 13)
  /\ ("enable" \in held => k <= 14) /\ ("alloc" \in held => k <= 15)

Needed == {"alloc", "mmio", "ctrl", "dmabuf"}

Holding ==
  /\ mode \in {"absent", "live"} => k = 1
  /\ mode = "absent" => held = {}
  /\ mode = "probe" => Probing
  /\ mode = "live" => held = Resources
  /\ mode \in {"remove", "lost"} => Releasing
  /\ mode = "lost" => k \in 4..12
  /\ "misc" \in held => Needed \subseteq held

(* What is not held is not set. *)
Unheld ==
  /\ "dmabuf" \notin held => entries = <<>>
  /\ "ctrl" \notin held => ctrl = 0
  /\ "enable" \notin held => ~master

(* Where a program can have the file open, and where it can be reading:    *)
(* a file that is left when the registers are unmapped is stale from then  *)
(* on.  The engine is enabled by programs only.                            *)
Live == {"open", "failing", "reading", "marked", "unseen", "asleep"}
Reader == {"reading", "marked", "unseen", "asleep"}
OpenHere ==
  \/ mode \in {"live", "oops"}
  \/ mode = "probe" /\ k > 8
  \/ mode \in {"remove", "lost"} /\ k <= 13

Using ==
  /\ \A u \in Users : file[u] \in Live => OpenHere
  /\ \A u \in Users : file[u] \in Reader => mode # "probe"
  /\ on => \E u \in Users : file[u] # "closed"
  /\ state = "sending" => blocks < MaxBlocks

(* A reader that has seen no interrupt has seen all of them. *)
Seen == \A u \in Users : file[u] \in {"unseen", "asleep"} => event = seen

IInv == TypeOK /\ Holding /\ Unheld /\ Using /\ Seen

LEMMA StepAt ==
  /\ Len(Steps) = 12
  /\ Steps[1] = "alloc" /\ Steps[2] = "enable" /\ Steps[3] = "mmio" /\ Steps[4] = "ctrl"
  /\ Steps[5] = "minor" /\ Steps[6] = "dmabuf" /\ Steps[7] = "name" /\ Steps[8] = "misc"
  /\ Steps[9] = "dmaname" /\ Steps[10] = "miscdma" /\ Steps[11] = "table" /\ Steps[12] = "msi"
  BY DEF Steps

LEMMA LabelAt ==
  /\ Labels[1] = "deactivate" /\ Labels[2] = "clear" /\ Labels[3] = "msi"
  /\ Labels[4] = "deactivate" /\ Labels[5] = "clear" /\ Labels[6] = "misc"
  /\ Labels[7] = "name" /\ Labels[8] = "miscdma" /\ Labels[9] = "dmaname"
  /\ Labels[10] = "dmabuf" /\ Labels[11] = "minor" /\ Labels[12] = "ctrl"
  /\ Labels[13] = "mmio" /\ Labels[14] = "enable" /\ Labels[15] = "alloc" /\ Labels[16] = "end"
  BY DEF Labels

-----------------------------------------------------------------------------
(* The types, part by part. *)
Table == [0..Locations-1 -> Entry \cup {Cleared}]
Files == [Users -> Live \cup {"closed", "stale"}]
Registers == on \in BOOLEAN /\ irqs \in BOOLEAN
Engine ==
  /\ state \in {"disabled", "waiting", "sending"} /\ target \in Nat /\ moved \in BOOLEAN
  /\ addr \in 0..Locations-1 /\ count \in 0..EntryPages /\ blocks \in 0..MaxBlocks

LEMMA Bounds ==
  /\ HostPages \subseteq Nat \ {0} /\ Junk \subseteq HostPages
  /\ BufPages \in Nat \ {0} /\ EntryPages \in Nat \ {0}
  /\ Locations \in Nat \ {0} /\ IntEvery \in Nat \ {0}
  /\ MaxProbes \in Nat /\ MaxEvents \in Nat /\ MaxBlocks \in Nat
  BY PageAssumption, BoundAssumption

LEMMA FileType ==
  ASSUME TypeOK
  PROVE  file \in Files
  BY DEF TypeOK, Files, Live

LEMMA EngineType ==
  ASSUME TypeOK
  PROVE  Engine
  BY DEF TypeOK, Engine

(* What an action of the driver or of a program has to show.               *)
LEMMA TypeFrame ==
  ASSUME TypeOK,
         mode' \in {"absent", "probe", "live", "remove", "lost", "oops"}, k' \in 1..16,
         held' \subseteq Resources, probes' \in 0..MaxProbes,
         entries' \in Seq(Entry), ctrlpage' \in HostPages \cup {0},
         event' \in 0..MaxEvents, seen' \in 0..MaxEvents, file' \in Files,
         Registers', ctrl' \in HostPages \cup {0}, n' \in 0..Locations-1, table' \in Table,
         master' \in BOOLEAN, Engine'
  PROVE  TypeOK'
  BY DEF TypeOK, Files, Live, Registers, Table, Engine

\* The table has its type whatever is written to it.
LEMMA FillType ==
  ASSUME TypeOK, Fill
  PROVE  table' \in Table /\ n' \in 0..Locations-1 /\ moved' = (state # "disabled")
<1>1. entries \in Seq(Entry) /\ table \in Table
  BY DEF TypeOK, Table
<1>2. ASSUME NEW l \in 0..Locations-1, NEW last \in SUBSET (1..Len(entries))
      PROVE  (IF last = {} THEN table[l] ELSE entries[CHOOSE j \in last : TRUE])
               \in Entry \cup {Cleared}
  <2>1. CASE last = {}
    BY <1>1, <2>1 DEF Table
  <2>2. CASE last # {}
    <3>1. (CHOOSE j \in last : TRUE) \in last
      BY <2>2
    <3>2. \A j \in 1..Len(entries) : entries[j] \in Entry
      BY <1>1
    <3>3. entries[CHOOSE j \in last : TRUE] \in Entry
      BY <3>1, <3>2
    <3>. QED
      BY <2>2, <3>3
  <2>. QED
    BY <2>1, <2>2
<1>3. table' \in Table
  <2>. DEFINE L(l) == {j \in 1..Len(entries) : (j-1) % Locations = l /\ j + Locations > Len(entries)}
              V(l) == IF L(l) = {} THEN table[l] ELSE entries[CHOOSE j \in L(l) : TRUE]
  <2>1. \A l \in 0..Locations-1 : V(l) \in Entry \cup {Cleared}
    <3>. TAKE l \in 0..Locations-1
    <3>1. L(l) \in SUBSET (1..Len(entries))
      OBVIOUS
    <3>. QED
      BY <3>1, <1>2
  <2>2. table' = [l \in 0..Locations-1 |-> V(l)]
    BY DEF Fill
  <2>. QED
    BY <2>1, <2>2 DEF Table
<1>4. (Len(entries) + 1) % Locations \in 0..Locations-1
  <2>1. Len(entries) + 1 \in Nat
    BY <1>1
  <2>. QED
    BY <2>1, Bounds
<1>. QED
  BY <1>3, <1>4 DEF Fill

LEMMA ClearType ==
  ASSUME Clear
  PROVE  table' \in Table /\ n' \in 0..Locations-1
  BY Bounds DEF Clear, Table

LEMMA TargetType ==
  ASSUME TypeOK
  PROVE  Target \in Nat
<1>1. table[addr] \in Entry \cup {Cleared} /\ count \in Nat
  BY Bounds DEF TypeOK
<1>2. table[addr] # Cleared => table[addr].handle \in Nat
  BY <1>1, Bounds DEF Entry
<1>. QED
  BY <1>1, <1>2 DEF Target

LEMMA AdvanceType ==
  ASSUME TypeOK, Advance
  PROVE  addr' \in 0..Locations-1 /\ count' \in 0..EntryPages
<1>1. table[addr].pages \in 0..EntryPages
  <2>1. table[addr] \in Entry \cup {Cleared}
    BY DEF TypeOK
  <2>. QED
    BY <2>1, Bounds DEF Entry, Cleared
<1>2. addr \in Nat /\ count \in Nat /\ n \in 0..Locations-1 /\ addr \in 0..Locations-1
  BY Bounds DEF TypeOK
<1>. DEFINE p == table[addr].pages
<1>3. CASE count + 1 >= p
  BY <1>2, <1>3, Bounds DEF Advance
<1>4. CASE ~(count + 1 >= p)
  <2>1. count + 1 \in 0..EntryPages
    BY <1>1, <1>2, <1>4, Bounds
  <2>. QED
    BY <1>2, <1>4, <2>1 DEF Advance
<1>. QED
  BY <1>3, <1>4

LEMMA LayoutType ==
  ASSUME NEW list \in Layouts
  PROVE  list \in Seq(Entry)
<1>1. PICK m \in 1..BufPages : list \in [1..m -> [handle : Free, pages : Sizes]]
  BY DEF Layouts
<1>2. [handle : Free, pages : Sizes] \subseteq Entry
  BY DEF Free, Sizes, Entry
<1>3. m \in Nat
  BY Bounds
<1>4. list \in [1..m -> Entry]
  BY <1>1, <1>2
<1>. QED
  BY <1>3, <1>4

-----------------------------------------------------------------------------
(* Each action preserves the invariant.  First probe. *)
LEMMA ProbeKeeps ==
  ASSUME IInv, Probe
  PROVE  IInv'
<1>. USE DEF IInv, Probe
<1>1. TypeOK'
  BY Bounds DEF TypeOK, buffers, events, registers, engine, place
<1>2. Holding'
  BY DEF Holding, Probing, Resources
<1>3. Unheld'
  BY DEF Unheld, buffers, registers
<1>4. Using'
  BY DEF Using, OpenHere, Reader, Live, registers, engine, place
<1>5. Seen'
  BY DEF Seen, events
<1>. QED
  BY <1>1, <1>2, <1>3, <1>4, <1>5

LEMMA FailsKeeps ==
  ASSUME IInv, Fails
  PROVE  IInv'
<1>. USE DEF IInv, Fails
<1>1. k \in 1..12 /\ k # 11 /\ mode = "probe" /\ Probing /\ held' = held
  BY StepAt DEF Holding, Probing
<1>2. k' \in {4, 13, 14, 15, 16} /\ mode' \in {"remove", "lost"} /\ (k > 4 => k' = 4)
  BY <1>1, StepAt DEF Cleanup
<1>3. TypeOK'
  BY <1>2 DEF TypeOK, buffers, events, registers, engine, place
<1>4. Holding'
  <2>1. Releasing'
    BY <1>1, StepAt DEF Cleanup, Probing, Releasing, Resources
  <2>2. mode' = "lost" => k' = 4
    BY <1>1, StepAt DEF Cleanup
  <2>. QED
    BY <1>1, <1>2, <2>1, <2>2 DEF Holding, Needed
<1>5. Unheld'
  <2>1. "enable" \notin held => Steps[k] # "msi"
    BY <1>1, StepAt DEF Probing
  <2>2. "enable" \notin held => ~master'
    BY <2>1, Zenon DEF Unheld
  <2>. QED
    BY <1>1, <2>2 DEF Unheld, buffers, registers
<1>6. Using'
  <2>1. k > 8 => k' <= 13
    BY <1>1, <1>2
  <2>. QED
    BY <1>1, <1>2, <2>1 DEF Using, OpenHere, registers, engine, place
<1>7. Seen'
  BY DEF Seen, events
<1>. QED
  BY <1>3, <1>4, <1>5, <1>6, <1>7

LEMMA AcquireHolds ==
  ASSUME IInv, Acquire
  PROVE  Holding'
<1>. USE DEF IInv, Acquire
<1>1. mode = "probe" /\ Probing
  BY DEF Holding
<1>2. ASSUME k < 12 PROVE mode' = "probe" /\ k' = k + 1
  BY <1>1, <1>2, StepAt DEF Probing
<1>3. CASE k = 1
  BY <1>1, <1>2, <1>3, StepAt DEF Holding, Probing, Needed, Resources
<1>4. CASE k = 2
  BY <1>1, <1>2, <1>4, StepAt DEF Holding, Probing, Needed, Resources
<1>5. CASE k = 3
  BY <1>1, <1>2, <1>5, StepAt DEF Holding, Probing, Needed, Resources
<1>6. CASE k = 4
  BY <1>1, <1>2, <1>6, StepAt DEF Holding, Probing, Needed, Resources
<1>7. CASE k = 5
  BY <1>1, <1>2, <1>7, StepAt DEF Holding, Probing, Needed, Resources
<1>8. CASE k = 6
  BY <1>1, <1>2, <1>8, StepAt DEF Holding, Probing, Needed, Resources
<1>9. CASE k = 7
  BY <1>1, <1>2, <1>9, StepAt DEF Holding, Probing, Needed, Resources
<1>10. CASE k = 8
  BY <1>1, <1>2, <1>10, StepAt DEF Holding, Probing, Needed, Resources
<1>11. CASE k = 9
  BY <1>1, <1>2, <1>11, StepAt DEF Holding, Probing, Needed, Resources
<1>12. CASE k = 10
  BY <1>1, <1>2, <1>12, StepAt DEF Holding, Probing, Needed, Resources
<1>13. CASE k = 11
  BY <1>1, <1>2, <1>13, StepAt DEF Holding, Probing, Needed, Resources
<1>14. CASE k = 12
  <2>1. held' = Resources /\ mode' = "live" /\ k' = 1
    BY <1>1, <1>14, StepAt DEF Probing, Resources
  <2>. QED
    BY <2>1 DEF Holding, Needed, Resources
<1>. QED
  BY <1>1, <1>3, <1>4, <1>5, <1>6, <1>7, <1>8, <1>9, <1>10, <1>11, <1>12, <1>13, <1>14 DEF Probing

LEMMA AcquireKeeps ==
  ASSUME IInv, Acquire
  PROVE  IInv'
<1>. USE DEF IInv, Acquire
<1>1. /\ mode = "probe" /\ Probing /\ UNCHANGED <<file, state, target, addr, count, blocks>>
      /\ k \in 1..12
  BY DEF Holding, Probing, engine, place
<1>2. Holding'
  BY AcquireHolds
<1>3. mode' \in {"probe", "live"} /\ k' \in 1..16 /\ held' \subseteq Resources /\ probes' \in 0..MaxProbes
  <2>1. k \in 1..12 /\ held \subseteq Resources /\ probes \in 0..MaxProbes
    BY <1>1 DEF Probing, TypeOK
  <2>2. {Steps[k]} \ {"table"} \subseteq Resources
    BY <2>1, StepAt DEF Resources
  <2>3. k = 12 \/ k + 1 \in 1..16
    BY <2>1
  <2>. QED
    BY <1>1, <2>1, <2>2, <2>3, StepAt
<1>13. Using /\ \A u \in Users : ~(file[u] \in Reader)
  BY <1>1 DEF Using
<1>4. ASSUME on' => on PROVE Using'
  <2>1. OpenHere => OpenHere'
    BY <1>1, <1>3, StepAt DEF OpenHere
  <2>. HIDE DEF IInv, Acquire
  <2>2. \A u \in Users : file'[u] \in Live => OpenHere'
    BY <1>1, <1>13, <2>1 DEF Using
  <2>. QED
    BY <1>1, <1>4, <1>13, <2>2 DEF Using
<1>5. Seen'
  <2>1. \A u \in Users : ~(file'[u] \in Reader)
    BY <1>1, <1>13
  <2>. HIDE DEF IInv, Acquire
  <2>. QED
    BY <2>1 DEF Seen, Reader
<1>6. /\ file' \in Files /\ (moved' \in BOOLEAN => Engine')
      /\ entries \in Seq(Entry) /\ ctrlpage \in HostPages \cup {0}
      /\ event \in 0..MaxEvents /\ seen \in 0..MaxEvents /\ 0 \in 0..MaxEvents
      /\ Registers /\ ctrl \in HostPages \cup {0} /\ n \in 0..Locations-1 /\ table \in Table
      /\ master \in BOOLEAN /\ moved \in BOOLEAN /\ Registers
  BY <1>1, FileType, EngineType, Bounds, SMTT(30) DEF TypeOK, Engine, Registers, Table
<1>. HIDE DEF IInv
<1>7. TypeOK /\ Unheld
  BY DEF IInv
<1>8. CASE k = 4
  <2>1. /\ ctrlpage' \in HostPages /\ ctrl' = ctrlpage' /\ Deactivate
        /\ UNCHANGED <<entries, event, seen, n, table, master, moved>>
        /\ "ctrl" \in held' /\ held \subseteq held'
    BY <1>8, StepAt DEF events
  <2>2. TypeOK'
    BY <1>3, <1>6, <1>7, <2>1, TypeFrame DEF Deactivate, Registers
  <2>3. Unheld'
    BY <1>7, <2>1 DEF Unheld
  <2>. QED
    BY <1>2, <1>4, <1>5, <2>1, <2>2, <2>3 DEF IInv, Deactivate
<1>9. CASE k = 6
  <2>1. /\ entries' \in Layouts
        /\ UNCHANGED <<ctrlpage, event, seen, on, irqs, ctrl, n, table, master, moved>>
        /\ "dmabuf" \in held' /\ held \subseteq held'
    BY <1>9, StepAt DEF events, registers
  <2>2. TypeOK'
    BY <1>3, <1>6, <1>7, <2>1, LayoutType, TypeFrame DEF Registers
  <2>3. Unheld'
    BY <1>7, <2>1 DEF Unheld
  <2>. QED
    BY <1>2, <1>4, <1>5, <2>1, <2>2, <2>3 DEF IInv
<1>10. CASE k = 11
  <2>1. Deactivate /\ Fill /\ UNCHANGED <<entries, ctrlpage, event, seen, ctrl, master>> /\ held' = held
    BY <1>10, StepAt DEF events, buffers
  <2>2. table' \in Table /\ n' \in 0..Locations-1 /\ moved' \in BOOLEAN
    BY <1>7, <2>1, FillType
  <2>3. TypeOK'
    BY <1>3, <1>6, <1>7, <2>1, <2>2, TypeFrame DEF Deactivate, Registers
  <2>4. Unheld'
    BY <1>7, <2>1 DEF Unheld
  <2>. QED
    BY <1>2, <1>4, <1>5, <2>1, <2>3, <2>4 DEF IInv, Deactivate
<1>11. CASE k = 12
  <2>1. /\ master' = TRUE /\ event' = 0 /\ held \subseteq held'
        /\ UNCHANGED <<entries, ctrlpage, seen, on, irqs, ctrl, n, table, moved>>
    BY <1>11, StepAt DEF buffers, registers
  <2>2. TypeOK'
    BY <1>3, <1>6, <1>7, <2>1, TypeFrame DEF Registers
  <2>3. Unheld'
    BY <1>1, <1>7, <1>11, <2>1 DEF Unheld, Probing
  <2>. QED
    BY <1>2, <1>4, <1>5, <2>1, <2>2, <2>3 DEF IInv
<1>12. CASE k \in {1, 2, 3, 5, 7, 8, 9, 10}
  <2>1. /\ UNCHANGED <<entries, ctrlpage, on, irqs, ctrl, n, table, master, moved>> /\ held \subseteq held'
        /\ event' = event /\ seen' \in {seen, 0}
    BY <1>12, StepAt DEF events, buffers, registers
  <2>2. TypeOK'
    BY <1>3, <1>6, <1>7, <2>1, TypeFrame DEF Registers
  <2>3. Unheld'
    BY <1>7, <2>1 DEF Unheld
  <2>. QED
    BY <1>2, <1>4, <1>5, <2>1, <2>2, <2>3 DEF IInv
<1>. QED
  BY <1>1, <1>8, <1>9, <1>10, <1>11, <1>12

(* The way back, label by label. *)
LEMMA RemoveKeeps ==
  ASSUME IInv, Remove
  PROVE  IInv'
<1>. USE DEF IInv, Remove
<1>1. TypeOK'
  BY DEF TypeOK, buffers, events, registers, engine, place
<1>2. Holding'
  BY DEF Holding, Releasing, Needed, Resources
<1>3. Unheld'
  BY DEF Unheld, buffers, registers
<1>4. Using'
  BY DEF Using, Live, Reader, OpenHere, registers, engine, place
<1>5. Seen'
  BY DEF Seen, events
<1>. QED
  BY <1>1, <1>2, <1>3, <1>4, <1>5

LEMMA ReleaseAt ==
  ASSUME IInv, Release
  PROVE  /\ mode \in {"remove", "lost"} /\ Releasing /\ k \in 1..15 /\ k' = k + 1 /\ mode' = mode
         /\ (mode = "lost" => k \in 4..11)
<1>. USE DEF IInv, Release
<1>1. k \in 1..16 /\ k # 16 /\ mode \in {"remove", "lost"} /\ Releasing
  BY LabelAt DEF Holding, TypeOK
<1>2. mode = "lost" => k \in 4..12 /\ k # 12
  BY LabelAt DEF Holding
<1>3. k \in 1..15 /\ (mode = "lost" => k \in 4..11)
  BY <1>1, <1>2
<1>. QED
  BY <1>1, <1>3

LEMMA ReleaseHolds ==
  ASSUME IInv, Release
  PROVE  Holding'
<1>. USE DEF IInv, Release
<1>1. /\ mode \in {"remove", "lost"} /\ Releasing /\ k \in 1..15 /\ k' = k + 1 /\ mode' = mode
      /\ (mode = "lost" => k \in 4..11)
  BY ReleaseAt
<1>2. held \subseteq Resources /\ held' = held \ Gone
  BY DEF TypeOK
<1>3. Releasing'
  <2>1. k <= 2 => held' = held
    BY <1>1, LabelAt DEF Gone
  <2>2. /\ ("msi" \in held' => "msi" \in held /\ k # 3)
        /\ ("misc" \in held' => "misc" \in held /\ k # 6)
        /\ ("name" \in held' => "name" \in held /\ k # 7)
        /\ ("miscdma" \in held' => "miscdma" \in held /\ k # 8)
        /\ ("dmaname" \in held' => "dmaname" \in held /\ k # 9)
        /\ ("dmabuf" \in held' => "dmabuf" \in held /\ k # 10)
        /\ ("minor" \in held' => "minor" \in held /\ k # 11)
        /\ ("ctrl" \in held' => "ctrl" \in held /\ k # 12)
        /\ ("mmio" \in held' => "mmio" \in held /\ k # 13)
        /\ ("enable" \in held' => "enable" \in held /\ k # 14)
        /\ ("alloc" \in held' => "alloc" \in held /\ k # 15)
    BY <1>1, LabelAt, ZenonT(30) DEF Gone
  <2>. QED
    BY <1>1, <2>1, <2>2 DEF Releasing
<1>4. "misc" \in held' => Needed \subseteq held'
  <2>1. "misc" \in held' => "misc" \in held /\ k <= 6 /\ k # 6
    BY <1>1, LabelAt DEF Releasing, Gone
  <2>2. k \in 1..5 => Gone \subseteq {"msi"}
    BY LabelAt DEF Gone
  <2>3. k <= 6 /\ k # 6 => k \in 1..5
    BY <1>1
  <2>. QED
    BY <1>2, <2>1, <2>2, <2>3 DEF Holding, Needed
<1>. QED
  BY <1>1, <1>3, <1>4 DEF Holding

(* The label that unmaps the registers leaves no file but stale ones.      *)
LEMMA ReleaseUses ==
  ASSUME IInv, Release
  PROVE  /\ file' \in Files /\ Seen'
         /\ ((on' => on) => Using')
<1>1. /\ mode \in {"remove", "lost"} /\ k \in 1..15 /\ k' = k + 1 /\ mode' = mode
      /\ file \in Files /\ Using /\ Seen /\ UNCHANGED <<event, seen, state, blocks>>
  BY ReleaseAt, FileType DEF IInv, Release, events, engine, place
<1>2. \/ k # 13 /\ file' = file
      \/ k = 13 /\ file' = [u \in Users |-> IF file[u] = "closed" THEN "closed" ELSE "stale"]
  <2>1. Labels[k] = "mmio" <=> k = 13
    BY <1>1, LabelAt
  <2>. QED
    BY <2>1 DEF Release
<1>3. /\ file' \in Files
      /\ \A u \in Users : /\ file'[u] = "closed" <=> file[u] = "closed"
                          /\ file'[u] \in Live => file'[u] = file[u] /\ k # 13
  <2>1. CASE k # 13 /\ file' = file
    BY <1>1, <2>1
  <2>2. CASE k = 13 /\ file' = [u \in Users |-> IF file[u] = "closed" THEN "closed" ELSE "stale"]
    BY <1>1, <2>2 DEF Files, Live
  <2>. QED
    BY <1>2, <2>1, <2>2
<1>4. Seen'
  BY <1>1, <1>3 DEF Seen, Live
<1>5. ASSUME on' => on PROVE Using'
  <2>1. OpenHere /\ k # 13 => OpenHere'
    BY <1>1 DEF OpenHere
  <2>2. \A u \in Users : file'[u] \in Live => OpenHere'
    BY <1>1, <1>3, <2>1 DEF Using
  <2>3. \A u \in Users : file'[u] \in Reader => mode' # "probe"
    BY <1>1
  <2>4. on' => \E u \in Users : file'[u] # "closed"
    BY <1>1, <1>3, <1>5 DEF Using
  <2>5. state' = "sending" => blocks' < MaxBlocks
    BY <1>1 DEF Using
  <2>. QED
    BY <2>2, <2>3, <2>4, <2>5 DEF Using
<1>. QED
  BY <1>3, <1>4, <1>5

LEMMA ReleaseKeeps ==
  ASSUME IInv, Release
  PROVE  IInv'
<1>1. /\ mode \in {"remove", "lost"} /\ Releasing /\ k \in 1..15 /\ k' = k + 1 /\ mode' = mode
      /\ (mode = "lost" => k \in 4..11) /\ TypeOK /\ Unheld
  BY ReleaseAt DEF IInv
<1>2. Holding'
  BY ReleaseHolds
<1>3. /\ file' \in Files /\ Seen' /\ ((on' => on) => Using')
  BY ReleaseUses
<1>4. /\ held' \subseteq Resources /\ k' \in 1..16 /\ mode' \in {"remove", "lost"}
      /\ probes' \in 0..MaxProbes /\ event' \in 0..MaxEvents /\ seen' \in 0..MaxEvents /\ Engine'
      /\ held' = held \ Gone
  <2>1. UNCHANGED <<probes, event, seen, state, target, addr, count, blocks, moved>> /\ held' = held \ Gone
    BY DEF Release, events, engine, place
  <2>. QED
    BY <1>1, <2>1, EngineType DEF TypeOK, Engine
<1>5. /\ entries \in Seq(Entry) /\ <<>> \in Seq(Entry) /\ ctrlpage \in HostPages \cup {0}
      /\ Registers /\ ctrl \in HostPages \cup {0} /\ n \in 0..Locations-1 /\ table \in Table
      /\ master \in BOOLEAN
  BY <1>1 DEF TypeOK, Registers, Table
<1>6. CASE k \in {1, 4} /\ "minor" \in held
  <2>1. Deactivate /\ UNCHANGED <<entries, ctrlpage, ctrl, n, table, master>> /\ held' = held
    BY <1>6, LabelAt DEF Release, Gone
  <2>2. TypeOK'
    BY <1>1, <1>3, <1>4, <1>5, <2>1, TypeFrame DEF Deactivate, Registers
  <2>3. Unheld'
    BY <1>1, <2>1 DEF Unheld
  <2>. QED
    BY <1>2, <1>3, <2>1, <2>2, <2>3 DEF IInv, Deactivate
<1>7. CASE k \in {2, 5} /\ "minor" \in held
  <2>1. Clear /\ UNCHANGED <<entries, ctrlpage, on, irqs, ctrl, master>> /\ held' = held
    BY <1>7, LabelAt DEF Release, Gone
  <2>2. TypeOK'
    BY <1>1, <1>3, <1>4, <1>5, <2>1, ClearType, TypeFrame DEF Registers
  <2>3. Unheld'
    BY <1>1, <2>1 DEF Unheld
  <2>. QED
    BY <1>2, <1>3, <2>1, <2>2, <2>3 DEF IInv
<1>8. CASE k = 10
  <2>1. /\ entries' = <<>> /\ UNCHANGED <<ctrlpage, on, irqs, ctrl, n, table, master>>
        /\ held' = held \ {"dmabuf"}
    BY <1>8, LabelAt DEF Release, Gone, registers
  <2>2. TypeOK'
    BY <1>1, <1>3, <1>4, <1>5, <2>1, TypeFrame DEF Registers
  <2>3. Unheld'
    BY <1>1, <2>1 DEF Unheld
  <2>. QED
    BY <1>2, <1>3, <2>1, <2>2, <2>3 DEF IInv
<1>9. CASE k = 12
  <2>1. /\ Deactivate /\ ctrl' = 0 /\ ctrlpage' = 0 /\ UNCHANGED <<entries, n, table, master>>
        /\ held' = held \ {"ctrl"}
    BY <1>9, LabelAt DEF Release, Gone
  <2>2. TypeOK'
    BY <1>1, <1>3, <1>4, <1>5, <2>1, TypeFrame DEF Deactivate, Registers
  <2>3. Unheld'
    BY <1>1, <2>1 DEF Unheld
  <2>. QED
    BY <1>2, <1>3, <2>1, <2>2, <2>3 DEF IInv, Deactivate
<1>10. CASE k = 14
  <2>1. /\ master' = FALSE /\ UNCHANGED <<entries, ctrlpage, on, irqs, ctrl, n, table>>
        /\ held' = held \ {"enable"}
    BY <1>10, LabelAt DEF Release, Gone, buffers, registers
  <2>2. TypeOK'
    BY <1>1, <1>3, <1>4, <1>5, <2>1, TypeFrame DEF Registers
  <2>3. Unheld'
    BY <1>1, <2>1 DEF Unheld
  <2>. QED
    BY <1>2, <1>3, <2>1, <2>2, <2>3 DEF IInv
<1>11. CASE k \in {3, 6, 7, 8, 9, 11, 13, 15} \/ (k \in {1, 2, 4, 5} /\ "minor" \notin held)
  <2>1. UNCHANGED <<entries, ctrlpage, on, irqs, ctrl, n, table, master>>
    BY <1>11, LabelAt DEF Release, buffers, registers
  <2>2. \A r \in {"dmabuf", "ctrl", "enable"} : r \in held' <=> r \in held
    BY <1>4, <1>11, LabelAt DEF Gone
  <2>3. TypeOK'
    BY <1>1, <1>3, <1>4, <1>5, <2>1, TypeFrame DEF Registers
  <2>4. Unheld'
    BY <1>1, <2>1, <2>2 DEF Unheld
  <2>. QED
    BY <1>2, <1>3, <2>1, <2>3, <2>4 DEF IInv
<1>. QED
  BY <1>1, <1>6, <1>7, <1>8, <1>9, <1>10, <1>11

LEMMA LabelIs ==
  ASSUME NEW i \in 1..16
  PROVE  (Labels[i] = "end" => i = 16) /\ (Labels[i] = "ctrl" => i = 12)
<1>1. i = 1 \/ i = 2 \/ i = 3 \/ i = 4 \/ i = 5 \/ i = 6 \/ i = 7 \/ i = 8 \/ i = 9
      \/ i = 10 \/ i = 11 \/ i = 12 \/ i = 13 \/ i = 14 \/ i = 15 \/ i = 16
  OBVIOUS
<1>. QED
  BY <1>1, LabelAt

LEMMA EndsKeeps ==
  ASSUME IInv, Ends
  PROVE  IInv'
<1>. USE DEF IInv, Ends
<1>1. \/ mode = "remove" /\ k = 16 /\ mode' = "absent"
      \/ mode = "lost" /\ k = 12 /\ mode' = "oops"
  <2>1. k \in 1..16
    BY DEF TypeOK
  <2>. QED
    BY <2>1, LabelIs
<1>2. TypeOK'
  BY <1>1 DEF TypeOK, buffers, events, registers, engine, place
<1>3. Holding'
  BY <1>1, SMTT(30) DEF Holding, Releasing, Needed, Resources, TypeOK
<1>4. Unheld'
  BY DEF Unheld, buffers, registers
<1>5. Using'
  BY <1>1 DEF Using, OpenHere, registers, engine, place
<1>6. Seen'
  BY DEF Seen, events
<1>. QED
  BY <1>2, <1>3, <1>4, <1>5, <1>6

-----------------------------------------------------------------------------
(* The engine. *)
LEMMA SwitchKeeps ==
  ASSUME IInv, EngineOn \/ EngineOff \/ StartBlock
  PROVE  IInv'
<1>1. /\ UNCHANGED <<mode, k, held, probes, entries, ctrlpage, event, seen, file>>
      /\ UNCHANGED <<on, irqs, ctrl, n, table, master>>
      /\ state' = "sending" => blocks' < MaxBlocks
      /\ TypeOK /\ Holding /\ Unheld /\ Using /\ Seen
  BY DEF EngineOn, EngineOff, StartBlock, driver, buffers, events, registers, place, IInv
<1>2. Engine'
  <2>1. 0 \in 0..Locations-1 /\ 0 \in 0..EntryPages /\ 0 \in 0..MaxBlocks
    BY Bounds
  <2>. QED
    BY <1>1, <2>1, EngineType, TargetType DEF EngineOn, EngineOff, StartBlock, Engine, place
<1>3. TypeOK'
  BY <1>1, <1>2 DEF TypeOK, Engine
<1>4. Holding' /\ Unheld'
  BY <1>1 DEF Holding, Probing, Releasing, Unheld
<1>5. Using' /\ Seen'
  BY <1>1 DEF Using, OpenHere, Seen
<1>. QED
  BY <1>3, <1>4, <1>5 DEF IInv

LEMMA FinishBlockKeeps ==
  ASSUME IInv, FinishBlock
  PROVE  IInv'
<1>. USE DEF IInv, FinishBlock
<1>1. \/ UNCHANGED <<event, file>>
      \/ event < MaxEvents /\ Interrupt
  OBVIOUS
<1>2. /\ file' \in Files
      /\ \A u \in Users : /\ file'[u] = "closed" <=> file[u] = "closed"
                          /\ file'[u] \in Live <=> file[u] \in Live
                          /\ file'[u] \in Reader => file[u] \in Reader
  <2>1. file \in Files
    BY FileType
  <2>2. CASE UNCHANGED <<event, file>>
    BY <2>1, <2>2
  <2>3. CASE Interrupt
    BY <2>1, <2>3 DEF Interrupt, Files, Live, Reader
  <2>. QED
    BY <1>1, <2>2, <2>3
<1>3. event' \in 0..MaxEvents
  BY <1>1, Bounds DEF TypeOK, Interrupt
<1>4. addr' \in 0..Locations-1 /\ count' \in 0..EntryPages /\ blocks' \in 0..MaxBlocks
  <2>1. blocks + 1 \in 0..MaxBlocks
    BY Bounds DEF TypeOK, Using
  <2>. QED
    BY <2>1, AdvanceType
<1>5. /\ UNCHANGED <<mode, k, held, probes, entries, ctrlpage, seen, on, irqs, ctrl, n, table, master>>
      /\ UNCHANGED <<target, moved>> /\ state' = "waiting"
  BY DEF driver, buffers, registers
<1>6. TypeOK'
  BY <1>2, <1>3, <1>4, <1>5 DEF TypeOK, Files, Live
<1>7. Holding' /\ Unheld'
  BY <1>5 DEF Holding, Probing, Releasing, Unheld
<1>8. Using'
  BY <1>2, <1>5 DEF Using, OpenHere
<1>9. Seen'
  <2>1. CASE UNCHANGED <<event, file>>
    BY <1>5, <2>1 DEF Seen
  <2>2. CASE Interrupt
    BY <2>2 DEF Seen, Interrupt, TypeOK
  <2>. QED
    BY <1>1, <2>1, <2>2
<1>. QED
  BY <1>6, <1>7, <1>8, <1>9

-----------------------------------------------------------------------------
(* The programs. *)
LEMMA KernelKeeps ==
  ASSUME IInv, UNCHANGED kernel
  PROVE  /\ Holding' /\ (OpenHere <=> OpenHere')
         /\ (ctrl' = ctrl => Unheld')
  BY DEF IInv, Holding, Probing, Releasing, Unheld, OpenHere, kernel, driver, buffers

LEMMA KernelType ==
  ASSUME TypeOK, UNCHANGED kernel,
         event' \in 0..MaxEvents, seen' \in 0..MaxEvents, file' \in Files, Registers',
         ctrl' \in HostPages \cup {0}, n' \in 0..Locations-1, table' \in Table
  PROVE  TypeOK'
<1>1. UNCHANGED <<mode, k, held, probes, entries, ctrlpage, master,
                  state, target, addr, count, blocks, moved>>
  BY DEF kernel, driver, buffers, engine, place
<1>2. Engine'
  BY <1>1, EngineType DEF Engine
<1>. QED
  BY <1>1, <1>2, TypeFrame DEF TypeOK

LEMMA NowType ==
  ASSUME TypeOK, NEW u \in Users, NEW what \in Live \cup {"closed"}, Now(u, what)
  PROVE  /\ file' \in Files /\ file'[u] = what
         /\ \A v \in Users \ {u} : file'[v] = file[v]
  BY FileType DEF Now, Files

(* The invariant's part about programs, when one of them moves.            *)
LEMMA NowUses ==
  ASSUME IInv, UNCHANGED kernel, NEW u \in Users, NEW what \in Live \cup {"closed"}, Now(u, what),
         what \in Live => OpenHere, what \in Reader => mode # "probe",
         on' => on /\ what # "closed"
  PROVE  Using'
<1>1. TypeOK /\ Using /\ UNCHANGED <<mode, k, state, blocks>> /\ (OpenHere <=> OpenHere')
  BY KernelKeeps DEF IInv, kernel, driver, engine, place
<1>2. file'[u] = what /\ \A v \in Users \ {u} : file'[v] = file[v]
  BY <1>1, NowType
<1>3. ASSUME NEW v \in Users PROVE /\ file'[v] \in Live => OpenHere'
                                   /\ file'[v] \in Reader => mode' # "probe"
  <2>1. CASE v = u
    BY <1>1, <1>2, <2>1
  <2>2. CASE v # u
    BY <1>1, <1>2, <2>2 DEF Using
  <2>. QED
    BY <2>1, <2>2
<1>4. on' => \E v \in Users : file'[v] # "closed"
  BY <1>2
<1>. QED
  BY <1>1, <1>3, <1>4 DEF Using

(* A step of a program that moves only the program. *)
LEMMA StepKeeps ==
  ASSUME IInv, UNCHANGED <<kernel, event, registers>>, seen' \in {seen, event},
         NEW u \in Users, NEW what \in Live, Now(u, what),
         OpenHere, what \in Reader => mode # "probe",
         what \in {"unseen", "asleep"} => event = seen
  PROVE  IInv'
<1>1. /\ TypeOK /\ file' \in Files /\ file'[u] = what /\ what # "closed"
      /\ \A v \in Users \ {u} : file'[v] = file[v]
  BY NowType DEF IInv, Live
<1>2. UNCHANGED <<on, irqs, ctrl, n, table>> /\ UNCHANGED kernel
  BY DEF registers
<1>3. TypeOK'
  BY <1>1, <1>2, KernelType DEF TypeOK, Registers, Table
<1>4. Using'
  BY <1>1, <1>2, NowUses
<1>5. Seen'
  <2>. SUFFICES ASSUME NEW v \in Users, file'[v] \in {"unseen", "asleep"}
                PROVE  event' = seen'
    BY DEF Seen
  <2>1. CASE v = u
    BY <1>1, <2>1
  <2>2. CASE v # u
    BY <1>1, <2>2 DEF IInv, Seen
  <2>. QED
    BY <2>1, <2>2
<1>6. Holding' /\ Unheld'
  BY <1>2, KernelKeeps
<1>. QED
  BY <1>3, <1>4, <1>5, <1>6 DEF IInv

LEMMA ReaderKeeps ==
  ASSUME IInv, NEW u \in Users,
         Open(u) \/ Read(u) \/ Mark(u) \/ Look(u) \/ Sleep(u)
  PROVE  IInv'
<1>1. /\ file[u] \in Live => OpenHere
      /\ file[u] \in Reader => mode # "probe"
  BY DEF IInv, Using
<1>2. "misc" \in held => OpenHere
  <2>1. mode \in {"absent", "probe", "live", "remove", "lost", "oops"} /\ k \in 1..16
    BY DEF IInv, TypeOK
  <2>2. k \in 1..16 /\ k <= 6 => k <= 13
    OBVIOUS
  <2>. QED
    BY <2>1, <2>2 DEF IInv, Holding, Probing, Releasing, OpenHere
<1>3. CASE Open(u)
  BY <1>2, <1>3, StepKeeps DEF Open, events, Live, Reader
<1>4. CASE Read(u)
  <2>1. mode # "probe"
    BY <1>4 DEF Read, IInv, Holding, Probing
  <2>. QED
    BY <1>1, <1>4, <2>1, StepKeeps DEF Read, events, Live
<1>5. CASE Mark(u)
  BY <1>1, <1>5, StepKeeps DEF Mark, events, Live, Reader
<1>6. CASE Look(u)
  <2>1. CASE event # seen
    BY <1>1, <1>6, <2>1, StepKeeps DEF Look, Live, Reader
  <2>2. CASE event = seen
    BY <1>1, <1>6, <2>2, StepKeeps DEF Look, Live, Reader
  <2>. QED
    BY <2>1, <2>2
<1>7. CASE Sleep(u)
  <2>1. event = seen
    BY <1>7 DEF Sleep, IInv, Seen
  <2>. QED
    BY <1>1, <1>7, <2>1, StepKeeps DEF Sleep, events, Live, Reader
<1>. QED
  BY <1>3, <1>4, <1>5, <1>6, <1>7

LEMMA SwitchesKeep ==
  ASSUME IInv, NEW u \in Users, Enable(u) \/ Disable(u)
  PROVE  IInv'
<1>1. /\ UNCHANGED kernel /\ UNCHANGED <<event, seen, file, ctrl, n, table>> /\ Registers'
      /\ file[u] # "closed"
  BY DEF Enable, Disable, Deactivate, Registers, events
<1>2. TypeOK'
  BY <1>1, KernelType, FileType DEF IInv, TypeOK, Table
<1>3. Using'
  <2>1. UNCHANGED <<mode, state, blocks>> /\ (OpenHere <=> OpenHere')
    BY <1>1, KernelKeeps DEF kernel, driver, engine, place
  <2>. QED
    BY <1>1, <2>1 DEF IInv, Using
<1>4. Seen'
  BY <1>1 DEF IInv, Seen
<1>5. Holding' /\ Unheld'
  BY <1>1, KernelKeeps
<1>. QED
  BY <1>2, <1>3, <1>4, <1>5 DEF IInv

LEMMA CloseKeeps ==
  ASSUME IInv, NEW u \in Users, Close(u) \/ IoctlFails(u)
  PROVE  IInv'
<1>1. /\ Deactivate /\ UNCHANGED kernel /\ UNCHANGED <<event, seen, ctrl, n, table>>
      /\ \/ Now(u, "closed")
         \/ Now(u, "failing") /\ OpenHere
  BY DEF IInv, Using, Close, IoctlFails, events, Live
<1>2. /\ file' \in Files
      /\ \A v \in Users : file'[v] \in {"unseen", "asleep"} => file[v] = file'[v]
  BY <1>1, NowType DEF IInv, Live
<1>3. TypeOK'
  BY <1>1, <1>2, KernelType DEF IInv, TypeOK, Deactivate, Registers, Table
<1>4. Using'
  <2>1. ~on'
    BY <1>1 DEF Deactivate
  <2>2. CASE Now(u, "closed")
    BY <1>1, <2>1, <2>2, NowUses DEF Live, Reader
  <2>3. CASE Now(u, "failing") /\ OpenHere
    BY <1>1, <2>1, <2>3, NowUses DEF Live, Reader
  <2>. QED
    BY <1>1, <2>2, <2>3
<1>5. Seen'
  BY <1>1, <1>2 DEF IInv, Seen
<1>6. Holding' /\ Unheld'
  BY <1>1, KernelKeeps
<1>. QED
  BY <1>3, <1>4, <1>5, <1>6 DEF IInv

LEMMA IoctlClearsKeeps ==
  ASSUME IInv, NEW u \in Users, IoctlClears(u)
  PROVE  IInv'
<1>1. /\ Now(u, "open") /\ Clear /\ UNCHANGED kernel /\ UNCHANGED <<event, seen, on, irqs, ctrl>>
      /\ OpenHere
  BY DEF IInv, Using, IoctlClears, events, Live
<1>2. file' \in Files /\ file'[u] = "open" /\ \A v \in Users \ {u} : file'[v] = file[v]
  BY <1>1, NowType DEF IInv, Live
<1>3. TypeOK'
  BY <1>1, <1>2, ClearType, KernelType DEF IInv, TypeOK, Registers
<1>4. Using'
  BY <1>1, NowUses DEF Live, Reader
<1>5. Seen'
  BY <1>1, <1>2 DEF IInv, Seen
<1>6. Holding' /\ Unheld'
  BY <1>1, KernelKeeps
<1>. QED
  BY <1>3, <1>4, <1>5, <1>6 DEF IInv

LEMMA CrashKeeps ==
  ASSUME IInv, NEW u \in Users, Crash(u)
  PROVE  IInv'
<1>1. /\ mode' = "oops" /\ UNCHANGED <<k, held, probes, entries, ctrlpage, event, seen, file>>
      /\ UNCHANGED <<on, irqs, ctrl, n, table, master, state, target, addr, count, blocks, moved>>
  BY DEF Crash, buffers, events, registers, engine, place
<1>2. TypeOK'
  BY <1>1 DEF IInv, TypeOK
<1>3. Holding' /\ Unheld'
  BY <1>1 DEF IInv, Holding, Unheld
<1>4. Using' /\ Seen'
  BY <1>1 DEF IInv, Using, OpenHere, Seen
<1>. QED
  BY <1>2, <1>3, <1>4 DEF IInv

-----------------------------------------------------------------------------
LEMMA InvInit ==
  ASSUME Init
  PROVE  IInv
<1>. USE DEF Init
<1>1. TypeOK
  <2>1. table \in Table
    <3>1. PICK e \in {Cleared} \cup [handle : Junk, pages : {1}] : table = [l \in 0..Locations-1 |-> e]
      OBVIOUS
    <3>2. [handle : Junk, pages : {1}] \subseteq Entry
      <4>1. Junk \subseteq HostPages /\ 1 \in 1..EntryPages
        BY Bounds
      <4>. HIDE DEF Init
      <4>. QED
        BY <4>1 DEF Entry
    <3>. QED
      BY <3>1, <3>2 DEF Table
  <2>2. /\ 0 \in 0..MaxProbes /\ 0 \in 0..MaxEvents /\ 0 \in 0..MaxBlocks
        /\ 0 \in 0..Locations-1 /\ 0 \in 0..EntryPages
    BY Bounds
  <2>3. <<>> \in Seq(Entry)
    OBVIOUS
  <2>4. 1 \in 1..16
    OBVIOUS
  <2>. QED
    BY <2>1, <2>2, <2>3, <2>4 DEF TypeOK, Table
<1>2. Holding
  BY DEF Holding
<1>3. Unheld /\ Using /\ Seen
  BY DEF Unheld, Using, Live, Reader, Seen
<1>. QED
  BY <1>1, <1>2, <1>3 DEF IInv

LEMMA InvNext ==
  ASSUME IInv, [Next]_vars
  PROVE  IInv'
<1>1. CASE Probe
  BY <1>1, ProbeKeeps
<1>2. CASE Acquire
  BY <1>2, AcquireKeeps
<1>3. CASE Fails
  BY <1>3, FailsKeeps
<1>4. CASE Remove
  BY <1>4, RemoveKeeps
<1>5. CASE Release
  BY <1>5, ReleaseKeeps
<1>6. CASE Ends
  BY <1>6, EndsKeeps
<1>7. CASE EngineOn \/ EngineOff \/ StartBlock
  BY <1>7, SwitchKeeps
<1>8. CASE FinishBlock
  BY <1>8, FinishBlockKeeps
<1>9. ASSUME NEW u \in Users,
             \/ Open(u) \/ Enable(u) \/ Disable(u) \/ Close(u)
             \/ IoctlFails(u) \/ IoctlClears(u) \/ Crash(u)
             \/ Read(u) \/ Mark(u) \/ Look(u) \/ Sleep(u)
      PROVE  IInv'
  BY <1>9, ReaderKeeps, SwitchesKeep, CloseKeeps, IoctlClearsKeeps, CrashKeeps
<1>10. CASE UNCHANGED vars
  <2>. USE <1>10 DEF IInv, vars, driver, buffers, events, registers, engine, place
  <2>1. TypeOK'
    BY DEF TypeOK
  <2>2. Holding'
    BY DEF Holding, Probing, Releasing
  <2>3. Unheld' /\ Using' /\ Seen'
    BY DEF Unheld, Using, OpenHere, Seen
  <2>. QED
    BY <2>1, <2>2, <2>3
<1>. QED
  BY <1>1, <1>2, <1>3, <1>4, <1>5, <1>6, <1>7, <1>8, <1>9, <1>10 DEF Next

(* The invariant holds in every state a behaviour reaches. *)
THEOREM Invariant == Spec => []IInv
<1>1. Init => IInv
  BY InvInit
<1>2. IInv /\ [Next]_vars => IInv'
  BY InvNext
<1>. QED
  BY <1>1, <1>2, PTL DEF Spec

-----------------------------------------------------------------------------
(***************************************************************************)
(* The engine's walk through the table.  It can write while the board may  *)
(* be bus master; the table is filled one step of probe earlier.  The      *)
(* locations before the end of the list then hold entries of it, unless a  *)
(* failing ioctl has cleared all; once remove has cleared the table, no    *)
(* block is on its way to anything but page 0.                             *)
(***************************************************************************)
Armed == master \/ (mode = "probe" /\ k = 12)
AllCleared == n = 0 /\ \A l \in 0..Locations-1 : table[l] = Cleared
Listed ==
  /\ n <= Len(entries) + 1
  /\ \A l \in 0..Locations-1 : l < Len(entries) => \E j \in 1..Len(entries) : table[l] = entries[j]
Filled == Armed => AllCleared \/ ("dmabuf" \in held /\ Listed)

CtrlKnown == "ctrl" \in held => ctrl = ctrlpage
AtStart == addr = 0 /\ count = 0
Resting == state = "disabled" => AtStart /\ ~moved
InPlace ==
  \/ AtStart \/ table[addr] = Cleared \/ addr = Len(entries)
  \/ addr < Len(entries) /\ count < table[addr].pages
Walk == Armed /\ ~moved => InPlace

Allowed == target \in Own \cup {0} \/ (entries # <<>> /\ addr = Len(entries))
Aimed == Armed /\ ~moved /\ state = "sending" => Allowed

Removing ==
  /\ master => mode \in {"live", "oops", "remove"}
  /\ master /\ mode = "remove" /\ k <= 5 => "minor" \in held
  /\ master /\ mode = "remove" /\ k >= 6 => AllCleared /\ (state = "sending" => target = 0)

Listing == "dmabuf" \in held => entries # <<>>

EInv == Filled /\ CtrlKnown /\ Resting /\ Walk /\ Aimed /\ Removing /\ Listing

(* A location before the end of the list is filled: the last entry that    *)
(* falls on it.                                                            *)
LEMMA LastEntry ==
  ASSUME NEW N \in Nat, NEW m \in Nat \ {0}, NEW l \in 0..m-1, l < N
  PROVE  \E j \in 1..N : (j-1) % m = l /\ j + m > N
<1>. DEFINE d == N - 1 - l
            q == d \div m
            r == d % m
            j == N - r
<1>1. d \in Nat
  OBVIOUS
<1>2. q \in Nat /\ r \in 0..m-1 /\ d = m * q + r
  <2>. HIDE DEF d
  <2>. QED
    BY <1>1
<1>. HIDE DEF q, r
<1>3. j - 1 = l + m * q
  BY <1>2
<1>4. (l + m * q) % m = l
  BY <1>2
<1>5. m * q \in Nat
  BY <1>2
<1>6. j \in 1..N /\ j + m > N
  BY <1>2, <1>3, <1>5
<1>. QED
  BY <1>3, <1>4, <1>6

LEMMA FillLists ==
  ASSUME TypeOK, Fill, entries' = entries
  PROVE  Listed'
<1>1. entries \in Seq(Entry) /\ Len(entries) \in Nat
  BY DEF TypeOK
<1>. DEFINE L(l) == {j \in 1..Len(entries) : (j-1) % Locations = l /\ j + Locations > Len(entries)}
<1>2. ASSUME NEW l \in 0..Locations-1, l < Len(entries)
      PROVE  \E j \in 1..Len(entries) : table'[l] = entries[j]
  <2>1. L(l) # {}
    BY <1>1, <1>2, LastEntry, Bounds
  <2>2. (CHOOSE j \in L(l) : TRUE) \in L(l)
    BY <2>1
  <2>3. table'[l] = entries[CHOOSE j \in L(l) : TRUE]
    BY <2>1 DEF Fill
  <2>. QED
    BY <2>2, <2>3
<1>3. (Len(entries) + 1) % Locations <= Len(entries) + 1
  BY <1>1, Bounds
<1>. QED
  BY <1>2, <1>3 DEF Listed, Fill

(* A list of the driver is not empty. *)
LEMMA LayoutListed ==
  ASSUME NEW list \in Layouts
  PROVE  list # <<>>
<1>1. PICK m \in 1..BufPages : list \in [1..m -> [handle : Free, pages : Sizes]]
  BY DEF Layouts
<1>2. m \in Nat /\ m # 0
  BY Bounds
<1>3. Len(list) = m
  BY <1>1, <1>2
<1>. QED
  BY <1>2, <1>3

(* Steps that leave the table, the list and the engine as they are.        *)
LEMMA EngineFrame ==
  ASSUME EInv, Armed' => Armed,
         UNCHANGED <<entries, table, n, ctrl, ctrlpage, held, state, target, addr, count, moved>>
  PROVE  /\ Filled' /\ CtrlKnown' /\ Resting' /\ Walk' /\ Aimed' /\ Listing'
         /\ (AllCleared <=> AllCleared')
<1>1. /\ (AllCleared <=> AllCleared') /\ (Listed <=> Listed') /\ (InPlace <=> InPlace')
      /\ (Allowed <=> Allowed') /\ (AtStart <=> AtStart')
  BY DEF AllCleared, Listed, InPlace, Allowed, AtStart, Own
<1>. QED
  BY <1>1 DEF EInv, Filled, CtrlKnown, Resting, Walk, Aimed, Listing

LEMMA ProbeRemoveEngine ==
  ASSUME IInv, EInv, Probe \/ Fails \/ Remove \/ Ends
  PROVE  EInv'
<1>1. UNCHANGED <<entries, table, n, ctrl, ctrlpage, held, state, target, addr, count, moved>>
  BY DEF Probe, Fails, Remove, Ends, buffers, registers, engine, place
<1>2. (Armed' => Armed) /\ Removing'
  <2>0. Removing /\ Holding /\ TypeOK
    BY DEF IInv, EInv
  <2>1. CASE Probe
    BY <2>0, <2>1 DEF Probe, Armed, Removing
  <2>2. CASE Fails
    <3>1. /\ mode = "probe" /\ Probing /\ k \in 1..12 /\ k # 11 /\ ~master
          /\ mode' \in {"remove", "lost"} /\ k' = Cleanup(Steps[k]) /\ held' = held
          /\ master' = (master \/ Steps[k] = "msi")
      BY <2>0, <2>2, StepAt DEF Fails, Holding, Probing, Removing
    <3>2. CASE k = 12
      <4>1. k' = 4 /\ mode' = "remove" /\ "minor" \in held'
        BY <2>2, <3>1, <3>2, StepAt DEF Fails, Cleanup, Probing
      <4>. QED
        BY <3>1, <3>2, <4>1 DEF Armed, Removing
    <3>3. CASE k # 12
      <4>1. ~master'
        <5>1. Steps[k] # "msi"
          BY <3>1, <3>3, StepAt
        <5>. QED
          BY <3>1, <5>1
      <4>. QED
        BY <3>1, <4>1 DEF Armed, Removing
    <3>. QED
      BY <3>2, <3>3
  <2>3. CASE Remove
    <3>1. mode = "live" /\ mode' = "remove" /\ k' = 1 /\ held' = Resources /\ master' = master
      BY <2>0, <2>3 DEF Remove, Holding
    <3>2. k' <= 5 /\ ~(k' >= 6)
      BY <3>1
    <3>. QED
      BY <3>1, <3>2 DEF Armed, Removing, Resources
  <2>4. CASE Ends
    <3>1. master' = master /\ mode' \in {"absent", "oops"} /\ mode \in {"remove", "lost"}
      BY <2>4 DEF Ends
    <3>2. mode' = "absent" => ~master
      <4>1. mode' = "absent" => mode = "remove" /\ Labels[k] = "end"
        BY <2>4 DEF Ends
      <4>2. Labels[k] = "end" => k = 16
        BY <2>0, LabelIs DEF TypeOK
      <4>3. mode = "remove" /\ k = 16 => ~master
        BY <2>0 DEF Holding, Releasing, IInv, Unheld
      <4>. QED
        BY <4>1, <4>2, <4>3
    <3>. QED
      BY <3>1, <3>2 DEF Armed, Removing
  <2>. QED
    BY <2>1, <2>2, <2>3, <2>4
<1>. QED
  BY <1>1, <1>2, EngineFrame DEF EInv

LEMMA AcquireEngine ==
  ASSUME IInv, EInv, Acquire
  PROVE  EInv'
<1>1. /\ mode = "probe" /\ Probing /\ k \in 1..12 /\ (k < 12 => k' = k + 1 /\ mode' = "probe")
      /\ (k = 12 => mode' = "live" /\ k' = 1)
      /\ ~master /\ UNCHANGED <<state, target, addr, count>>
      /\ held' = held \cup ({Steps[k]} \ {"table"})
  BY StepAt DEF IInv, EInv, Removing, Holding, Probing, Acquire, engine, place
<1>2. TypeOK /\ Filled /\ CtrlKnown /\ Resting /\ Walk /\ Aimed /\ Listing
  BY DEF IInv, EInv
<1>3. CASE k = 12
  <2>1. /\ UNCHANGED <<entries, ctrlpage, ctrl, n, table, moved>> /\ Armed /\ mode' = "live"
        /\ held' = held \cup {"msi"}
    BY <1>1, <1>3, StepAt DEF Acquire, buffers, registers, Armed
  <2>2. /\ (AllCleared <=> AllCleared') /\ (Listed <=> Listed') /\ (InPlace <=> InPlace')
        /\ (Allowed <=> Allowed') /\ (AtStart <=> AtStart')
    BY <1>1, <2>1 DEF AllCleared, Listed, InPlace, Allowed, AtStart, Own
  <2>. QED
    BY <1>1, <1>2, <2>1, <2>2 DEF EInv, Filled, CtrlKnown, Resting, Walk, Aimed, Removing, Listing
<1>4. CASE k = 11
  <2>1. Fill /\ UNCHANGED <<entries, ctrlpage, ctrl, master>> /\ held' = held /\ "dmabuf" \in held
    BY <1>1, <1>4, StepAt DEF Acquire, buffers, Probing
  <2>2. Listed' /\ moved' = (state # "disabled")
    BY <1>2, <2>1, FillLists, FillType
  <2>3. AtStart' \/ moved'
    BY <1>1, <1>2, <2>2 DEF Resting, AtStart
  <2>4. state' = "sending" => moved'
    BY <1>1, <2>2
  <2>5. Resting'
    BY <1>1, <1>2, <2>2 DEF Resting, AtStart
  <2>. QED
    BY <1>1, <1>2, <1>4, <2>1, <2>2, <2>3, <2>4, <2>5
       DEF EInv, Filled, CtrlKnown, Walk, InPlace, Aimed, Removing, Listing
<1>5. CASE k < 11
  <2>1. ~Armed' /\ mode' = "probe" /\ ~master' /\ moved' = moved
    <3>1. k \in {1, 2, 3, 4, 5, 6, 7, 8, 9, 10}
      BY <1>1, <1>5
    <3>2. k' # 12 /\ mode' = "probe"
      BY <1>1, <3>1
    <3>3. ~master' /\ moved' = moved
      BY <1>1, <3>1, StepAt DEF Acquire
    <3>. QED
      BY <3>2, <3>3 DEF Armed
  <2>2. Resting'
    BY <1>1, <1>2, <2>1 DEF Resting, AtStart
  <2>3. CtrlKnown' /\ Listing'
    <3>1. CASE k = 4
      <4>1. ctrl' = ctrlpage' /\ entries' = entries /\ ("dmabuf" \in held' => "dmabuf" \in held)
        BY <1>1, <3>1, StepAt DEF Acquire
      <4>. QED
        BY <1>2, <4>1 DEF CtrlKnown, Listing
    <3>2. CASE k = 6
      <4>1. /\ entries' \in Layouts /\ UNCHANGED <<ctrl, ctrlpage>> /\ ("ctrl" \in held' => "ctrl" \in held)
        BY <1>1, <3>2, StepAt DEF Acquire, registers
      <4>. QED
        BY <1>2, <4>1, LayoutListed DEF CtrlKnown, Listing
    <3>3. CASE k \in {1, 2, 3, 5, 7, 8, 9, 10}
      <4>1. /\ UNCHANGED <<ctrl, ctrlpage, entries>> /\ ("ctrl" \in held' => "ctrl" \in held)
            /\ ("dmabuf" \in held' => "dmabuf" \in held)
        BY <1>1, <3>3, StepAt DEF Acquire, buffers, registers
      <4>. QED
        BY <1>2, <4>1 DEF CtrlKnown, Listing
    <3>. QED
      BY <1>1, <1>5, <3>1, <3>2, <3>3
  <2>. QED
    BY <2>1, <2>2, <2>3 DEF EInv, Filled, Walk, Aimed, Removing
<1>. QED
  BY <1>1, <1>3, <1>4, <1>5

(* remove.  Between the clearing and the freeing of the pages nothing but  *)
(* page 0 can become the engine's target.                                  *)
LEMMA ReleaseEngine ==
  ASSUME IInv, EInv, Release
  PROVE  EInv'
<1>1. /\ mode \in {"remove", "lost"} /\ k \in 1..15 /\ k' = k + 1 /\ mode' = mode
      /\ held' = held \ Gone /\ UNCHANGED <<state, target, addr, count, moved>>
      /\ TypeOK /\ Removing /\ Filled /\ CtrlKnown /\ Resting /\ Walk /\ Aimed /\ Listing
  BY ReleaseAt DEF IInv, EInv, Release, engine, place
<1>2. /\ master' => master
      /\ Armed => master
      /\ Armed' => master' /\ master /\ mode = "remove"
      /\ Resting'
  <2>1. master' => master
    BY <1>1 DEF Release
  <2>. QED
    BY <1>1, <2>1 DEF Armed, Resting, AtStart, Removing
<1>3. CtrlKnown' /\ Listing'
  <2>1. CASE k = 10
    <3>1. UNCHANGED <<ctrl, ctrlpage>> /\ "dmabuf" \notin held' /\ ("ctrl" \in held' => "ctrl" \in held)
      BY <1>1, <2>1, LabelAt DEF Release, Gone, registers
    <3>. QED
      BY <1>1, <3>1 DEF CtrlKnown, Listing
  <2>2. CASE k = 12
    <3>1. UNCHANGED entries /\ "ctrl" \notin held' /\ ("dmabuf" \in held' => "dmabuf" \in held)
      BY <1>1, <2>2, LabelAt DEF Release, Gone
    <3>. QED
      BY <1>1, <3>1 DEF CtrlKnown, Listing
  <2>3. CASE k \notin {10, 12}
    <3>1. Labels[k] \notin {"dmabuf", "ctrl"}
      BY <1>1, <2>3, LabelAt
    <3>2. UNCHANGED <<ctrl, ctrlpage, entries>> /\ held' \subseteq held
      BY <1>1, <3>1 DEF Release, buffers, registers
    <3>. QED
      BY <1>1, <3>2 DEF CtrlKnown, Listing
  <2>. QED
    BY <2>1, <2>2, <2>3
<1>4. CASE ~Armed'
  BY <1>2, <1>3, <1>4 DEF EInv, Filled, Walk, Aimed, Removing, Armed
<1>5. CASE Armed' /\ (k \in {1, 3, 4} \/ (k \in {2, 5} /\ "minor" \notin held))
  <2>1. UNCHANGED <<entries, ctrlpage, ctrl, n, table>> /\ held' \subseteq held /\ k # 5 /\ k' <= 5
        /\ held \subseteq held' \cup {"msi"}
    <3>1. k # 5 \/ "minor" \in held
      BY <1>1, <1>2, <1>5 DEF Removing
    <3>2. UNCHANGED <<entries, ctrlpage, ctrl, n, table>>
      BY <1>5, LabelAt DEF Release, buffers, registers
    <3>3. Gone \subseteq {"msi"}
      BY <1>5, LabelAt DEF Gone
    <3>4. k \in {1, 2, 3, 4}
      BY <1>5, <3>1
    <3>5. k # 5 /\ k' <= 5
      BY <1>1, <3>4
    <3>6. held' \subseteq held /\ held \subseteq held' \cup {"msi"}
      BY <1>1, <3>3
    <3>. QED
      BY <3>2, <3>5, <3>6
  <2>2. /\ (AllCleared <=> AllCleared') /\ (Listed <=> Listed') /\ (InPlace <=> InPlace')
        /\ (Allowed <=> Allowed')
    BY <1>1, <2>1 DEF AllCleared, Listed, InPlace, Allowed, AtStart, Own
  <2>3. Filled' /\ Walk' /\ Aimed'
    BY <1>1, <1>2, <1>5, <2>1, <2>2 DEF Filled, Walk, Aimed, Armed
  <2>4. Removing'
    <3>1. k <= 5 /\ ~(k' >= 6)
      BY <1>1, <2>1
    <3>. QED
      BY <1>1, <1>2, <2>1, <3>1 DEF Removing
  <2>. QED
    BY <1>2, <1>3, <2>3, <2>4 DEF EInv
<1>6. CASE Armed' /\ ((k \in {2, 5} /\ "minor" \in held) \/ k >= 6)
  <2>1. AllCleared' /\ (state' = "sending" => target' = 0)
    <3>1. CASE k \in {2, 5} /\ "minor" \in held
      <4>1. Clear /\ (state = "sending" => target = 0)
        BY <3>1, LabelAt DEF Release
      <4>. QED
        BY <1>1, <4>1 DEF Clear, AllCleared
    <3>2. CASE k >= 6
      <4>1. Labels[k] # "clear"
        <5>1. k \in {6, 7, 8, 9, 10, 11, 12, 13, 14, 15}
          BY <1>1, <3>2
        <5>. QED
          BY <5>1, LabelAt
      <4>2. UNCHANGED <<n, table>>
        BY <4>1 DEF Release, registers
      <4>3. AllCleared /\ (state = "sending" => target = 0)
        BY <1>1, <1>2, <1>6, <3>2 DEF Removing
      <4>. QED
        BY <1>1, <4>2, <4>3 DEF AllCleared
    <3>. QED
      BY <1>6, <3>1, <3>2
  <2>2. InPlace'
    BY <1>1, <2>1 DEF InPlace, AllCleared, TypeOK
  <2>3. Removing'
    <3>1. k' <= 5 => "minor" \in held'
      <4>1. k' <= 5 => k = 2 /\ "minor" \in held
        BY <1>1, <1>6
      <4>2. k = 2 => Gone = {}
        BY LabelAt DEF Gone
      <4>. QED
        BY <1>1, <4>1, <4>2
    <3>. QED
      BY <1>1, <1>2, <1>6, <2>1, <3>1 DEF Removing
  <2>4. Filled' /\ Walk' /\ Aimed'
    BY <2>1, <2>2 DEF Filled, Walk, Aimed, Allowed
  <2>. QED
    BY <1>2, <1>3, <2>3, <2>4 DEF EInv
<1>. QED
  BY <1>1, <1>4, <1>5, <1>6

(* Where a block goes that begins now. *)
LEMMA TargetAllowed ==
  ASSUME IInv, EInv, Armed, ~moved
  PROVE  Target \in Own \cup {0} \/ (entries # <<>> /\ addr = Len(entries))
<1>1. /\ addr \in 0..Locations-1 /\ count \in Nat /\ entries \in Seq(Entry) /\ Len(entries) \in Nat
  BY Bounds DEF IInv, TypeOK
<1>2. InPlace /\ (AllCleared \/ ("dmabuf" \in held /\ Listed)) /\ ("dmabuf" \in held => entries # <<>>)
  BY DEF EInv, Filled, Walk, Listing
<1>3. CASE table[addr] = Cleared
  BY <1>3 DEF Target
<1>4. CASE table[addr] # Cleared
  <2>1. Listed /\ entries # <<>>
    BY <1>1, <1>2, <1>4 DEF AllCleared
  <2>. SUFFICES ASSUME addr # Len(entries) PROVE Target \in Own
    BY <2>1
  <2>2. addr < Len(entries)
    <3>1. Len(entries) # 0
      BY <1>1, <2>1
    <3>. QED
      BY <1>1, <1>2, <1>4, <3>1 DEF InPlace, AtStart
  <2>3. PICK j \in 1..Len(entries) : table[addr] = entries[j]
    BY <1>1, <2>1, <2>2 DEF Listed
  <2>4. entries[j] \in Entry
    BY <1>1
  <2>5. entries[j].pages \in Nat /\ entries[j].pages > 0 /\ entries[j].handle \in Nat
    <3>1. entries[j].handle \in HostPages /\ entries[j].pages \in 1..EntryPages
      BY <2>4 DEF Entry
    <3>2. entries[j].handle \in Nat
      BY <3>1, Bounds
    <3>3. EntryPages \in Nat
      BY Bounds
    <3>4. \A m \in 1..EntryPages : m \in Nat /\ m > 0
      BY <3>3
    <3>. QED
      BY <3>1, <3>2, <3>4
  <2>6. count < entries[j].pages
    BY <1>2, <1>4, <2>3, <2>5 DEF InPlace, AtStart
  <2>7. Target \in PagesOf(entries[j])
    BY <1>1, <1>4, <2>3, <2>5, <2>6 DEF Target, PagesOf
  <2>. QED
    BY <2>3, <2>7 DEF Own, BufferPages
<1>. QED
  BY <1>3, <1>4

LEMMA SwitchEngine ==
  ASSUME IInv, EInv, EngineOn \/ EngineOff \/ StartBlock
  PROVE  EInv'
<1>1. /\ UNCHANGED <<mode, k, held, entries, ctrlpage, ctrl, n, table, master>>
      /\ Filled /\ CtrlKnown /\ Resting /\ Walk /\ Aimed /\ Removing /\ Listing
  BY DEF EngineOn, EngineOff, StartBlock, driver, buffers, registers, EInv
<1>2. /\ (Armed <=> Armed') /\ (AllCleared <=> AllCleared') /\ (Listed <=> Listed')
  BY <1>1 DEF Armed, AllCleared, Listed
<1>3. Filled' /\ CtrlKnown' /\ Listing'
  BY <1>1, <1>2 DEF Filled, CtrlKnown, Listing
<1>4. CASE EngineOn
  <2>1. UNCHANGED <<addr, count, moved>> /\ state' = "waiting" /\ ~moved
    BY <1>1, <1>4 DEF EngineOn, Resting, place
  <2>2. InPlace <=> InPlace'
    BY <1>1, <2>1 DEF InPlace, AtStart
  <2>. QED
    BY <1>1, <1>2, <1>3, <2>1, <2>2 DEF EInv, Resting, Walk, Aimed, Removing
<1>5. CASE EngineOff
  BY <1>1, <1>2, <1>3, <1>5 DEF EngineOff, EInv, Resting, Walk, InPlace, AtStart, Aimed, Removing
<1>6. CASE StartBlock
  <2>1. UNCHANGED <<addr, count, moved>> /\ state' = "sending" /\ target' = Target
    BY <1>6 DEF StartBlock, place
  <2>2. InPlace <=> InPlace'
    BY <1>1, <2>1 DEF InPlace, AtStart
  <2>3. Aimed'
    <3>1. Armed /\ ~moved => Target \in Own \cup {0} \/ (entries # <<>> /\ addr = Len(entries))
      BY TargetAllowed
    <3>2. Own' = Own
      BY <1>1 DEF Own
    <3>. QED
      BY <1>1, <1>2, <2>1, <3>1, <3>2 DEF Aimed, Allowed
  <2>4. Removing'
    <3>1. AllCleared => Target = 0
      BY DEF AllCleared, Target, IInv, TypeOK
    <3>. QED
      BY <1>1, <1>2, <2>1, <3>1 DEF Removing
  <2>. QED
    BY <1>1, <1>2, <1>3, <2>1, <2>2, <2>3, <2>4 DEF EInv, Resting, Walk
<1>. QED
  BY <1>4, <1>5, <1>6

(* The place after a block is one of a filled table, too. *)
LEMMA AdvanceInPlace ==
  ASSUME IInv, InPlace, AllCleared \/ (Listed /\ entries # <<>>), Advance,
         UNCHANGED <<entries, table, n>>
  PROVE  InPlace'
<1>1. /\ addr \in 0..Locations-1 /\ addr \in Nat /\ count \in Nat /\ Len(entries) \in Nat /\ n \in Nat
      /\ n \in 0..Locations-1 /\ entries \in Seq(Entry) /\ table[addr] \in Entry \cup {Cleared}
  BY Bounds DEF IInv, TypeOK
<1>2. table[addr].pages \in Nat
  BY <1>1, Bounds DEF Entry, Cleared
<1>. DEFINE p == table[addr].pages
<1>3. CASE count + 1 >= p /\ addr + 1 >= n
  BY <1>3 DEF Advance, InPlace, AtStart
<1>4. CASE count + 1 >= p /\ ~(addr + 1 >= n)
  <2>1. count' = 0 /\ addr' = addr + 1
    BY <1>4 DEF Advance
  <2>2. addr' \in 0..Locations-1 /\ addr' < n
    <3>1. Locations \in Nat
      BY Bounds
    <3>. QED
      BY <1>1, <1>4, <2>1, <3>1
  <2>3. CASE AllCleared
    BY <1>1, <2>2, <2>3 DEF AllCleared
  <2>4. CASE Listed
    <3>1. addr' < Len(entries) \/ addr' = Len(entries)
      BY <1>1, <2>1, <2>2, <2>4 DEF Listed
    <3>2. ASSUME addr' < Len(entries) PROVE table[addr'].pages > 0
      <4>1. PICK j \in 1..Len(entries) : table[addr'] = entries[j]
        BY <2>2, <2>4, <3>2 DEF Listed
      <4>2. entries[j] \in Entry
        BY <1>1
      <4>. QED
        BY <4>1, <4>2, Bounds DEF Entry
    <3>. QED
      BY <2>1, <3>1, <3>2 DEF InPlace
  <2>. QED
    BY <2>3, <2>4
<1>5. CASE ~(count + 1 >= p)
  <2>1. count' = count + 1 /\ addr' = addr /\ count' < p
    BY <1>1, <1>2, <1>5 DEF Advance
  <2>2. CASE table[addr] = Cleared \/ addr = Len(entries)
    BY <2>1, <2>2 DEF InPlace
  <2>3. CASE ~(table[addr] = Cleared \/ addr = Len(entries))
    <3>1. addr < Len(entries)
      <4>1. CASE AtStart
        <5>1. entries # <<>>
          BY <1>1, <2>3 DEF AllCleared
        <5>. QED
          BY <1>1, <4>1, <5>1 DEF AtStart
      <4>2. CASE ~AtStart
        BY <2>3, <4>2 DEF InPlace
      <4>. QED
        BY <4>1, <4>2
    <3>. QED
      BY <2>1, <3>1 DEF InPlace
  <2>. QED
    BY <2>2, <2>3
<1>. QED
  BY <1>3, <1>4, <1>5

LEMMA FinishEngine ==
  ASSUME IInv, EInv, FinishBlock
  PROVE  EInv'
<1>1. /\ UNCHANGED <<mode, k, held, entries, ctrlpage, ctrl, n, table, master, target, moved>>
      /\ state' = "waiting" /\ Advance
      /\ Filled /\ CtrlKnown /\ Walk /\ Removing /\ Listing
  BY DEF FinishBlock, driver, buffers, registers, EInv
<1>2. /\ (Armed <=> Armed') /\ (AllCleared <=> AllCleared') /\ (Listed <=> Listed')
  BY <1>1 DEF Armed, AllCleared, Listed
<1>3. Filled' /\ CtrlKnown' /\ Listing'
  BY <1>1, <1>2 DEF Filled, CtrlKnown, Listing
<1>4. ASSUME Armed, ~moved PROVE InPlace'
  BY <1>1, <1>4, AdvanceInPlace DEF Walk, Filled, Listing
<1>. QED
  BY <1>1, <1>2, <1>3, <1>4 DEF EInv, Resting, Walk, Aimed, Removing

LEMMA UsersEngine ==
  ASSUME IInv, EInv, NEW u \in Users,
         \/ Open(u) \/ Enable(u) \/ Disable(u) \/ Close(u)
         \/ IoctlFails(u) \/ IoctlClears(u)
         \/ Read(u) \/ Mark(u) \/ Look(u) \/ Sleep(u)
  PROVE  EInv'
<1>1. UNCHANGED <<mode, k, held, entries, ctrlpage, ctrl, master, state, target, addr, count, moved>>
  BY DEF Open, Enable, Disable, Close, IoctlFails, IoctlClears, Read, Mark, Look, Sleep,
         kernel, driver, buffers, registers, engine, place
<1>2. Armed <=> Armed'
  BY <1>1 DEF Armed
<1>3. CASE ~IoctlClears(u)
  <2>1. UNCHANGED <<n, table>>
    BY <1>3 DEF Open, Enable, Disable, Close, IoctlFails, Read, Mark, Look, Sleep, registers
  <2>2. Removing'
    BY <1>1, <1>2, <2>1, EngineFrame DEF EInv, Removing
  <2>. QED
    BY <1>1, <1>2, <2>1, <2>2, EngineFrame DEF EInv
<1>4. CASE IoctlClears(u)
  <2>1. AllCleared'
    BY <1>4 DEF IoctlClears, Clear, AllCleared
  <2>2. InPlace'
    BY <1>1, <2>1 DEF InPlace, AllCleared, IInv, TypeOK
  <2>3. Allowed <=> Allowed'
    BY <1>1 DEF Allowed, Own
  <2>. QED
    BY <1>1, <1>2, <2>1, <2>2, <2>3
       DEF EInv, Filled, CtrlKnown, Resting, AtStart, Walk, Aimed, Removing, Listing
<1>. QED
  BY <1>3, <1>4

LEMMA CrashEngine ==
  ASSUME EInv, NEW u \in Users, Crash(u)
  PROVE  EInv'
<1>1. /\ UNCHANGED <<entries, table, n, ctrl, ctrlpage, held, state, target, addr, count, moved>>
      /\ master' = master /\ mode' = "oops"
  BY DEF Crash, buffers, registers, engine, place
<1>2. (Armed' => Armed) /\ Removing'
  BY <1>1 DEF Armed, Removing
<1>. QED
  BY <1>1, <1>2, EngineFrame DEF EInv

LEMMA EngineInit ==
  ASSUME Init
  PROVE  EInv
  BY DEF Init, EInv, Filled, Armed, CtrlKnown, Resting, Walk, Aimed, Removing, Listing, AtStart

LEMMA EngineNext ==
  ASSUME IInv, EInv, [Next]_vars
  PROVE  EInv'
<1>1. CASE Probe \/ Fails \/ Remove \/ Ends
  BY <1>1, ProbeRemoveEngine
<1>2. CASE Acquire
  BY <1>2, AcquireEngine
<1>3. CASE Release
  BY <1>3, ReleaseEngine
<1>4. CASE EngineOn \/ EngineOff \/ StartBlock
  BY <1>4, SwitchEngine
<1>5. CASE FinishBlock
  BY <1>5, FinishEngine
<1>6. CASE \E u \in Users : \/ Open(u) \/ Enable(u) \/ Disable(u) \/ Close(u)
                            \/ IoctlFails(u) \/ IoctlClears(u)
                            \/ Read(u) \/ Mark(u) \/ Look(u) \/ Sleep(u)
  BY <1>6, UsersEngine
<1>7. CASE \E u \in Users : Crash(u)
  BY <1>7, CrashEngine
<1>8. CASE UNCHANGED vars
  <2>1. UNCHANGED <<entries, table, n, ctrl, ctrlpage, held, state, target, addr, count, moved,
                    master, mode, k>>
    BY <1>8 DEF vars, driver, buffers, registers, engine, place
  <2>2. (Armed' => Armed) /\ Removing'
    BY <2>1, EngineFrame DEF Armed, EInv, Removing
  <2>. QED
    BY <2>1, <2>2, EngineFrame DEF EInv
<1>. QED
  BY <1>1, <1>2, <1>3, <1>4, <1>5, <1>6, <1>7, <1>8 DEF Next

LEMMA EngineInBuffer ==
  ASSUME IInv, EInv
  PROVE  NeverIntoFreed
<1>. SUFFICES ASSUME state = "sending", master, ~moved
              PROVE  (ctrl = 0 \/ ("ctrl" \in held /\ ctrl = ctrlpage)) /\ Allowed
  BY DEF NeverIntoFreed, Allowed
<1>1. ctrl = 0 \/ ("ctrl" \in held /\ ctrl = ctrlpage)
  BY DEF IInv, Unheld, EInv, CtrlKnown
<1>2. Allowed
  BY DEF EInv, Aimed, Armed
<1>. QED
  BY <1>1, <1>2

-----------------------------------------------------------------------------
(***************************************************************************)
(* The first lap.  Offsets: where each entry begins in the mapping; the    *)
(* last one is the number of pages of all entries.                         *)
(***************************************************************************)
Offsets(s, list) ==
  /\ s \in [1..Len(list)+1 -> Nat] /\ s[1] = 0
  /\ \A j \in 1..Len(list) : s[j+1] = s[j] + list[j].pages

LEMMA Least ==
  ASSUME NEW T \in SUBSET Nat, T # {}
  PROVE  \E x \in T : \A y \in T : x <= y
<1>1. PICK R : IsWellFoundedOn(R, Nat) /\ \A x, y \in Nat : <<x, y>> \in R <=> x < y
  <2>1. \A x, y \in Nat : <<x, y>> \in OpToRel(<, Nat) <=> x < y
    BY DEF OpToRel
  <2>. QED
    BY <2>1, NatLessThanWellFounded, Zenon
<1>2. PICK x \in T : \A y \in T : ~(<<y, x>> \in R)
  <2>1. IsWellFoundedOn(R, Nat) /\ T \subseteq Nat
    BY <1>1
  <2>. QED
    BY <2>1, WFMin
<1>3. ASSUME NEW y \in T PROVE x <= y
  <2>1. x \in Nat /\ y \in Nat
    BY <1>2
  <2>2. ~(y < x)
    BY <1>1, <1>2, <2>1
  <2>. QED
    BY <2>1, <2>2
<1>. QED
  BY <1>3

LEMMA EntryFacts ==
  ASSUME NEW list \in Seq(Entry), NEW j \in 1..Len(list)
  PROVE  /\ Len(list) \in Nat /\ list[j] \in Entry
         /\ list[j].handle \in Nat /\ list[j].pages \in Nat /\ list[j].pages > 0
<1>1. Len(list) \in Nat /\ list[j] \in Entry
  OBVIOUS
<1>2. list[j].handle \in HostPages /\ list[j].pages \in 1..EntryPages
  BY <1>1 DEF Entry
<1>3. list[j].pages \in Nat /\ list[j].pages > 0
  BY <1>2, Bounds
<1>. QED
  BY <1>1, <1>2, <1>3, Bounds

\* Induction over the entries: the places of which a part of the list shows nothing have a least one.
LEMMA OffsetsExist ==
  ASSUME NEW list \in Seq(Entry)
  PROVE  \E s : Offsets(s, list)
<1>. DEFINE Upto(s, i) == /\ s \in [1..i+1 -> Nat] /\ s[1] = 0
                          /\ \A j \in 1..i : s[j+1] = s[j] + list[j].pages
            T == {i \in 0..Len(list) : ~\E s : Upto(s, i)}
<1>1. Len(list) \in Nat
  OBVIOUS
<1>2. T = {}
  <2>. SUFFICES ASSUME T # {} PROVE FALSE
    OBVIOUS
  <2>1. T \in SUBSET Nat
    BY <1>1
  <2>2. PICK i \in T : \A y \in T : i <= y
    BY <2>1, Least, Zenon
  <2>3. CASE i = 0
    <3>1. Upto([j \in 1..1 |-> 0], 0)
      BY <1>1
    <3>. QED
      BY <2>3, <3>1
  <2>4. CASE i # 0
    <3>1. i - 1 \in 0..Len(list) /\ i \in 1..Len(list) /\ i \in Nat /\ ~(i <= i - 1)
      <4>1. i \in 0..Len(list)
        OBVIOUS
      <4>. HIDE DEF T
      <4>. QED
        BY <1>1, <2>4, <4>1
    <3>2. PICK s : Upto(s, i-1)
      <4>1. ~(i - 1 \in T)
        BY <2>2, <3>1, Zenon
      <4>. QED
        BY <3>1, <4>1, Zenon
    <3>. DEFINE p == list[i].pages
                r == [j \in 1..i+1 |-> IF j = i + 1 THEN s[i] + p ELSE s[j]]
    <3>3. p \in Nat /\ s[i] \in Nat /\ s \in [1..i -> Nat]
      <4>1. p \in Nat
        BY <3>1, EntryFacts
      <4>2. i - 1 + 1 = i /\ i \in 1..i
        BY <3>1
      <4>. QED
        BY <3>2, <4>1, <4>2
    <3>4. r \in [1..i+1 -> Nat] /\ r[1] = 0
      <4>. HIDE DEF p
      <4>. QED
        BY <3>1, <3>2, <3>3
    <3>5. ASSUME NEW j \in 1..i PROVE r[j+1] = r[j] + list[j].pages
      <4>1. CASE j = i
        BY <3>1, <4>1
      <4>2. CASE j # i
        <5>1. j \in 1..i-1 /\ j \in 1..i+1 /\ j + 1 \in 1..i+1 /\ j # i + 1 /\ j + 1 # i + 1
          <6>. HIDE DEF T, r, p
          <6>1. j \in Nat /\ j >= 1 /\ j <= i /\ i \in Nat
            BY <3>1
          <6>. QED
            BY <4>2, <6>1
        <5>2. s[j+1] = s[j] + list[j].pages
          BY <3>2, <5>1
        <5>. QED
          BY <5>1, <5>2
      <4>. QED
        BY <4>1, <4>2
    <3>6. Upto(r, i)
      <4>. HIDE DEF r
      <4>. QED
        BY <3>4, <3>5
    <3>. QED
      BY <2>2, <3>6
  <2>. QED
    BY <2>3, <2>4
<1>3. Len(list) \in 0..Len(list)
  BY <1>1
<1>. QED
  BY <1>2, <1>3 DEF Offsets

LEMMA OffsetsGrow ==
  ASSUME NEW list \in Seq(Entry), NEW s, Offsets(s, list),
         NEW a \in 1..Len(list)+1, NEW b \in 1..Len(list)+1, a <= b
  PROVE  s[a] <= s[b]
<1>. DEFINE T == {e \in 1..Len(list)+1 : a <= e /\ ~(s[a] <= s[e])}
<1>0. Len(list) \in Nat /\ s \in [1..Len(list)+1 -> Nat]
  BY DEF Offsets
<1>1. Len(list) \in Nat /\ a \in Nat /\ \A e \in 1..Len(list)+1 : e \in Nat /\ s[e] \in Nat
  <2>1. \A e \in 1..Len(list)+1 : e \in Nat
    BY <1>0
  <2>2. \A e \in 1..Len(list)+1 : s[e] \in Nat
    BY <1>0
  <2>. QED
    BY <1>0, <2>1, <2>2
<1>2. T = {}
  <2>. SUFFICES ASSUME T # {} PROVE FALSE
    OBVIOUS
  <2>1. T \in SUBSET Nat
    BY <1>1
  <2>2. PICK e \in T : \A y \in T : e <= y
    BY <2>1, Least, Zenon
  <2>3. e \in 1..Len(list)+1 /\ a <= e /\ ~(s[a] <= s[e])
    OBVIOUS
  <2>. HIDE DEF T
  <2>4. e # a
    BY <1>1, <2>3
  <2>5. e - 1 \in 1..Len(list) /\ a <= e - 1 /\ e \in Nat
    BY <1>1, <2>3, <2>4
  <2>6. s[e] = s[e-1] + list[e-1].pages /\ list[e-1].pages \in Nat /\ s[e-1] \in Nat
    <3>1. s[e-1+1] = s[e-1] + list[e-1].pages
      BY <2>5 DEF Offsets
    <3>. QED
      BY <1>1, <2>5, <3>1, EntryFacts
  <2>7. s[a] <= s[e-1]
    <3>1. ~(e - 1 \in T)
      BY <2>2, <2>5
    <3>. QED
      BY <1>1, <2>5, <3>1 DEF T
  <2>8. s[a] \in Nat /\ s[e] \in Nat
    BY <1>1, <2>3
  <2>9. \A u, v, w, p \in Nat : w = v + p /\ u <= v => u <= w
    OBVIOUS
  <2>. QED
    BY <2>3, <2>6, <2>7, <2>8, <2>9
<1>. QED
  BY <1>2

\* The pages of the buffer are no more than those of all entries.
LEMMA PagesTotal ==
  ASSUME NEW list \in Seq(Entry), NEW s, Offsets(s, list)
  PROVE  Cardinality(BufferPages(list)) <= s[Len(list)+1]
<1>. DEFINE U(i) == UNION {PagesOf(list[j]) : j \in 1..i}
            Small(i) == IsFiniteSet(U(i)) /\ Cardinality(U(i)) <= s[i+1]
            T == {i \in 0..Len(list) : ~Small(i)}
<1>1. Len(list) \in Nat /\ \A e \in 1..Len(list)+1 : s[e] \in Nat
  BY DEF Offsets
<1>2. T = {}
  <2>. SUFFICES ASSUME T # {} PROVE FALSE
    OBVIOUS
  <2>1. T \in SUBSET Nat
    BY <1>1
  <2>2. PICK i \in T : \A y \in T : i <= y
    BY <2>1, Least, Zenon
  <2>3. i \in 0..Len(list) /\ ~Small(i)
    OBVIOUS
  <2>4. CASE i = 0
    <3>1. U(0) = {}
      OBVIOUS
    <3>2. IsFiniteSet(U(0)) /\ Cardinality(U(0)) = 0
      BY <3>1, FS_EmptySet
    <3>3. s[0+1] = 0
      BY DEF Offsets
    <3>. QED
      BY <2>3, <2>4, <3>2, <3>3
  <2>5. CASE i # 0
    <3>. HIDE DEF T
    <3>1. i - 1 \in 0..Len(list) /\ i \in 1..Len(list) /\ i \in Nat /\ ~(i <= i - 1)
      BY <1>1, <2>3, <2>5
    <3>2. Small(i-1)
      <4>1. ~(i - 1 \in T)
        BY <2>2, <3>1, Zenon
      <4>. QED
        BY <3>1, <4>1, Zenon DEF T
    <3>3. U(i) = U(i-1) \cup PagesOf(list[i])
      <4>1. \A j : j \in 1..i <=> j \in 1..i-1 \/ j = i
        BY <3>1
      <4>. QED
        BY <4>1, Zenon
    <3>4. /\ IsFiniteSet(PagesOf(list[i])) /\ Cardinality(PagesOf(list[i])) = list[i].pages
          /\ list[i].pages \in Nat
      <4>1. list[i].handle \in Nat /\ list[i].pages \in Nat /\ list[i].pages > 0
        BY <3>1, EntryFacts
      <4>2. ASSUME NEW h \in Nat, NEW p \in Nat, p > 0
            PROVE  IsFiniteSet(h..h+p-1) /\ Cardinality(h..h+p-1) = p
        <5>1. PICK q \in Int : q = h + p - 1
          OBVIOUS
        <5>2. IsFiniteSet(h..q) /\ Cardinality(h..q) = IF h > q THEN 0 ELSE q - h + 1
          BY FS_Interval
        <5>. QED
          BY <4>2, <5>1, <5>2
      <4>. QED
        BY <4>1, <4>2 DEF PagesOf
    <3>5. IsFiniteSet(U(i)) /\ Cardinality(U(i)) <= Cardinality(U(i-1)) + Cardinality(PagesOf(list[i]))
      <4>. HIDE DEF U
      <4>1. /\ IsFiniteSet(U(i))
            /\ Cardinality(U(i)) = Cardinality(U(i-1)) + Cardinality(PagesOf(list[i]))
                                     - Cardinality(U(i-1) \cap PagesOf(list[i]))
        BY <3>2, <3>3, <3>4, FS_Union
      <4>2. Cardinality(U(i-1) \cap PagesOf(list[i])) \in Nat
        <5>1. IsFiniteSet(U(i-1) \cap PagesOf(list[i]))
          BY <3>2, FS_Subset
        <5>. QED
          BY <5>1, FS_CardinalityType
      <4>3. Cardinality(U(i-1)) \in Nat /\ Cardinality(PagesOf(list[i])) \in Nat
        BY <3>2, <3>4, FS_CardinalityType
      <4>. QED
        BY <4>1, <4>2, <4>3
    <3>6. s[i+1] = s[i] + list[i].pages /\ s[i] \in Nat /\ Cardinality(U(i-1)) <= s[i]
      <4>1. i - 1 + 1 = i
        BY <3>1
      <4>. QED
        BY <1>1, <3>1, <3>2, <4>1 DEF Offsets
    <3>7. Cardinality(U(i)) \in Nat /\ Cardinality(U(i-1)) \in Nat
      BY <3>2, <3>5, FS_CardinalityType
    <3>8. Small(i)
      <4>. HIDE DEF U
      <4>1. \A u, v, p, q \in Nat : u <= v + p /\ v <= q => u <= q + p
        OBVIOUS
      <4>2. Cardinality(U(i)) <= s[i] + list[i].pages
        BY <3>4, <3>5, <3>6, <3>7, <4>1
      <4>. QED
        BY <3>5, <3>6, <4>2
    <3>. QED
      BY <2>3, <3>8
  <2>. QED
    BY <2>4, <2>5
<1>3. Len(list) \in 0..Len(list)
  BY <1>1
<1>4. Small(Len(list))
  BY <1>2, <1>3
<1>5. BufferPages(list) = U(Len(list))
  BY DEF BufferPages
<1>. QED
  BY <1>4, <1>5

\* Block after block, the engine and the programs' mapping agree.
LEMMA MappedIs ==
  ASSUME entries \in Seq(Entry), NEW s, Offsets(s, entries), NEW a \in 1..Len(entries),
         NEW c \in Nat, c < entries[a].pages
  PROVE  Mapped(s[a] + c) = entries[a].handle + c
<1>. DEFINE start == CHOOSE f : f = [j \in 1..Len(entries) |->
                                       IF j = 1 THEN 0 ELSE f[j-1] + entries[j-1].pages]
            i == s[a] + c
            e == CHOOSE x \in 1..Len(entries) : i \in start[x] .. start[x] + entries[x].pages - 1
<1>0. Len(entries) \in Nat /\ s \in [1..Len(entries)+1 -> Nat] /\ s[1] = 0
  BY DEF Offsets
<1>1. Mapped(i) = entries[e].handle + i - start[e]
  BY DEF Mapped
<1>2. start = [j \in 1..Len(entries) |-> IF j = 1 THEN 0 ELSE start[j-1] + entries[j-1].pages]
  <2>. DEFINE g == [j \in 1..Len(entries) |-> s[j]]
  <2>1. ASSUME NEW j \in 1..Len(entries)
        PROVE  s[j] = IF j = 1 THEN 0 ELSE g[j-1] + entries[j-1].pages
    <3>1. CASE j = 1
      BY <1>0, <3>1
    <3>2. CASE j # 1
      <4>1. j - 1 \in 1..Len(entries) /\ j - 1 + 1 = j
        BY <1>0, <3>2
      <4>. QED
        BY <3>2, <4>1 DEF Offsets
    <3>. QED
      BY <3>1, <3>2
  <2>2. g = [j \in 1..Len(entries) |-> IF j = 1 THEN 0 ELSE g[j-1] + entries[j-1].pages]
    BY <2>1
  <2>. HIDE DEF g
  <2>. QED
    BY <2>2
<1>. HIDE DEF start
<1>3. \A j \in 1..Len(entries) : start[j] = s[j]
  <2>. DEFINE T == {j \in 1..Len(entries) : start[j] # s[j]}
  <2>. SUFFICES ASSUME T # {} PROVE FALSE
    OBVIOUS
  <2>1. T \in SUBSET Nat
    BY <1>0
  <2>2. PICK j \in T : \A y \in T : j <= y
    BY <2>1, Least, Zenon
  <2>3. j \in 1..Len(entries) /\ start[j] # s[j]
    OBVIOUS
  <2>4. CASE j = 1
    BY <1>0, <1>2, <2>3, <2>4
  <2>5. CASE j # 1
    <3>. HIDE DEF T
    <3>1. j - 1 \in 1..Len(entries) /\ j - 1 + 1 = j /\ ~(j <= j - 1)
      BY <1>0, <2>3, <2>5
    <3>2. start[j-1] = s[j-1]
      BY <2>2, <3>1 DEF T
    <3>3. start[j] = start[j-1] + entries[j-1].pages
      BY <1>2, <2>3, <2>5
    <3>4. s[j-1+1] = s[j-1] + entries[j-1].pages
      BY <3>1 DEF Offsets
    <3>. QED
      BY <2>3, <3>1, <3>2, <3>3, <3>4
  <2>. QED
    BY <2>4, <2>5
<1>4. \A x \in 1..Len(entries) : i \in start[x] .. start[x] + entries[x].pages - 1 <=> x = a
  <2>. SUFFICES ASSUME NEW x \in 1..Len(entries)
                PROVE  i \in start[x] .. start[x] + entries[x].pages - 1 <=> x = a
    OBVIOUS
  <2>1. PICK u \in Nat, v \in Nat, p \in Nat, q \in Nat :
          u = s[x] /\ v = s[a] /\ p = entries[x].pages /\ q = entries[a].pages
    <3>1. entries[x].pages \in Nat /\ entries[a].pages \in Nat
      BY EntryFacts
    <3>2. s[x] \in Nat /\ s[a] \in Nat
      BY <1>0
    <3>. QED
      BY <3>1, <3>2
  <2>5. s[x+1] = u + p /\ s[a+1] = v + q /\ start[x] = u /\ i = v + c /\ c < q
    BY <1>3, <2>1 DEF Offsets
  <2>6. i \in start[x] .. start[x] + entries[x].pages - 1 <=> u <= v + c /\ v + c < u + p
    <3>. HIDE DEF i
    <3>1. \A u1, v1, p1, c1 \in Nat : v1 + c1 \in u1 .. u1 + p1 - 1 <=> u1 <= v1 + c1 /\ v1 + c1 < u1 + p1
      OBVIOUS
    <3>2. start[x] = u /\ entries[x].pages = p /\ i = v + c
      BY <2>1, <2>5
    <3>3. u \in Nat /\ v \in Nat /\ p \in Nat /\ c \in Nat
      BY <2>1
    <3>. QED
      BY <3>1, <3>2, <3>3, Zenon
  <2>2. CASE x = a
    <3>1. u = v /\ p = q
      BY <2>1, <2>2
    <3>. QED
      BY <2>2, <2>5, <2>6, <3>1
  <2>3. CASE x < a
    <3>1. s[x+1] <= s[a]
      <4>1. x + 1 \in 1..Len(entries)+1 /\ a \in 1..Len(entries)+1 /\ x + 1 <= a
        BY <1>0, <2>3
      <4>. QED
        BY <4>1, OffsetsGrow
    <3>2. u + p <= v
      BY <2>1, <2>5, <3>1
    <3>. QED
      BY <2>3, <2>6, <3>2
  <2>4. CASE a < x
    <3>1. s[a+1] <= s[x]
      <4>1. a + 1 \in 1..Len(entries)+1 /\ x \in 1..Len(entries)+1 /\ a + 1 <= x
        BY <1>0, <2>4
      <4>. QED
        BY <4>1, OffsetsGrow
    <3>2. v + q <= u
      BY <2>1, <2>5, <3>1
    <3>. QED
      BY <2>4, <2>5, <2>6, <3>2
  <2>. QED
    BY <1>0, <2>2, <2>3, <2>4
<1>5. e = a
  BY <1>4
<1>6. start[a] = s[a] /\ s[a] \in Nat /\ entries[a].handle \in Nat
  BY <1>0, <1>3, EntryFacts
<1>. HIDE DEF e
<1>. QED
  BY <1>1, <1>5, <1>6

(***************************************************************************)
(* The buffer has the size asked for.  If the list fits the table, then as *)
(* long as the number of addresses is set the locations hold the entries   *)
(* in order, and in the first lap the place of the engine is that of the   *)
(* next page, unless the table was filled under it.                        *)
(***************************************************************************)
TableFits == Len(entries) < Locations
Full == "dmabuf" \in held => Cardinality(BufferPages(entries)) = BufPages
InTurn ==
  TableFits /\ n # 0 =>
    /\ "dmabuf" \in held /\ n = Len(entries) + 1
    /\ \A l \in 0..Locations-1 : l < Len(entries) => table[l] = entries[l+1]
Numbered ==
  n # 0 => \/ mode \in {"live", "oops"} \/ (mode = "probe" /\ k = 12)
           \/ mode = "remove" /\ k <= 5 /\ "minor" \in held
Parked == state = "disabled" => addr = 0 /\ count = 0 /\ blocks = 0
OnLap ==
  TableFits /\ n # 0 /\ ~moved /\ blocks < BufPages =>
    \A s : Offsets(s, entries) =>
      addr < Len(entries) /\ count < entries[addr+1].pages /\ blocks = s[addr+1] + count
Aiming ==
  TableFits /\ n # 0 /\ ~moved /\ blocks < BufPages /\ state = "sending" => target = Mapped(blocks)
LapInv == Full /\ InTurn /\ Numbered /\ Parked /\ OnLap /\ Aiming

LEMMA SomeEntry ==
  ASSUME entries \in Seq(Entry), Cardinality(BufferPages(entries)) = BufPages
  PROVE  Len(entries) \in Nat /\ Len(entries) > 0
<1>1. Len(entries) \in Nat
  OBVIOUS
<1>2. Len(entries) # 0
  <2>. SUFFICES ASSUME Len(entries) = 0 PROVE FALSE
    OBVIOUS
  <2>1. BufferPages(entries) = {}
    BY DEF BufferPages
  <2>. QED
    BY <2>1, FS_EmptySet, Bounds
<1>. QED
  BY <1>1, <1>2

LEMMA LapStarts ==
  ASSUME entries \in Seq(Entry), Cardinality(BufferPages(entries)) = BufPages,
         entries' = entries, addr' = 0, count' = 0, blocks' = 0
  PROVE  OnLap'
<1>1. Len(entries) \in Nat /\ 1 \in 1..Len(entries)
  BY SomeEntry
<1>2. entries[1].pages > 0 /\ 0 < Len(entries) /\ 0 + 1 = 1
  BY <1>1, EntryFacts
<1>3. ASSUME NEW s, Offsets(s, entries) PROVE 0 = s[1] + 0
  BY <1>3 DEF Offsets
<1>. QED
  BY <1>2, <1>3 DEF OnLap, Offsets

LEMMA FillInTurn ==
  ASSUME TypeOK, Fill, entries' = entries, "dmabuf" \in held'
  PROVE  InTurn'
<1>. SUFFICES ASSUME TableFits, n' # 0
              PROVE  /\ n' = Len(entries) + 1
                     /\ \A l \in 0..Locations-1 : l < Len(entries) => table'[l] = entries[l+1]
  BY DEF InTurn, TableFits
<1>1. entries \in Seq(Entry) /\ Len(entries) \in Nat
  BY DEF TypeOK
<1>. DEFINE L(l) == {j \in 1..Len(entries) : (j-1) % Locations = l /\ j + Locations > Len(entries)}
<1>2. n' = Len(entries) + 1
  <2>1. ASSUME NEW a \in Nat, NEW b \in Nat \ {0}, a < b, (a + 1) % b # 0 PROVE (a + 1) % b = a + 1
    <3>1. CASE a + 1 < b
      BY <3>1
    <3>2. CASE a + 1 = b
      BY <2>1, <3>2
    <3>. QED
      BY <2>1, <3>1, <3>2
  <2>. QED
    BY <1>1, <2>1, Bounds DEF Fill, TableFits
<1>3. ASSUME NEW l \in 0..Locations-1, l < Len(entries) PROVE table'[l] = entries[l+1]
  <2>1. ASSUME NEW j \in 1..Len(entries) PROVE (j - 1) % Locations = j - 1
    <3>1. j - 1 \in Nat /\ j - 1 < Locations
      BY <1>1, Bounds DEF TableFits
    <3>. QED
      BY <3>1, Bounds
  <2>2. l + 1 \in 1..Len(entries) /\ l + 1 + Locations > Len(entries) /\ l + 1 - 1 = l
    BY <1>1, <1>3, Bounds DEF TableFits
  <2>3. \A j \in 1..Len(entries) : j - 1 = l => j = l + 1
    BY <1>1, <2>2, Bounds
  <2>4. L(l) = {l + 1}
    BY <2>1, <2>2, <2>3
  <2>5. table'[l] = entries[CHOOSE j \in L(l) : TRUE]
    BY <2>4 DEF Fill
  <2>6. (CHOOSE j \in L(l) : TRUE) \in L(l)
    BY <2>4
  <2>. QED
    BY <2>4, <2>5, <2>6
<1>. QED
  BY <1>2, <1>3

(* Steps that leave the table, the list and the engine as they are.        *)
LEMMA LapFrame ==
  ASSUME LapInv, UNCHANGED <<entries, table, n, held, state, target, addr, count, blocks, moved>>
  PROVE  Full' /\ InTurn' /\ Parked' /\ OnLap' /\ Aiming'
<1>1. Full' /\ InTurn' /\ Parked'
  BY DEF LapInv, Full, InTurn, TableFits, Parked
<1>2. OnLap'
  BY DEF LapInv, OnLap, TableFits
<1>3. Mapped(blocks)' = Mapped(blocks)
  BY DEF Mapped
<1>4. Aiming'
  BY <1>3 DEF LapInv, Aiming, TableFits
<1>. QED
  BY <1>1, <1>2, <1>4

LEMMA ProbeRemoveLap ==
  ASSUME IInv, LapInv, Probe \/ Fails \/ Remove \/ Ends
  PROVE  LapInv'
<1>1. UNCHANGED <<entries, table, n, held, state, target, addr, count, blocks, moved>>
  BY DEF Probe, Fails, Remove, Ends, buffers, registers, engine, place
<1>2. Numbered'
  <2>0. Numbered /\ Holding /\ TypeOK
    BY DEF LapInv, IInv
  <2>. SUFFICES ASSUME n # 0
                PROVE  \/ mode' \in {"live", "oops"}
                       \/ mode' = "remove" /\ k' <= 5 /\ "minor" \in held'
    BY <1>1 DEF Numbered
  <2>1. CASE Probe
    BY <2>0, <2>1 DEF Probe, Numbered
  <2>2. CASE Fails
    <3>1. mode = "probe" /\ k = 12 /\ Probing
      BY <2>0, <2>2 DEF Fails, Numbered, Holding
    <3>2. k' = 4 /\ mode' = "remove" /\ "minor" \in held'
      BY <1>1, <2>2, <3>1, StepAt DEF Fails, Cleanup, Probing
    <3>. QED
      BY <3>2
  <2>3. CASE Remove
    <3>1. mode' = "remove" /\ k' = 1 /\ held' = Resources
      BY <1>1, <2>0, <2>3 DEF Remove, Holding
    <3>. QED
      BY <3>1 DEF Resources
  <2>4. CASE Ends
    <3>1. mode = "remove" => k = 16
      BY <2>0, <2>4, LabelIs DEF Ends, TypeOK
    <3>. QED
      BY <2>0, <2>4, <3>1 DEF Ends, Numbered
  <2>. QED
    BY <2>1, <2>2, <2>3, <2>4
<1>. QED
  BY <1>1, <1>2, LapFrame DEF LapInv

LEMMA AcquireLap ==
  ASSUME IInv, LapInv, Acquire
  PROVE  LapInv'
<1>1. /\ mode = "probe" /\ Probing /\ k \in 1..12 /\ (k < 12 => k' = k + 1 /\ mode' = "probe")
      /\ (k = 12 => mode' = "live" /\ k' = 1)
      /\ UNCHANGED <<state, target, addr, count, blocks>>
      /\ held' = held \cup ({Steps[k]} \ {"table"})
  BY StepAt DEF IInv, Holding, Probing, Acquire, engine, place
<1>2. TypeOK /\ Full /\ InTurn /\ Numbered /\ Parked /\ OnLap /\ Aiming
  BY DEF IInv, LapInv
<1>3. Parked'
  BY <1>1, <1>2 DEF Parked
<1>4. CASE k < 11
  <2>1. n' = 0
    <3>1. k \in {1, 2, 3, 4, 5, 6, 7, 8, 9, 10}
      BY <1>1, <1>4
    <3>2. n' = n
      BY <3>1, StepAt DEF Acquire, registers
    <3>3. n = 0
      BY <1>1, <1>2, <3>1 DEF Numbered
    <3>. QED
      BY <3>2, <3>3
  <2>2. Full'
    <3>1. CASE k = 6
      <4>1. entries' \in Layouts
        BY <3>1, StepAt DEF Acquire
      <4>. QED
        BY <4>1 DEF Layouts, Full
    <3>2. CASE k \in {1, 2, 3, 4, 5, 7, 8, 9, 10}
      <4>1. entries' = entries /\ ("dmabuf" \in held' => "dmabuf" \in held)
        BY <1>1, <3>2, StepAt DEF Acquire, buffers
      <4>. QED
        BY <1>2, <4>1 DEF Full
    <3>. QED
      BY <1>1, <1>4, <3>1, <3>2
  <2>. QED
    BY <1>3, <2>1, <2>2 DEF LapInv, InTurn, Numbered, OnLap, Aiming
<1>5. CASE k = 11
  <2>1. Fill /\ entries' = entries /\ held' = held /\ "dmabuf" \in held /\ k' = 12 /\ mode' = "probe"
    BY <1>1, <1>5, StepAt DEF Acquire, buffers, Probing
  <2>2. InTurn' /\ moved' = (state # "disabled")
    BY <1>2, <2>1, FillInTurn, FillType
  <2>3. OnLap'
    <3>1. CASE state = "disabled"
      <4>1. addr' = 0 /\ count' = 0 /\ blocks' = 0
        BY <1>1, <1>2, <3>1 DEF Parked
      <4>2. entries \in Seq(Entry) /\ Cardinality(BufferPages(entries)) = BufPages
        BY <1>2, <2>1 DEF TypeOK, Full
      <4>. QED
        BY <2>1, <4>1, <4>2, LapStarts
    <3>2. CASE state # "disabled"
      BY <2>2, <3>2 DEF OnLap
    <3>. QED
      BY <3>1, <3>2
  <2>4. Aiming'
    BY <1>1, <2>2 DEF Aiming
  <2>. QED
    BY <1>2, <1>3, <2>1, <2>2, <2>3, <2>4 DEF LapInv, Full, Numbered
<1>6. CASE k = 12
  <2>1. /\ UNCHANGED <<entries, n, table, moved>> /\ mode' = "live"
        /\ ("dmabuf" \in held <=> "dmabuf" \in held')
    BY <1>1, <1>6, StepAt DEF Acquire, buffers, registers
  <2>2. Mapped(blocks)' = Mapped(blocks)
    BY <1>1, <2>1 DEF Mapped
  <2>3. OnLap'
    BY <1>1, <1>2, <2>1 DEF OnLap, TableFits
  <2>4. Aiming'
    BY <1>1, <1>2, <2>1, <2>2 DEF Aiming, TableFits
  <2>5. Full' /\ InTurn' /\ Numbered'
    BY <1>2, <2>1 DEF Full, InTurn, TableFits, Numbered
  <2>. QED
    BY <1>3, <2>3, <2>4, <2>5 DEF LapInv
<1>. QED
  BY <1>1, <1>4, <1>5, <1>6

LEMMA ReleaseLap ==
  ASSUME IInv, LapInv, Release
  PROVE  LapInv'
<1>1. /\ mode \in {"remove", "lost"} /\ k \in 1..15 /\ k' = k + 1 /\ mode' = mode
      /\ held' = held \ Gone /\ UNCHANGED <<state, target, addr, count, blocks, moved>>
      /\ Full /\ InTurn /\ Numbered /\ Parked /\ OnLap /\ Aiming
  BY ReleaseAt DEF Release, LapInv, engine, place
<1>2. Full'
  <2>1. CASE k = 10
    BY <1>1, <2>1, LabelAt DEF Gone, Full
  <2>2. CASE k # 10
    <3>1. Labels[k] # "dmabuf"
      BY <1>1, <2>2, LabelAt
    <3>2. entries' = entries
      BY <3>1 DEF Release, buffers
    <3>. QED
      BY <1>1, <3>2 DEF Full
  <2>. QED
    BY <2>1, <2>2
<1>3. n' = n \/ n' = 0
  BY DEF Release, Clear, registers
<1>4. CASE n' = 0
  BY <1>1, <1>2, <1>4 DEF LapInv, InTurn, Numbered, Parked, OnLap, Aiming
<1>5. CASE n' = n /\ n # 0
  <2>1. mode = "remove" /\ k <= 5 /\ "minor" \in held
    BY <1>1, <1>5 DEF Numbered
  <2>2. k \in {1, 3, 4}
    <3>1. k \in {1, 2, 3, 4, 5}
      BY <1>1, <2>1
    <3>2. k \notin {2, 5}
      <4>. SUFFICES ASSUME k \in {2, 5} PROVE n' = 0
        BY <1>5
      <4>. QED
        BY <2>1, LabelAt DEF Release, Clear
    <3>. QED
      BY <3>1, <3>2
  <2>3. UNCHANGED <<entries, table>> /\ Gone \subseteq {"msi"}
    BY <2>2, LabelAt DEF Release, Gone, buffers, registers
  <2>4. k' <= 5 /\ mode' = "remove" /\ "minor" \in held' /\ ("dmabuf" \in held <=> "dmabuf" \in held')
    <3>1. k' <= 5
      BY <1>1, <2>2
    <3>. QED
      BY <1>1, <2>1, <2>3, <3>1
  <2>5. Mapped(blocks)' = Mapped(blocks)
    BY <1>1, <2>3 DEF Mapped
  <2>6. OnLap'
    BY <1>1, <1>5, <2>3 DEF OnLap, TableFits
  <2>7. Aiming'
    BY <1>1, <1>5, <2>3, <2>5 DEF Aiming, TableFits
  <2>8. InTurn' /\ Numbered' /\ Parked'
    BY <1>1, <1>5, <2>3, <2>4 DEF InTurn, TableFits, Numbered, Parked
  <2>. QED
    BY <1>2, <2>6, <2>7, <2>8 DEF LapInv
<1>. QED
  BY <1>3, <1>4, <1>5

(* Where the block goes that begins now. *)
LEMMA LapTarget ==
  ASSUME IInv, LapInv, TableFits, n # 0, ~moved, blocks < BufPages
  PROVE  Target = Mapped(blocks)
<1>1. /\ entries \in Seq(Entry) /\ Len(entries) \in Nat /\ addr \in 0..Locations-1 /\ addr \in Nat
      /\ count \in Nat
  BY Bounds DEF IInv, TypeOK
<1>2. PICK s : Offsets(s, entries)
  BY <1>1, OffsetsExist
<1>3. addr < Len(entries) /\ count < entries[addr+1].pages /\ blocks = s[addr+1] + count
  BY <1>2 DEF LapInv, OnLap
<1>4. addr + 1 \in 1..Len(entries) /\ table[addr] = entries[addr+1]
  BY <1>1, <1>3 DEF LapInv, InTurn
<1>5. Mapped(s[addr+1] + count) = entries[addr+1].handle + count
  BY <1>1, <1>2, <1>3, <1>4, MappedIs
<1>6. table[addr] # Cleared
  BY <1>1, <1>4, EntryFacts DEF Cleared
<1>. QED
  BY <1>3, <1>4, <1>5, <1>6 DEF Target

LEMMA SwitchLap ==
  ASSUME IInv, EInv, LapInv, EngineOn \/ EngineOff \/ StartBlock
  PROVE  LapInv'
<1>1. /\ UNCHANGED <<mode, k, held, entries, n, table>>
      /\ TypeOK /\ Full /\ InTurn /\ Numbered /\ Parked /\ OnLap /\ Resting
  BY DEF EngineOn, EngineOff, StartBlock, driver, buffers, registers, IInv, EInv, LapInv
<1>2. Full' /\ InTurn' /\ Numbered'
  BY <1>1 DEF Full, InTurn, TableFits, Numbered
<1>3. Mapped(blocks') = Mapped(blocks)' \/ blocks' # blocks
  BY <1>1 DEF Mapped
<1>4. CASE EngineOn
  <2>1. UNCHANGED <<addr, count, blocks, moved>> /\ state' = "waiting"
    BY <1>4 DEF EngineOn, place
  <2>2. OnLap'
    BY <1>1, <2>1 DEF OnLap, TableFits
  <2>. QED
    BY <1>2, <2>1, <2>2 DEF LapInv, Parked, Aiming
<1>5. CASE EngineOff
  <2>1. addr' = 0 /\ count' = 0 /\ blocks' = 0 /\ state' = "disabled"
    BY <1>5 DEF EngineOff
  <2>2. OnLap'
    <3>1. CASE TableFits /\ n # 0
      <4>1. entries \in Seq(Entry) /\ Cardinality(BufferPages(entries)) = BufPages
        BY <1>1, <3>1 DEF TypeOK, Full, InTurn
      <4>. QED
        BY <1>1, <2>1, <4>1, LapStarts
    <3>2. CASE ~(TableFits /\ n # 0)
      BY <1>1, <3>2 DEF OnLap, TableFits
    <3>. QED
      BY <3>1, <3>2
  <2>. QED
    BY <1>2, <2>1, <2>2 DEF LapInv, Parked, Aiming
<1>6. CASE StartBlock
  <2>1. UNCHANGED <<addr, count, blocks, moved>> /\ state' = "sending" /\ target' = Target
    BY <1>6 DEF StartBlock, place
  <2>2. OnLap'
    BY <1>1, <2>1 DEF OnLap, TableFits
  <2>3. Mapped(blocks)' = Mapped(blocks)
    BY <1>1, <2>1 DEF Mapped
  <2>4. Aiming'
    BY <1>1, <2>1, <2>3, LapTarget DEF Aiming, TableFits
  <2>. QED
    BY <1>2, <2>1, <2>2, <2>4 DEF LapInv, Parked
<1>. QED
  BY <1>4, <1>5, <1>6

LEMMA FinishLap ==
  ASSUME IInv, LapInv, FinishBlock
  PROVE  LapInv'
<1>1. /\ UNCHANGED <<mode, k, held, entries, table, n, moved>> /\ state' = "waiting"
      /\ Advance /\ blocks' = blocks + 1
      /\ Full /\ InTurn /\ Numbered /\ OnLap
  BY DEF FinishBlock, driver, buffers, registers, LapInv
<1>2. Full' /\ InTurn' /\ Numbered' /\ Parked' /\ Aiming'
  BY <1>1 DEF Full, InTurn, TableFits, Numbered, Parked, Aiming
<1>3. OnLap'
  <2>. SUFFICES ASSUME TableFits, n # 0, ~moved, blocks' < BufPages, NEW s, Offsets(s, entries)
                PROVE  /\ addr' < Len(entries) /\ count' < entries[addr'+1].pages
                       /\ blocks' = s[addr'+1] + count'
    BY <1>1 DEF OnLap, TableFits
  <2>1. Cardinality(BufferPages(entries)) = BufPages
    BY <1>1 DEF Full, InTurn
  <2>2. /\ Advance /\ blocks' = blocks + 1 /\ blocks \in Nat /\ addr \in Nat /\ count \in Nat
        /\ addr \in 0..Locations-1 /\ entries \in Seq(Entry) /\ Len(entries) \in Nat /\ BufPages \in Nat
    BY <1>1, Bounds DEF IInv, TypeOK
  <2>3. n = Len(entries) + 1 /\ \A l \in 0..Locations-1 : l < Len(entries) => table[l] = entries[l+1]
    BY <1>1 DEF InTurn
  <2>4. addr < Len(entries) /\ count < entries[addr+1].pages /\ blocks = s[addr+1] + count
    <3>1. blocks < BufPages
      BY <2>2
    <3>. QED
      BY <1>1, <3>1 DEF OnLap
  <2>5. table[addr] = entries[addr+1] /\ addr + 1 \in 1..Len(entries)
    BY <2>2, <2>3, <2>4
  <2>6. PICK p \in Nat, u \in Nat : /\ p = entries[addr+1].pages /\ u = s[addr+1] /\ table[addr].pages = p
                                   /\ s[addr+1+1] = u + p
    <3>1. entries[addr+1].pages \in Nat /\ s[addr+1] \in Nat
      <4>1. addr + 1 \in 1..Len(entries)+1
        BY <2>2, <2>5
      <4>. QED
        BY <2>2, <2>5, <4>1, EntryFacts DEF Offsets
    <3>. QED
      BY <2>5, <3>1 DEF Offsets
  <2>7. count < p /\ blocks = u + count
    BY <2>4, <2>6
  <2>8. CASE count + 1 >= p
    <3>1. count' = 0 /\ addr' = addr + 1
      BY <2>2, <2>3, <2>4, <2>6, <2>8 DEF Advance
    <3>2. blocks' = s[addr'+1] + 0
      <4>1. s[addr'+1] = u + p
        BY <2>6, <3>1
      <4>2. \A v, c, q, w, d \in Nat : c < q /\ c + 1 >= q /\ v = w + c /\ d = v + 1 => d = w + q + 0
        OBVIOUS
      <4>3. /\ blocks \in Nat /\ count \in Nat /\ p \in Nat /\ u \in Nat /\ blocks' = blocks + 1
            /\ count < p /\ count + 1 >= p /\ blocks = u + count
        BY <2>2, <2>6, <2>7, <2>8
      <4>4. blocks' \in Nat
        BY <4>3
      <4>5. blocks' = u + p + 0
        BY <4>2, <4>3, <4>4, Zenon
      <4>. QED
        BY <4>1, <4>5
    <3>3. addr' # Len(entries)
      <4>. SUFFICES ASSUME addr' = Len(entries) PROVE FALSE
        OBVIOUS
      <4>1. Cardinality(BufferPages(entries)) <= s[addr'+1]
        BY <2>2, PagesTotal
      <4>. QED
        BY <2>1, <2>2, <2>6, <3>1, <3>2, <4>1, SMTT(30)
    <3>4. addr' + 1 \in 1..Len(entries)
      BY <2>2, <2>4, <3>1, <3>3
    <3>5. entries[addr'+1].pages \in Nat /\ entries[addr'+1].pages > 0
      BY <2>2, <3>4, EntryFacts
    <3>. QED
      BY <2>2, <3>1, <3>2, <3>4, <3>5
  <2>9. CASE ~(count + 1 >= p)
    <3>1. count' = count + 1 /\ addr' = addr
      BY <2>2, <2>6, <2>9 DEF Advance
    <3>2. s[addr'+1] = u /\ entries[addr'+1].pages = p
      BY <2>6, <3>1
    <3>3. addr' < Len(entries)
      BY <2>4, <3>1
    <3>4. \A v, c, w, d \in Nat : v = w + c /\ d = v + 1 => d = w + (c + 1)
      OBVIOUS
    <3>5. blocks' = u + count'
      <4>1. blocks' = blocks + 1 /\ blocks = u + count /\ blocks \in Nat /\ count \in Nat /\ u \in Nat
        BY <2>2, <2>6, <2>7
      <4>2. blocks' \in Nat
        BY <4>1
      <4>. QED
        BY <3>1, <3>4, <4>1, <4>2, Zenon
    <3>6. count' < p
      <4>1. count \in Nat /\ p \in Nat /\ ~(count + 1 >= p)
        BY <2>2, <2>6, <2>9
      <4>. QED
        BY <3>1, <4>1
    <3>. QED
      BY <3>2, <3>3, <3>5, <3>6
  <2>. QED
    BY <2>8, <2>9
<1>. QED
  BY <1>2, <1>3 DEF LapInv

LEMMA UsersLap ==
  ASSUME IInv, LapInv, NEW u \in Users,
         \/ Open(u) \/ Enable(u) \/ Disable(u) \/ Close(u)
         \/ IoctlFails(u) \/ IoctlClears(u) \/ Crash(u)
         \/ Read(u) \/ Mark(u) \/ Look(u) \/ Sleep(u)
  PROVE  LapInv'
<1>1. /\ UNCHANGED <<k, held, entries, state, target, addr, count, blocks, moved>>
      /\ mode' \in {mode, "oops"}
  BY DEF Open, Enable, Disable, Close, IoctlFails, IoctlClears, Crash, Read, Mark, Look, Sleep,
         kernel, driver, buffers, engine, place
<1>2. CASE ~IoctlClears(u)
  <2>1. UNCHANGED <<n, table>>
    BY <1>2 DEF Open, Enable, Disable, Close, IoctlFails, Crash, Read, Mark, Look, Sleep, registers
  <2>2. Numbered'
    BY <1>1, <2>1 DEF LapInv, Numbered
  <2>. QED
    BY <1>1, <2>1, <2>2, LapFrame DEF LapInv
<1>3. CASE IoctlClears(u)
  <2>1. n' = 0
    BY <1>3 DEF IoctlClears, Clear
  <2>. QED
    BY <1>1, <2>1 DEF LapInv, Full, InTurn, Numbered, Parked, OnLap, Aiming
<1>. QED
  BY <1>2, <1>3

LEMMA LapInit ==
  ASSUME Init
  PROVE  LapInv
  BY DEF Init, LapInv, Full, InTurn, Numbered, Parked, OnLap, Aiming

LEMMA LapNext ==
  ASSUME IInv, EInv, LapInv, [Next]_vars
  PROVE  LapInv'
<1>1. CASE Probe \/ Fails \/ Remove \/ Ends
  BY <1>1, ProbeRemoveLap
<1>2. CASE Acquire
  BY <1>2, AcquireLap
<1>3. CASE Release
  BY <1>3, ReleaseLap
<1>4. CASE EngineOn \/ EngineOff \/ StartBlock
  BY <1>4, SwitchLap
<1>5. CASE FinishBlock
  BY <1>5, FinishLap
<1>6. CASE \E u \in Users : \/ Open(u) \/ Enable(u) \/ Disable(u) \/ Close(u)
                            \/ IoctlFails(u) \/ IoctlClears(u) \/ Crash(u)
                            \/ Read(u) \/ Mark(u) \/ Look(u) \/ Sleep(u)
  BY <1>6, UsersLap
<1>7. CASE UNCHANGED vars
  <2>1. UNCHANGED <<entries, table, n, held, state, target, addr, count, blocks, moved, mode, k>>
    BY <1>7 DEF vars, driver, buffers, registers, engine, place
  <2>2. Numbered'
    BY <2>1 DEF LapInv, Numbered
  <2>. QED
    BY <2>1, <2>2, LapFrame DEF LapInv
<1>. QED
  BY <1>1, <1>2, <1>3, <1>4, <1>5, <1>6, <1>7 DEF Next

LEMMA LapIsMapping ==
  ASSUME IInv, LapInv, TableFits
  PROVE  FirstLap
  BY DEF LapInv, Aiming, FirstLap

-----------------------------------------------------------------------------
(* The variables keep their types: no list, table or counter of the driver *)
(* and of the engine leaves its range.                                     *)
THEOREM DriverTypes == Spec => []TypeOK
<1>1. IInv => TypeOK
  BY DEF IInv
<1>. QED
  BY <1>1, Invariant, PTL

(* Whichever step of probe fails, after every remove and whenever programs *)
(* open the file, everything that was acquired has been given back; with   *)
(* no file left open the engine is switched off.                           *)
THEOREM NothingLeaks == Spec => []NoLeak
<1>1. IInv => NoLeak
  BY DEF IInv, Holding, Unheld, Using, NoLeak
<1>. QED
  BY <1>1, Invariant, PTL

(* The registers and buffers the operations of a file use are there as     *)
(* long as a file can be opened, and as long as one is open unless the     *)
(* probe in which it was opened fails.                                     *)
THEOREM MemoryForFiles == Spec => []FilesHaveMemory
<1>1. ASSUME IInv PROVE FilesHaveMemory
  <2>1. "misc" \in held => Needed \subseteq held
    BY <1>1 DEF IInv, Holding
  <2>2. ASSUME mode \in {"probe", "live"}, NEW u \in Users, file[u] \notin {"closed", "stale"}
        PROVE  Needed \subseteq held
    <3>1. file[u] \in Live
      BY <1>1, <2>2, FileType DEF IInv, Files
    <3>2. OpenHere
      BY <1>1, <3>1 DEF IInv, Using
    <3>3. CASE mode = "live"
      BY <1>1, <3>3 DEF IInv, Holding, Needed, Resources
    <3>4. CASE mode = "probe"
      <4>1. Probing /\ k > 8
        BY <1>1, <3>2, <3>4 DEF OpenHere, IInv, Holding
      <4>2. "misc" \in held
        BY <4>1 DEF Probing
      <4>. QED
        BY <2>1, <4>2
    <3>. QED
      BY <2>2, <3>3, <3>4
  <2>. QED
    BY <2>1, <2>2 DEF FilesHaveMemory, Needed
<1>. QED
  BY <1>1, Invariant, PTL

(* No program sleeps over an interrupt, for any number of programs.        *)
THEOREM SleepersInformed == Spec => []NoSleepOverEvent
<1>1. IInv => NoSleepOverEvent
  BY DEF IInv, Seen, NoSleepOverEvent
<1>. QED
  BY <1>1, Invariant, PTL

(* The engine writes into the buffer of the driver, or where the table is  *)
(* cleared or was never written: never into pages that have been freed,    *)
(* although it sends complete blocks after it has been switched off, and   *)
(* unless the next probe fills the table under it.                         *)
THEOREM NothingIntoFreed == Spec => []NeverIntoFreed
<1>1. Init => EInv
  BY EngineInit
<1>2. IInv /\ EInv /\ [Next]_vars => EInv'
  BY EngineNext
<1>3. IInv /\ EInv => NeverIntoFreed
  BY EngineInBuffer
<1>. QED
  BY <1>1, <1>2, <1>3, Invariant, PTL DEF Spec

(* As long as the list fits the table, the blocks of the first lap come to *)
(* the pages of the mapping in order, however the buffer was allocated.    *)
(* With 4096 entries or more, which the code does not exclude, the table   *)
(* wraps and they do not.                                                  *)
THEOREM FirstLapInOrder == Spec => [](TableFits => FirstLap)
<1>1. Init => EInv /\ LapInv
  BY EngineInit, LapInit
<1>2. IInv /\ EInv /\ LapInv /\ [Next]_vars => EInv' /\ LapInv'
  BY EngineNext, LapNext
<1>3. IInv /\ LapInv => (TableFits => FirstLap)
  BY LapIsMapping
<1>. QED
  BY <1>1, <1>2, <1>3, Invariant, PTL DEF Spec
=============================================================================
