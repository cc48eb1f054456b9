------------------------------ MODULE GdrApi ------------------------------
(***************************************************************************)
(* The library libgdrapi: its memory handles (gdr_memh_t), the sequence of *)
(* driver calls behind each of its functions, and the counters that decide *)
(* which fence a copy needs.  The driver below it is BufferLife, the       *)
(* copies themselves are in Copies.                                        *)
(*                                                                         *)
(* The library is not thread-safe, so one call runs at a time; the GPU     *)
(* memory may be freed between any two driver calls it makes.              *)
(***************************************************************************)
EXTENDS BufferLife, FiniteSets

CONSTANTS
    Memhs,         \* gdr_memh_t objects (calloc may hand a freed one out again)
    HandleWord,    \* stands for 2^32: mh->handle is a uint32_t
    DriverMinors,  \* minor versions that a gdrdrv of major version 2 may have
    MaxMappings    \* bound: callers stop mapping when a counter has reached it

ASSUME WordAssumption == HandleWord \in Nat \ {0} /\ None \notin Memhs
ASSUME BoundAssumption == DriverMinors \subseteq Nat /\ MaxMappings \in Nat
\* Device mappings came with gdrdrv 2.4.
ASSUME PlatformAssumption ==
    /\ {Persistent, CouldCache, MustUseDevice} \subseteq BOOLEAN
    /\ MustUseDevice => \A minor \in DriverMinors : minor >= 4

VARIABLES
    fd,         \* open, closing (inside gdr_close) or closed
    gdrdrv_version,  \* the minor version that gdr_open has read
    memh,       \* the handles on g->memhs
    counters,   \* gdr_mapping_type_counters, static in the library
    call        \* the call in progress: its next step and its locals

lib  == <<fd, gdrdrv_version, memh, counters, call>>
vars == <<life, lib>>

NoMemh == [live |-> FALSE, handle |-> 0, mapping_type |-> "NONE",
           buf |-> None, va |-> None, flags |-> "NONE"]
NoCall == [pc |-> "idle", mh |-> None, v |-> None, flags |-> "NONE"]

\* buf is the buffer the caller pinned, va the address gdr_map gave it and flags
\* the type it asked for; the library itself keeps the handle and the type.
Memh == [live: BOOLEAN, handle: Nat, mapping_type: Types,
         buf: Bufs \cup {None}, va: VMAs \cup {None}, flags: Types]
Call == [pc: {"idle", "mmap", "info", "undo", "undo_close", "unmap_close"},
         mh: Memhs \cup {None}, v: VMAs \cup {None}, flags: Types]

\* The library's own state and the driver's have their types.
ApiTypeOK ==
    /\ LifeTypeOK
    /\ fd \in {"open", "closing", "closed"}
    /\ gdrdrv_version \in DriverMinors \cup {0}
    /\ memh \in [Memhs -> Memh]
    /\ counters \in [Types -> Nat]
    /\ call \in Call

Init ==
    /\ LifeInit
    /\ fd = "closed" /\ gdrdrv_version = 0
    /\ memh = [mh \in Memhs |-> NoMemh]
    /\ counters = [type \in Types |-> 0]
    /\ call = NoCall

Idle     == call.pc = "idle"
Ready    == Idle /\ fd = "open"
At(pc)   == call.pc = pc
Goto(pc) == call' = [call EXCEPT !.pc = pc]

gdr_is_mapped(type) == type # "NONE"

Matches(mh) == {b \in Bufs : buf[b].pinned /\ buf[b].handle = memh[mh].handle}

\* The last region on the driver's list, which has the smallest handle.
LastPinned ==
    {b \in Bufs : /\ buf[b].pinned
                  /\ \A c \in Bufs : buf[c].pinned => buf[b].handle <= buf[c].handle}

\* The driver finds a buffer by the handle the library passes; a handle that is not on
\* its list finds the last region.  Callers that keep their handles meet this case only
\* when a handle was truncated.
Found(mh) == IF Matches(mh) # {} THEN Matches(mh) ELSE LastPinned

-----------------------------------------------------------------------------

\* A new file, once the mappings of the previous one are gone; another driver
\* version may have been loaded meanwhile.
gdr_open(minor) ==
    /\ fd = "closed"
    /\ Fresh
    /\ fd' = "open" /\ gdrdrv_version' = minor
    /\ UNCHANGED <<memh, counters, call>>

NewMemh(b, handle) == [NoMemh EXCEPT !.live = TRUE, !.buf = b, !.handle = handle]

\* The handle is stored in 32 bits.
gdr_pin_buffer(mh, b, n, ram) ==
    /\ Ready /\ ~memh[mh].live
    /\ Pin(b, n, ram)
    /\ memh' = [memh EXCEPT ![mh] = NewMemh(b, next % HandleWord)]
    /\ UNCHANGED <<fd, gdrdrv_version, counters, call>>

\* Mutant: the handle stays on the list.
UnpinnedMutant(mh) ==
    /\ IF Found(mh) = {} THEN UNCHANGED life ELSE \E b \in Found(mh) : Unpin(b)
    /\ UNCHANGED <<memh, counters, call>>

\* Whatever the driver answers, the handle is freed; a mapped one too.
Unpinned(mh) ==
    /\ IF Found(mh) = {} THEN UNCHANGED life ELSE \E b \in Found(mh) : Unpin(b)
    /\ memh' = [memh EXCEPT ![mh] = NoMemh]
    /\ UNCHANGED <<counters, call>>

gdr_unpin_buffer(mh) ==
    /\ Ready /\ memh[mh].live
    /\ Unpinned(mh)
    /\ UNCHANGED <<fd, gdrdrv_version>>

-----------------------------------------------------------------------------
(* gdr_map_v2                                                              *)

\* A handle that is mapped is refused; drivers from 2.5 on are asked for the type.
MapStart(mh, flags) ==
    /\ Ready /\ memh[mh].live
    /\ ~gdr_is_mapped(memh[mh].mapping_type)
    /\ \A type \in Types : counters[type] < MaxMappings
    /\ IF gdrdrv_version >= 5 THEN \E b \in Found(mh) : Request(b, flags) ELSE UNCHANGED life
    /\ call' = [pc |-> "mmap", mh |-> mh, v |-> None, flags |-> flags]
    /\ UNCHANGED <<fd, gdrdrv_version, memh, counters>>

MapMmap(v) ==
    /\ At("mmap")
    /\ \E b \in Found(call.mh) : Map(b, v)
    /\ call' = [call EXCEPT !.pc = "info", !.v = v]
    /\ UNCHANGED <<fd, gdrdrv_version, memh, counters>>

\* mmap fails: revoked in the meantime, too large, or no memory.
MapFails ==
    /\ At("mmap")
    /\ call' = NoCall
    /\ UNCHANGED <<life, fd, gdrdrv_version, memh, counters>>

\* Mutant: the WC bit of an old driver is ignored.
InfoTypeMutant(type) ==
    IF gdrdrv_version >= 4 \/ type = "NONE" THEN type ELSE "CACHING"

\* gdr_get_info_v2.  Drivers before 2.4 report two bits: mapped, and mapped as WC.
InfoType(type) ==
    IF gdrdrv_version >= 4 \/ type \in {"NONE", "WC"} THEN type ELSE "CACHING"

Reported == {InfoType(buf[b].type) : b \in Found(call.mh)}

\* Mutant: the type that was asked for is not compared with the type that came.
FulfilsMutant(type) == gdr_is_mapped(type)

\* The mapping is there, and of the type that was asked for, if one was.
Fulfils(type) == gdr_is_mapped(type) /\ call.flags \in {"NONE", type}

\* Mutant: the counter is not incremented.
MapDoneMutant(type) ==
    /\ At("info")
    /\ type \in Reported /\ Fulfils(type)
    /\ memh' = [memh EXCEPT ![call.mh].mapping_type = type, ![call.mh].va = call.v,
                            ![call.mh].flags = call.flags]
    /\ call' = NoCall
    /\ UNCHANGED <<life, fd, gdrdrv_version, counters>>

MapDone(type) ==
    /\ At("info")
    /\ type \in Reported /\ Fulfils(type)
    /\ memh' = [memh EXCEPT ![call.mh].mapping_type = type, ![call.mh].va = call.v,
                            ![call.mh].flags = call.flags]
    /\ counters' = [counters EXCEPT ![type] = @ + 1]
    /\ call' = NoCall
    /\ UNCHANGED <<life, fd, gdrdrv_version>>

\* Mutant: the mapping is not taken back.
MapRejectsMutant ==
    /\ At("info")
    /\ ~\E type \in Reported : Fulfils(type)
    /\ call' = NoCall
    /\ UNCHANGED <<life, fd, gdrdrv_version, memh, counters>>

\* Revoked right after mmap, or another type than asked for: munmap.
MapRejects ==
    /\ At("info")
    /\ ~\E type \in Reported : Fulfils(type)
    /\ Goto("undo")
    /\ UNCHANGED <<life, fd, gdrdrv_version, memh, counters>>

MapUndo ==
    /\ At("undo")
    /\ Unmap(call.v)
    /\ Goto("undo_close")
    /\ UNCHANGED <<fd, gdrdrv_version, memh, counters>>

MapUndoClose ==
    /\ At("undo_close")
    /\ Close(call.v)
    /\ call' = NoCall
    /\ UNCHANGED <<fd, gdrdrv_version, memh, counters>>

-----------------------------------------------------------------------------
(* gdr_unmap                                                               *)

UnmapStart(mh) ==
    /\ Ready /\ memh[mh].live
    /\ gdr_is_mapped(memh[mh].mapping_type)
    /\ Unmap(memh[mh].va)
    /\ call' = [NoCall EXCEPT !.pc = "unmap_close", !.mh = mh]
    /\ UNCHANGED <<fd, gdrdrv_version, memh, counters>>

UnmapDone ==
    LET mh == call.mh IN
    /\ At("unmap_close")
    /\ Close(memh[mh].va)
    /\ counters' = [counters EXCEPT ![memh[mh].mapping_type] = @ - 1]
    /\ memh' = [memh EXCEPT ![mh].mapping_type = "NONE", ![mh].va = None]
    /\ call' = NoCall
    /\ UNCHANGED <<fd, gdrdrv_version>>

-----------------------------------------------------------------------------
(* gdr_close: every handle is unpinned, mapped or not; an error ends it.   *)

CloseStart ==
    /\ Ready
    /\ fd' = "closing"
    /\ UNCHANGED <<life, gdrdrv_version, memh, counters, call>>

CloseUnpin(mh) ==
    /\ fd = "closing" /\ memh[mh].live
    /\ fd' = IF Found(mh) = {} THEN "open" ELSE "closing"
    /\ Unpinned(mh)
    /\ UNCHANGED gdrdrv_version

CloseDone ==
    /\ fd = "closing" /\ \A mh \in Memhs : ~memh[mh].live
    /\ fd' = "closed"
    /\ UNCHANGED <<life, gdrdrv_version, memh, counters, call>>

-----------------------------------------------------------------------------
(* What the copies look at to choose their fence.                          *)

\* Mutant: mixed from three types on.
MixMutant == Cardinality({type \in Types : counters[type] # 0}) > 2

gdr_has_mix_mapping == Cardinality({type \in Types : counters[type] # 0}) > 1

-----------------------------------------------------------------------------
(* What happens outside the library.                                       *)

\* The GPU memory is freed.
FreeMemory(b) == Revoke(b) /\ UNCHANGED lib

\* The process unmaps what gdr_close left it, at the latest when it exits.
LateMunmap(v) ==
    /\ fd = "closed"
    /\ Close(v)
    /\ UNCHANGED lib

\* Buffers unpinned while mapped leave mappings behind that the caller unmaps.
OrphanMunmap(v) ==
    /\ Ready /\ map[v].of = None
    /\ \A mh \in Memhs : memh[mh].va # v
    /\ Close(v)
    /\ UNCHANGED lib

Next ==
    \/ CloseStart \/ CloseDone \/ \E minor \in DriverMinors : gdr_open(minor)
    \/ \E mh \in Memhs :
         \/ \E b \in Bufs, n \in Sizes, ram \in RamPages : gdr_pin_buffer(mh, b, n, ram)
         \/ gdr_unpin_buffer(mh) \/ CloseUnpin(mh) \/ UnmapStart(mh)
         \/ \E flags \in Types : MapStart(mh, flags)
    \/ MapFails \/ MapRejects \/ MapUndo \/ MapUndoClose \/ UnmapDone
    \/ \E type \in Types : MapDone(type)
    \/ \E v \in VMAs : MapMmap(v) \/ LateMunmap(v) \/ OrphanMunmap(v)
    \/ \E b \in Bufs : FreeMemory(b)

Spec == Init /\ [][Next]_vars

-----------------------------------------------------------------------------
(* Properties.                                                             *)

\* The caller can copy through mh: it is mapped and its pages are in reach.
Usable(mh) == memh[mh].live /\ gdr_is_mapped(memh[mh].mapping_type) /\ map[memh[mh].va].live

\* The 32-bit handle the library keeps finds the buffer that was pinned for it, and
\* no other, so unpin, map and get_info act on the caller's buffer.
HandleFindsOwnBuffer == \A mh \in Memhs : memh[mh].live => Found(mh) = {memh[mh].buf}

\* What the library believes of a mapping is what the driver has: a handle it takes
\* for mapped has its VMA, on the caller's buffer, and until the buffer is revoked
\* the VMA reaches its pages with the type that the library takes it for.
BeliefMatchesDriver ==
    \A mh \in Memhs :
        Idle /\ memh[mh].live /\ gdr_is_mapped(memh[mh].mapping_type) =>
            /\ map[memh[mh].va].of = memh[mh].buf
            /\ \/ buf[memh[mh].buf].revoked
               \/ map[memh[mh].va].live /\ buf[memh[mh].buf].type = memh[mh].mapping_type

\* gdr_map_v2 with a type either fails or gives that type, with every driver
\* version; a revoked buffer keeps its record until it is unmapped.
RequestHonoured ==
    \A mh \in Memhs :
        Usable(mh) /\ memh[mh].flags # "NONE" => buf[memh[mh].buf].type = memh[mh].flags

\* A gdr_map that fails leaves no VMA behind: between calls every VMA of a pinned
\* buffer is the one of a handle that the library takes for mapped.
NoLeftoverMapping ==
    \A v \in VMAs : Ready /\ map[v].of # None =>
        \E mh \in Memhs : /\ memh[mh].live /\ memh[mh].va = v
                          /\ gdr_is_mapped(memh[mh].mapping_type)

\* While the caller has mappings of two types in reach, copies know of it and end
\* with a full fence (Copies!FencedAtReturn), also after handles were unpinned while
\* mapped and files closed and opened.
MixIsDetected ==
    \A mh, mk \in Memhs :
        Usable(mh) /\ Usable(mk) /\ buf[memh[mh].buf].type # buf[memh[mk].buf].type =>
            gdr_has_mix_mapping

=============================================================================
