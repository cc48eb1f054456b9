---------------------------- MODULE BufferLife ----------------------------
(***************************************************************************)
(* What gdrdrv promises to one open file: the life of a pinned buffer.     *)
(*                                                                         *)
(* A buffer is pinned under a handle that is a fresh range of page         *)
(* offsets, mapped into at most one VMA at a time with a type the platform *)
(* supports, and revoked when its GPU memory is freed.  Every operation    *)
(* takes effect at one instant, and no VMA reaches a buffer that is        *)
(* revoked or unpinned.  There are no locks, no threads and no lists here. *)
(***************************************************************************)
EXTENDS Integers

CONSTANTS Bufs, VMAs, None, Sizes, HandleSpace, Persistent,
          CouldCache, MustUseDevice, RamPages

ASSUME NoneAssumption == None \notin Bufs \cup VMAs
ASSUME SpaceAssumption == HandleSpace \in Nat /\ Sizes \subseteq Nat
ASSUME RamAssumption == RamPages \subseteq BOOLEAN

VARIABLES
    buf,    \* the buffers
    map,    \* per VMA: whether it exists, its buffer if that is pinned, and
            \* whether it reaches the pages
    next    \* the first page offset that no handle has taken

life == <<buf, map, next>>

Types == {"NONE", "WC", "CACHING", "DEVICE"}

Gone   == [pinned |-> FALSE, handle |-> 0, size |-> 0, revoked |-> FALSE,
           ram |-> FALSE, type |-> "NONE", req |-> "NONE"]
Unused == [used |-> FALSE, of |-> None, live |-> FALSE]
Orphan == [used |-> TRUE, of |-> None, live |-> FALSE]

Buffer  == [pinned: BOOLEAN, handle: Nat, size: Sizes \cup {0}, revoked: BOOLEAN,
            ram: BOOLEAN, type: Types, req: Types]
Mapping == [used: BOOLEAN, of: Bufs \cup {None}, live: BOOLEAN]

LifeTypeOK ==
    /\ buf \in [Bufs -> Buffer]
    /\ map \in [VMAs -> Mapping]
    /\ next \in Nat

LifeInit ==
    /\ buf = [b \in Bufs |-> Gone]
    /\ map = [v \in VMAs |-> Unused]
    /\ next = 0

-----------------------------------------------------------------------------

CanCache(b) == CouldCache /\ buf[b].ram /\ ~buf[b].revoked

Allowed(b, type) ==
    \/ type = "NONE"
    \/ type = "CACHING" /\ CanCache(b)
    \/ type = "WC" /\ ~MustUseDevice
    \/ type = "DEVICE" /\ MustUseDevice

DefaultType(b) == IF CanCache(b) THEN "CACHING" ELSE IF MustUseDevice THEN "DEVICE" ELSE "WC"

-----------------------------------------------------------------------------

\* A fresh file: handles start again at 0.
Fresh ==
    /\ \A b \in Bufs : ~buf[b].pinned
    /\ \A v \in VMAs : map[v] = Unused
    /\ next' = 0
    /\ UNCHANGED <<buf, map>>

\* ram: whether the pages of the buffer are memory that the CPU could cache.
Pin(b, n, ram) ==
    /\ ~buf[b].pinned
    /\ next < HandleSpace
    /\ buf' = [buf EXCEPT ![b] = [Gone EXCEPT !.pinned = TRUE, !.handle = next,
                                           !.size = n, !.ram = ram]]
    /\ next' = next + (IF n = 0 THEN 1 ELSE n)
    /\ UNCHANGED map

Unpin(b) ==
    /\ buf[b].pinned
    /\ buf' = [buf EXCEPT ![b] = Gone]
    /\ map' = [v \in VMAs |-> IF map[v].of = b THEN Orphan ELSE map[v]]
    /\ UNCHANGED next

\* Ask for the type of the next mapping.
Request(b, type) ==
    /\ buf[b].pinned /\ buf[b].type = "NONE" /\ Allowed(b, type)
    /\ buf' = [buf EXCEPT ![b].req = type]
    /\ UNCHANGED <<map, next>>

\* The type a new mapping of b gets.
NewType(b) == IF buf[b].req # "NONE" THEN buf[b].req ELSE DefaultType(b)

Map(b, v) ==
    /\ buf[b].pinned /\ ~buf[b].revoked /\ buf[b].type = "NONE"
    /\ ~map[v].used
    /\ buf' = [buf EXCEPT ![b].type = NewType(b)]
    /\ map' = [map EXCEPT ![v] = [used |-> TRUE, of |-> b, live |-> TRUE]]
    /\ UNCHANGED next

\* munmap: first the pages are out of reach, then the buffer may be mapped again.
Unmap(v) ==
    /\ map[v].used
    /\ map' = [map EXCEPT ![v].live = FALSE]
    /\ UNCHANGED <<buf, next>>

Close(v) ==
    /\ map[v].used /\ ~map[v].live
    /\ buf' = [b \in Bufs |-> IF b = map[v].of THEN [buf[b] EXCEPT !.type = "NONE"] ELSE buf[b]]
    /\ map' = [map EXCEPT ![v] = Unused]
    /\ UNCHANGED next

\* Mutant: the VMA keeps the pages in reach.
RevokeMutant(b) ==
    /\ ~Persistent
    /\ buf[b].pinned /\ ~buf[b].revoked
    /\ buf' = [buf EXCEPT ![b].revoked = TRUE, ![b].type = "NONE"]
    /\ UNCHANGED <<map, next>>

\* The GPU memory of b is freed.
Revoke(b) ==
    /\ ~Persistent
    /\ buf[b].pinned /\ ~buf[b].revoked
    /\ buf' = [buf EXCEPT ![b].revoked = TRUE, ![b].type = "NONE"]
    /\ map' = [v \in VMAs |-> IF map[v].of = b THEN [map[v] EXCEPT !.live = FALSE] ELSE map[v]]
    /\ UNCHANGED next

LifeNext ==
    \/ Fresh
    \/ \E b \in Bufs :
         \/ \E n \in Sizes, ram \in RamPages : Pin(b, n, ram)
         \/ Unpin(b) \/ Revoke(b)
         \/ \E type \in Types : Request(b, type)
         \/ \E v \in VMAs : Map(b, v)
    \/ \E v \in VMAs : Unmap(v) \/ Close(v)

LifeSpec == LifeInit /\ [][LifeNext]_life

-----------------------------------------------------------------------------

\* A VMA that reaches pages belongs to a buffer that is pinned, not revoked and
\* counts as mapped, and no buffer has two VMAs.
OneLiveMapping ==
    /\ \A v \in VMAs : map[v].live => /\ map[v].of # None
                                      /\ buf[map[v].of].pinned
                                      /\ ~buf[map[v].of].revoked
                                      /\ buf[map[v].of].type # "NONE"
    /\ \A v, w \in VMAs : v # w /\ map[v].of = map[w].of => map[v].of = None

=============================================================================
