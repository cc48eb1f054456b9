------------------------------ MODULE MCGdrDrv ------------------------------
(* GdrDrv on small instances: symmetry of the model values, and a view. *)
EXTENDS GdrDrv, TLC

Symmetry == Permutations(Threads) \cup Permutations(MRs) \cup Permutations(VMAs)

\* Where a thread still needs the handle of its call: for the lookup, and for
\* giving it to the caller.
HandlePCs == {"unpin_lock", "read_lock", "req_lock", "mmap_lock", "close_lock", "pin_copy"}

ThreadView(t) ==
    [th[t] EXCEPT !.h = IF th[t].pc \in HandlePCs THEN @ ELSE 0,
                  !.mr = IF Uses(t) THEN @ ELSE None]

\* The handle and the mapping type are read of regions on the list.
RegionView(m) ==
    [mr[m] EXCEPT !.vma = None,
                  !.handle = IF m \in mr_list THEN @ ELSE 0,
                  !.cpu_mapping_type = IF m \in mr_list THEN @ ELSE "NONE"]

\* What decides the next step if callers take every liberty and do not use gdr_close
\* (they may make the same calls themselves): nothing reads the page table entries,
\* the pointers between regions and VMAs only say which entries to remove, and no
\* rule of the callers looks at the handles they hold or use.  For runs whose
\* properties do not look at these.
ControlView ==
    <<info, info_lock, [m \in MRs |-> RegionView(m)], writer, readers, refcount, nv,
      mmap_lock, [v \in VMAs |-> [vma[v] EXCEPT !.mr = None, !.pte = {}]],
      [t \in Threads |-> ThreadView(t)]>>
=============================================================================
