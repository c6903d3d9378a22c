---------------------------- MODULE MCVirtualCpu ----------------------------
(* VirtualCpu on a guest routine with two calls of the host. *)
EXTENDS VirtualCpu

MCProgram == << "store", "out", "store", "out", "hlt" >>

\* The kinds of region SandboxMemoryLayout::get_memory_regions makes.
MCFlags ==
    [code   |-> {"read", "write", "execute"},
     heap   |-> {"read", "write"},
     guard  |-> {"read", "stack_guard"},
     hostfn |-> {"read"}]
=============================================================================
