------------------------ MODULE SandboxConfiguration ------------------------
(***************************************************************************)
(* The sizes a user may ask for, and the ones that SandboxMemoryLayout     *)
(* gets to see.  Sizes are in bytes.  The three time limits, which are     *)
(* clamped in the same way, are left out: nothing here measures time.      *)
(***************************************************************************)
EXTENDS Integers, TLC

MinimumSize ==
    [inputData |-> 8192, outputData |-> 8192, hostFunctionDefinitions |-> 4096,
     hostException |-> 16384, guestError |-> 128, panicContext |-> 1024, kernelStack |-> 4096]

DefaultSize ==
    [inputData |-> 16384, outputData |-> 16384, hostFunctionDefinitions |-> 4096,
     hostException |-> 16384, guestError |-> 256, panicContext |-> 1024, kernelStack |-> 4096]

\* No request is refused: one below the minimum is raised to it.
Admitted(what, size) == IF size < MinimumSize[what] THEN MinimumSize[what] ELSE size

\* An override of 0 is none.
new(sizes, stack_override, heap_override) ==
    [what \in DOMAIN MinimumSize |-> Admitted(what, sizes[what])]
        @@ [stack |-> stack_override, heap |-> heap_override]

default_configuration == new(DefaultSize, 0, 0)

\* set_input_data_size and the other setters.
set(cfg, what, size) ==
    [cfg EXCEPT ![what] = IF what \in DOMAIN MinimumSize THEN Admitted(what, size) ELSE size]

get_stack_size(cfg, exe) == IF cfg.stack > 0 THEN cfg.stack ELSE exe.stack
get_heap_size(cfg, exe) == IF cfg.heap > 0 THEN cfg.heap ELSE exe.heap

\* load_guest_binary_common: the sizes for a layout.
LayoutSizes(cfg, exe) ==
    [cfg EXCEPT !.stack = get_stack_size(cfg, exe), !.heap = get_heap_size(cfg, exe)]
        @@ [code |-> exe.code]
=============================================================================
