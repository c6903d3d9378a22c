---------------------------- MODULE SandboxCalls ----------------------------
(***************************************************************************)
(* The life of one sandbox and the guest calls made on it, from            *)
(* UninitializedSandbox::evolve to the drop of the last handle: the two    *)
(* stacks of messages in shared memory (IoStack has their bytes), the      *)
(* guest error buffer, the stack cookie, the stack of memory snapshots,    *)
(* the stack pointer of the vCPU, the guest library's dispatcher, and the  *)
(* exits (host function calls, logs, aborts, faults) of the guest.         *)
(*                                                                         *)
(* The host thread waits for the handler thread while the guest runs, so   *)
(* exactly one of them moves, until a timeout.  The races of a timeout are *)
(* the subject of HypervisorHandler; here a timeout is one step: Cancel    *)
(* stops the guest between any two of its instructions, and with Hung and  *)
(* FinishedWhileCancelling the owner returns without the handler's reply   *)
(* and the guest goes on by itself.  The calls that follow on such a       *)
(* sandbox ("adrift") are followed in HypervisorHandler.                   *)
(***************************************************************************)
EXTENDS Naturals, Sequences

CONSTANTS
    MaxCalls,      \* guest calls in a behaviour; call 1 is hyperlight_main
    MaxExits,      \* messages the guest sends to the host in a behaviour
    InputCap,      \* messages the input buffer holds
    OutputCap,     \* messages the output buffer holds
    StackFrames,   \* interrupted calls that fit on the guest's stack
    MaxSnapshots   \* bound on the nesting of evolve

\* Every buffer holds a message, and the stack the frames of one call.
ASSUME CallsAssumption ==
    /\ {MaxCalls, MaxExits, MaxSnapshots} \subseteq Nat \ {0}
    /\ {InputCap, OutputCap, StackFrames} \subseteq Nat \ {0}

VARIABLES
    life,       \* which type the owner of the sandbox holds
    mem,        \* the shared memory
    snapshots,  \* SandboxMemoryManager.snapshots
    rsp,        \* frames of interrupted calls below the vCPU's stack pointer
    at,         \* where the call in progress is; "idle" when there is none
    port,       \* the port of the OUT instruction the guest executes
    call,       \* calls made so far: the number of the last one
    exits,      \* messages sent by the guest so far
    asked,      \* the host call whose reply the guest is about to read
    popped,     \* the last message a pop returned
    outcome     \* what the last call returned to the owner

vars == <<life, mem, snapshots, rsp, at, port, call, exits, asked, popped,
          outcome>>
owner == <<life, snapshots, rsp, call, outcome>>
-----------------------------------------------------------------------------
(* Messages and memory *)

\* The flatbuffers that travel on the two stacks, each with the number of the
\* guest call or of the guest's exit it belongs to; a result is garbled when
\* the host cannot decode it.
MsgKinds == {"call", "ret", "result", "garbled", "host", "log"}
Msg == [kind : MsgKinds, id : Nat]

Memory == [input : Seq(Msg), output : Seq(Msg),
           error : Nat,       \* the guest error buffer: 0 or the failed call
           cookie : BOOLEAN,  \* the stack guard still holds the cookie
           data : Nat]        \* statics and heap: the last call to run

Lives == {"uninit", "toMulti", "toSingle", "multi", "context", "evolving",
          "single", "singleCall", "singleFunc", "adrift", "gone"}

\* The handles of a multi-use sandbox.
Reusable == {"multi", "context", "evolving"}

\* The handles on which a guest function can be called.
Callable == {"multi", "context", "evolving", "single", "singleFunc"}

Outcomes == [call : Nat, kind : {"none", "ok", "guestError", "hostError",
                                 "cancelled", "notRestored"}, of : Nat]

Top(s) == s[Len(s)]
Pop(s) == SubSeq(s, 1, Len(s) - 1)
Holds(s, kind) == s # << >> /\ Top(s).kind = kind

\* The memory m with s as its input stack, and with s as its output stack.
WithInput(m, s) ==
    [input |-> s, output |-> m.output, error |-> m.error,
     cookie |-> m.cookie, data |-> m.data]
WithOutput(m, s) ==
    [input |-> m.input, output |-> s, error |-> m.error,
     cookie |-> m.cookie, data |-> m.data]

PushInput(m, k, i) == WithInput(m, Append(m.input, [kind |-> k, id |-> i]))
PushOutput(m, k, i) == WithOutput(m, Append(m.output, [kind |-> k, id |-> i]))
PopInput(m) == WithInput(m, Pop(m.input))
PopOutput(m) == WithOutput(m, Pop(m.output))

Init ==
    /\ life = "uninit"
    /\ mem = [input |-> << >>, output |-> << >>, error |-> 0,
              cookie |-> TRUE, data |-> 0]
    /\ snapshots = << >>
    /\ rsp = 0
    /\ at = "idle"
    /\ port = "CallFunction"
    /\ call = 0
    /\ exits = 0
    /\ asked = 0
    /\ popped = [kind |-> "call", id |-> 0]
    /\ outcome = [call |-> 0, kind |-> "none", of |-> 0]
-----------------------------------------------------------------------------
(* The owner: evolve, contexts, devolve *)

\* UninitializedSandbox::evolve: evolve_impl builds the host's and the
\* guest's view of the memory and hv_init makes the handler run the entry
\* point, which is call 1.
EvolveUninitialized(kind) ==
    /\ life = "uninit" /\ at = "idle"
    /\ life' = kind
    /\ call' = 1
    /\ at' = "guest"
    /\ UNCHANGED <<mem, snapshots, rsp, port, exits, asked, popped, outcome>>

\* MultiUseSandbox::new_call_context.
NewCallContext ==
    /\ life = "multi" /\ at = "idle"
    /\ life' = "context"
    /\ UNCHANGED <<mem, snapshots, rsp, at, port, call, exits, asked, popped,
                   outcome>>

\* SandboxMemoryManager::restore_state_from_last_snapshot, with a snapshot.
RestoreState ==
    /\ snapshots # << >>
    /\ mem' = Top(snapshots)

\* Mutant: a finished context gives the sandbox back as it is.
FinishNoReset ==
    /\ life = "context" /\ at = "idle"
    /\ life' = "multi"
    /\ UNCHANGED <<mem, snapshots, rsp, at, port, call, exits, asked, popped,
                   outcome>>

\* MultiUseGuestCallContext::finish restores and gives the sandbox back.
Finish ==
    /\ life = "context" /\ at = "idle"
    /\ RestoreState
    /\ life' = "multi"
    /\ UNCHANGED <<snapshots, rsp, at, port, call, exits, asked, popped,
                   outcome>>

\* MultiUseSandbox::evolve opens a context and runs the owner's callback ...
EvolveMulti ==
    /\ life = "multi" /\ at = "idle"
    /\ Len(snapshots) < MaxSnapshots
    /\ life' = "evolving"
    /\ UNCHANGED <<mem, snapshots, rsp, at, port, call, exits, asked, popped,
                   outcome>>

\* ... which may fail, and then the sandbox is dropped with the context, or
\* return Ok whatever its calls returned: finish_no_reset and push_state.
EvolveReturns(ok) ==
    /\ life = "evolving" /\ at = "idle"
    /\ life' = IF ok THEN "multi" ELSE "gone"
    /\ snapshots' = IF ok THEN Append(snapshots, mem) ELSE snapshots
    /\ UNCHANGED <<mem, rsp, at, port, call, exits, asked, popped, outcome>>

\* MultiUseSandbox::devolve: pop_and_restore_state_from_snapshot pops the last
\* snapshot and restores from the one below. Without one it fails after the
\* pop, and devolve, which took the sandbox by value, drops it.
Devolve ==
    /\ life = "multi" /\ at = "idle"
    /\ snapshots' = Pop(snapshots)
    /\ IF snapshots' = << >>
       THEN life' = "gone" /\ UNCHANGED mem
       ELSE mem' = Top(snapshots') /\ UNCHANGED life
    /\ UNCHANGED <<rsp, at, port, call, exits, asked, popped, outcome>>

\* SingleUseGuestCallContext::call_from_func: the callback may call often,
\* and the sandbox is dropped when it returns.
CallFromFunc ==
    /\ life = "single" /\ at = "idle"
    /\ life' = "singleFunc"
    /\ UNCHANGED <<mem, snapshots, rsp, at, port, call, exits, asked, popped,
                   outcome>>

\* The owner drops whatever handle it holds.
DropSandbox ==
    /\ life \in Callable /\ at = "idle"
    /\ life' = "gone"
    /\ UNCHANGED <<mem, snapshots, rsp, at, port, call, exits, asked, popped,
                   outcome>>
-----------------------------------------------------------------------------
(* call_function_on_guest, first half *)

\* What a call does to the handle: the call of a single-use sandbox consumes it.
Consumed == IF life = "single" THEN "singleCall" ELSE life

\* How a call that fails before the guest runs leaves the handle.
Released(l) == IF l = "singleCall" THEN "gone" ELSE l

\* write_guest_function_call pushes the call and the handler is told to
\* dispatch it; when the input buffer has no room for the call, because of its
\* size or of what is already there, it fails at once.
CallFunctionOnGuest(fits) ==
    /\ life \in Callable /\ at = "idle"
    /\ call < MaxCalls
    /\ call' = call + 1
    /\ IF fits /\ Len(mem.input) < InputCap
       THEN /\ mem' = PushInput(mem, "call", call')
            /\ life' = Consumed
            /\ at' = "dispatch"
            /\ UNCHANGED outcome
       ELSE /\ life' = Released(Consumed)
            /\ outcome' = [call |-> call', kind |-> "hostError", of |-> 0]
            /\ UNCHANGED <<mem, at>>
    /\ UNCHANGED <<snapshots, rsp, port, exits, asked, popped>>
-----------------------------------------------------------------------------
(* The guest: dispatcher, library and application *)

\* Mutant: the error buffer is not cleared before the call.
DispatchKeepsError ==
    /\ at = "dispatch" /\ rsp < StackFrames
    /\ Holds(mem.input, "call")
    /\ popped' = Top(mem.input)
    /\ mem' = [input |-> Pop(mem.input), output |-> mem.output,
                error |-> mem.error, cookie |-> mem.cookie, data |-> call]
    /\ at' = "guest"
    /\ UNCHANGED <<owner, port, exits, asked>>

\* dispatch_call_from_host sets the registers and internal_dispatch_function
\* clears the error buffer, pops the call and runs it. The guest function
\* leaves its mark in the guest's memory.
Dispatch ==
    /\ at = "dispatch" /\ rsp < StackFrames
    /\ Holds(mem.input, "call")
    /\ popped' = Top(mem.input)
    /\ mem' = [input |-> Pop(mem.input), output |-> mem.output,
                error |-> 0, cookie |-> mem.cookie, data |-> call]
    /\ at' = "guest"
    /\ UNCHANGED <<owner, port, exits, asked>>

\* The frames of interrupted calls have used the stack up: the stack probe of
\* the dispatcher aborts.
StackExhausted ==
    /\ at = "dispatch" /\ rsp = StackFrames
    /\ at' = "outb" /\ port' = "Abort"
    /\ UNCHANGED <<owner, mem, exits, asked, popped>>

\* The guest pushes a message for the host and executes OUT. A message that
\* does not fit is an error of the guest function (ReturnErr, or Abort where
\* the library expects the push to work).
Send(kind, p) ==
    /\ at = "guest" /\ exits < MaxExits
    /\ Len(mem.output) < OutputCap
    /\ exits' = exits + 1
    /\ mem' = PushOutput(mem, kind, exits')
    /\ at' = "outb" /\ port' = p
    /\ UNCHANGED <<owner, popped>>

\* call_host_function, for a caller that reads the reply next, and for
\* _putchar, which leaves the reply of HostPrint on the input stack.
CallHostFunction(reads) ==
    /\ Send("host", "CallFunction")
    /\ asked' = IF reads THEN exits' ELSE 0

LogMessage ==
    /\ Send("log", "Log")
    /\ UNCHANGED asked

\* A panic, or abort_with_code: OUT to the abort port, with nothing pushed.
Abort ==
    /\ at = "guest"
    /\ at' = "outb" /\ port' = "Abort"
    /\ UNCHANGED <<owner, mem, exits, asked, popped>>

\* get_host_value_return_as_*: the guest pops the reply and goes on, with the
\* value or with an error when the value has another type (ReturnErr).
ReadReply ==
    /\ at = "reply"
    /\ Holds(mem.input, "ret")
    /\ popped' = Top(mem.input)
    /\ mem' = PopInput(mem)
    /\ at' = "guest"
    /\ UNCHANGED <<owner, port, exits, asked>>

\* The guest's stack grows over the cookie.
OverwriteCookie ==
    /\ at = "guest" /\ mem.cookie
    /\ mem' = [input |-> mem.input, output |-> mem.output,
                error |-> mem.error, cookie |-> FALSE, data |-> mem.data]
    /\ UNCHANGED <<owner, at, port, exits, asked, popped>>

\* The guest function returns bytes, which are pushed as they are, whether or
\* not they are a result the host can decode; when they do not fit,
\* dispatch_function drops the error and halts all the same. The entry point
\* pushes nothing.
ReturnOk(fits, kind) ==
    /\ at = "guest"
    /\ at' = "halted"
    /\ mem' = IF fits /\ call > 1 /\ Len(mem.output) < OutputCap
              THEN PushOutput(mem, kind, call)
              ELSE mem
    /\ UNCHANGED <<owner, port, exits, asked, popped>>

\* The guest function returns an error, or the application calls setError:
\* the error buffer is written and the guest halts.
ReturnErr ==
    /\ at = "guest"
    /\ at' = "halted"
    /\ mem' = [input |-> mem.input, output |-> mem.output,
                error |-> call, cookie |-> mem.cookie, data |-> mem.data]
    /\ UNCHANGED <<owner, port, exits, asked, popped>>
-----------------------------------------------------------------------------
(* The exits of the vCPU *)

\* Mutant: a result that does not fit is dropped and the guest goes on.
OutbDropsResult(fails) ==
    /\ at = "outb" /\ port = "CallFunction"
    /\ Holds(mem.output, "host")
    /\ popped' = Top(mem.output)
    /\ mem' = IF Len(mem.input) >= InputCap THEN PopOutput(mem)
              ELSE PushInput(PopOutput(mem), "ret", popped'.id)
    /\ at' = IF fails THEN "failed"
             ELSE IF asked = popped'.id THEN "reply" ELSE "guest"
    /\ UNCHANGED <<owner, port, exits, asked>>

\* handle_outb_impl for a host function call: pop the call, run the function,
\* push its result. A function that fails, or a result that does not fit,
\* ends the run of the vCPU with the call gone from the stack.
OutbCallFunction(fails) ==
    /\ at = "outb" /\ port = "CallFunction"
    /\ Holds(mem.output, "host")
    /\ popped' = Top(mem.output)
    /\ IF fails \/ Len(mem.input) >= InputCap
       THEN /\ mem' = PopOutput(mem)
            /\ at' = "failed"
       ELSE /\ mem' = PushInput(PopOutput(mem), "ret", popped'.id)
            /\ at' = IF asked = popped'.id THEN "reply" ELSE "guest"
    /\ UNCHANGED <<owner, port, exits, asked>>

\* outb_log pops the record and hands it to the host's logger.
OutbLog ==
    /\ at = "outb" /\ port = "Log"
    /\ Holds(mem.output, "log")
    /\ popped' = Top(mem.output)
    /\ mem' = PopOutput(mem)
    /\ at' = "guest"
    /\ UNCHANGED <<owner, port, exits, asked>>

\* The abort port always ends the run with an error.
OutbAbort ==
    /\ at = "outb" /\ port = "Abort"
    /\ at' = "failed"
    /\ UNCHANGED <<owner, mem, port, exits, asked, popped>>

\* An access outside the mapped memory or against its protection, or an exit
\* the driver does not know: VirtualCPU::run returns an error in every case
\* (which one depends on the cookie).
Fault ==
    /\ at \in {"guest", "reply"}
    /\ at' = "failed"
    /\ UNCHANGED <<owner, mem, port, exits, asked, popped>>
-----------------------------------------------------------------------------
(* The end of a call *)

\* call_function_on_guest returns, having received the handler's reply or not.
Returns(kind, of, inStep) ==
    /\ outcome' = [call |-> call, kind |-> kind, of |-> of]
    /\ life' = IF inStep THEN Released(life) ELSE "adrift"
    /\ at' = "idle"
    /\ UNCHANGED <<call, port, exits, asked>>

\* The frames the interrupted guest leaves below the stack pointer: the driver
\* resets RSP only after a run that ended with a halt.
Interrupted == IF rsp < StackFrames THEN rsp + 1 ELSE rsp

\* The entry point halted: evolve_impl makes the sandbox, and a multi-use one
\* starts with a snapshot of its memory. The guest's error buffer is not read.
Initialised ==
    /\ at = "halted" /\ life \in {"toMulti", "toSingle"}
    /\ life' = IF life = "toMulti" THEN "multi" ELSE "single"
    /\ snapshots' = IF life = "toMulti" THEN <<mem>> ELSE << >>
    /\ at' = "idle"
    /\ UNCHANGED <<mem, rsp, port, call, exits, asked, popped, outcome>>

\* The entry point failed or timed out: hv_init kills the handler thread and
\* evolve returns the error, having consumed the sandbox.
InitialiseFails ==
    /\ life \in {"toMulti", "toSingle"}
    /\ at \in {"guest", "reply", "outb", "halted", "failed"}
    /\ life' = "gone"
    /\ at' = "idle"
    /\ UNCHANGED <<mem, snapshots, rsp, port, call, exits, asked, popped,
                   outcome>>

\* The owner waits for the reply to a call.
Called == life \notin {"toMulti", "toSingle", "adrift"}

\* Mutant: the result is read and stays on the stack.
PeeksResult ==
    /\ at = "halted" /\ Called /\ mem.error = 0
    /\ Holds(mem.output, "result")
    /\ popped' = Top(mem.output)
    /\ IF life = "multi"
       THEN RestoreState
       ELSE UNCHANGED mem
    /\ Returns("ok", popped'.id, TRUE)
    /\ UNCHANGED <<snapshots, rsp>>

\* The second half of call_function_on_guest after a halt: the answer of
\* check_stack_guard is dropped, check_for_guest_error fails the call when the
\* guest wrote an error, else the result is popped. Only
\* call_guest_function_by_name of a multi-use sandbox restores the memory, and
\* only here.
ReturnsResult ==
    /\ at = "halted" /\ Called /\ mem.error = 0
    /\ Holds(mem.output, "result")
    /\ popped' = Top(mem.output)
    /\ IF life = "multi"
       THEN RestoreState
       ELSE mem' = PopOutput(mem)
    /\ Returns("ok", popped'.id, TRUE)
    /\ UNCHANGED <<snapshots, rsp>>

ReturnsGuestError ==
    /\ at = "halted" /\ Called /\ mem.error # 0
    /\ Returns("guestError", mem.error, TRUE)
    /\ UNCHANGED <<mem, snapshots, rsp, popped>>

\* No result on the stack, or something on top of it that cannot be decoded:
\* try_pop_buffer_into fails before it moves the stack pointer.
NoResult ==
    /\ at = "halted" /\ Called /\ mem.error = 0
    /\ ~ Holds(mem.output, "result")
    /\ Returns("hostError", 0, TRUE)
    /\ UNCHANGED <<mem, snapshots, rsp, popped>>

\* The run of the vCPU ended with an error, which the handler sends back.
RunFailed ==
    /\ at = "failed" /\ Called
    /\ rsp' = Interrupted
    /\ Returns("hostError", 0, TRUE)
    /\ UNCHANGED <<mem, snapshots, popped>>

\* A call that runs past max_execution_time is cancelled, at the latest between
\* the guest's last push and the exit of its HLT ("halted"):
\* terminate_hypervisor_handler_execution_and_reinitialise restores the last
\* snapshot and initialises the vCPU again, whose entry point halts at once.
\* A single-use sandbox has no snapshot: the restore fails, and neither the
\* memory nor the vCPU is put right. The wait for one of the two replies may
\* time out (inStep is false); while the handler still holds the lock of the
\* memory the restore fails, too.
Cancel(inStep) ==
    /\ at \in {"dispatch", "guest", "reply", "outb", "halted"} /\ Called
    /\ \/ RestoreState /\ rsp' = 0 /\ Returns("cancelled", 0, inStep)
       \/ /\ snapshots = << >> \/ ~inStep
          /\ rsp' = Interrupted /\ Returns("notRestored", 0, inStep)
          /\ UNCHANGED mem
    /\ UNCHANGED <<snapshots, popped>>

\* The guest does not react to the signals in time, because a host function
\* does not return or because the run just ended: the owner gets an error, and
\* the handler thread goes on with the call.
Hung ==
    /\ at # "idle" /\ Called
    /\ outcome' = [call |-> call, kind |-> "hostError", of |-> 0]
    /\ life' = "adrift"
    /\ UNCHANGED <<mem, snapshots, rsp, at, port, call, exits, asked, popped>>

\* The timeout finds running false: the run has ended, or has not begun. The
\* owner leaves the reply in the channel and reads error buffer and result.
FinishedWhileCancelling ==
    /\ at \in {"dispatch", "halted", "failed"} /\ Called
    /\ \/ /\ mem.error # 0
          /\ outcome' = [call |-> call, kind |-> "guestError", of |-> mem.error]
          /\ UNCHANGED <<mem, popped>>
       \/ /\ mem.error = 0 /\ Holds(mem.output, "result")
          /\ popped' = Top(mem.output)
          /\ outcome' = [call |-> call, kind |-> "ok", of |-> popped'.id]
          /\ IF life = "multi" THEN RestoreState ELSE mem' = PopOutput(mem)
       \/ /\ mem.error = 0 /\ ~ Holds(mem.output, "result")
          /\ outcome' = [call |-> call, kind |-> "hostError", of |-> 0]
          /\ UNCHANGED <<mem, popped>>
    /\ life' = "adrift"
    /\ at' = IF at = "dispatch" THEN at ELSE "idle"
    /\ rsp' = IF at = "failed" THEN Interrupted ELSE rsp
    /\ UNCHANGED <<snapshots, port, call, exits, asked>>

\* The handler's reply to a call that its owner gave up is left in the channel,
\* and what the guest pushed is left in memory.
ReplyUnread ==
    /\ at \in {"halted", "failed"} /\ life = "adrift"
    /\ at' = "idle"
    /\ rsp' = IF at = "failed" THEN Interrupted ELSE rsp
    /\ UNCHANGED <<life, mem, snapshots, port, call, exits, asked, popped, outcome>>
-----------------------------------------------------------------------------
OwnerNext ==
    \/ \E kind \in {"toMulti", "toSingle"} : EvolveUninitialized(kind)
    \/ NewCallContext \/ Finish
    \/ EvolveMulti \/ \E ok \in BOOLEAN : EvolveReturns(ok)
    \/ Devolve \/ CallFromFunc \/ DropSandbox
    \/ \E fits \in BOOLEAN : CallFunctionOnGuest(fits)

GuestNext ==
    \/ Dispatch \/ StackExhausted
    \/ \E reads \in BOOLEAN : CallHostFunction(reads)
    \/ LogMessage \/ Abort \/ ReadReply \/ OverwriteCookie
    \/ \E fits \in BOOLEAN, kind \in {"result", "garbled"} : ReturnOk(fits, kind)
    \/ ReturnErr

HostNext ==
    \/ \E fails \in BOOLEAN : OutbCallFunction(fails)
    \/ OutbLog \/ OutbAbort \/ Fault
    \/ Initialised \/ InitialiseFails
    \/ ReturnsResult \/ ReturnsGuestError \/ NoResult \/ RunFailed
    \/ \E inStep \in BOOLEAN : Cancel(inStep)
    \/ Hung \/ FinishedWhileCancelling \/ ReplyUnread

Next == OwnerNext \/ GuestNext \/ HostNext

Spec == Init /\ [][Next]_vars
-----------------------------------------------------------------------------
(* Properties *)

\* Every variable has its type.
TypeOK ==
    /\ life \in Lives
    /\ mem \in Memory
    /\ snapshots \in Seq(Memory)
    /\ rsp \in 0..StackFrames
    /\ at \in {"idle", "dispatch", "guest", "reply", "outb", "halted", "failed"}
    /\ port \in {"CallFunction", "Log", "Abort"}
    /\ call \in Nat /\ exits \in Nat /\ asked \in Nat
    /\ popped \in Msg
    /\ outcome \in Outcomes

\* Whatever earlier calls left on the two stacks, each reader finds on top the
\* message that is meant for it: the dispatcher the call just made, the guest
\* the reply to the host call it just made, the outb handler the call or the
\* log record just sent. (No step of the protocol is stuck on another's.)
StacksMatch ==
    /\ at = "dispatch" => Holds(mem.input, "call") /\ Top(mem.input).id = call
    /\ at = "reply" => Holds(mem.input, "ret") /\ Top(mem.input).id = asked
    /\ at = "outb" /\ port # "Abort" =>
          /\ Holds(mem.output, IF port = "Log" THEN "log" ELSE "host")
          /\ Top(mem.output).id = exits

\* No run of the guest was cut short without the memory being restored after it:
\* a sandbox with snapshots, or one whose guest's stack has no such frames.
Intact == snapshots # << >> \/ rsp = 0

\* A value that call_function_on_guest returns was produced by the guest in that
\* very call, not left in the output buffer by an earlier one, even where the
\* call timed out and its reply was given up; so was a guest error, where the
\* reply was received. (A call cancelled in a single-use sandbox may leave its
\* result there, and a later one of the same callback would take it.)
AnswerOfThisCall ==
    \/ outcome.kind = "ok" /\ Intact
    \/ outcome.kind = "guestError" /\ life # "adrift"
    => outcome.of = outcome.call

\* Nothing but results that the host could not decode.
Leftover(stack) == \A i \in 1..Len(stack) : stack[i].kind = "garbled"

\* Between two calls the output stack of a multi-use sandbox that never gave up
\* a reply holds no host call, no log record and no result of any call, however
\* the calls ended: only results that try_pop_buffer_into could not decode stay,
\* until the memory is restored.
OutputDrained == at = "idle" /\ life \in Reusable => Leftover(mem.output)

\* Between two calls a multi-use sandbox whose last call did not fail holds
\* the memory of its last snapshot, across contexts, cancelled calls, evolve
\* and devolve: what a guest left behind is not visible to the next owner.
CleanBetweenCalls ==
    life = "multi" /\ at = "idle"
        /\ outcome.kind \notin {"guestError", "hostError"}
    => mem = Top(snapshots)

\* The inductive strengthening of the properties above, for sandboxes that are
\* not adrift.
\*  - which handles have a snapshot, and which can have a call in progress;
\*  - the error buffer is clear while the guest runs and names this call after;
\*  - while intact, a result is on the output stack only between its push and
\*    the end of the call;
\*  - in a multi-use sandbox the output stack holds, besides leftovers, at most
\*    the message that is being handed over, and in a snapshot only leftovers.
OneShot == {"uninit", "toMulti", "toSingle", "single", "singleCall", "singleFunc"}

HandlesOK ==
    /\ life \in Reusable => snapshots # << >>
    /\ life \in OneShot => snapshots = << >>
    /\ life \in {"uninit", "single", "gone"} => at = "idle"
    /\ life = "uninit" => mem.error = 0 /\ mem.output = << >>
    /\ life \in {"uninit", "toMulti", "toSingle"} => rsp = 0
    /\ life \in {"toMulti", "toSingle"} => call = 1 /\ at \notin {"idle", "dispatch"}
    /\ \A i \in 1..Len(snapshots) : Leftover(snapshots[i].output)

ErrorsOK ==
    /\ at \in {"guest", "reply"} => mem.error = 0
    /\ at = "outb" /\ port # "Abort" => mem.error = 0
    /\ at = "halted" => mem.error \in {0, call}

ResultsOK ==
    \A i \in 1..Len(mem.output) :
        life # "adrift" /\ Intact /\ mem.output[i].kind = "result" =>
            /\ at = "halted" /\ mem.error = 0 /\ call > 1
            /\ i = Len(mem.output) /\ mem.output[i].id = call

HandOver ==
    life \in Reusable \cup {"toMulti"} =>
        \A i \in 1..Len(mem.output) :
            mem.output[i].kind # "garbled" =>
                /\ i = Len(mem.output)
                /\ \/ at = "outb" /\ port # "Abort"
                   \/ /\ at = "halted" /\ life # "toMulti"
                      /\ mem.error = 0 /\ mem.output[i].kind = "result"

\* The conjunction that every step preserves.
CallsInv ==
    /\ TypeOK /\ HandlesOK /\ ErrorsOK /\ ResultsOK /\ HandOver
    /\ StacksMatch /\ AnswerOfThisCall /\ CleanBetweenCalls
-----------------------------------------------------------------------------
(* What the documentation says, and the code does not do *)

\* "reset RSP to what it was before function call": no frame of an earlier
\* call is left on the guest's stack between two calls.
RspResetAfterCall ==
    at = "idle" /\ life \in Callable => rsp = 0
=============================================================================
