------------------------- MODULE HypervisorHandler -------------------------
(***************************************************************************)
(* The hypervisor handler of hyperlight_host: the thread that owns the     *)
(* vCPU of one sandbox, and the caller (the thread that owns the sandbox), *)
(* which sends it actions, waits for replies with a timeout, cancels a     *)
(* guest call that timed out, re-initialises the vCPU, and finally kills   *)
(* and joins the thread.  The Linux build is modelled: cancellation is a   *)
(* real-time signal that makes the vCPU run call return EINTR.             *)
(*                                                                         *)
(* Every action sent has a number (sent) and a reply carries the number of *)
(* the action it answers; the code's messages carry no number, so the      *)
(* numbers are history information that no guard reads.  The parameter and *)
(* the result of a guest call are the number of its Dispatch action; a     *)
(* result that the host cannot decode is 0.                                *)
(***************************************************************************)
EXTENDS Integers, Sequences

CONSTANTS
    MaxSignals,   \* number_of_iterations of the signal loop
    InputSlots,   \* function calls that the input buffer has room for, at most
    MaxCalls      \* bound on the guest calls of a behaviour

ASSUME MaxSignalsAssumption == MaxSignals \in Nat
ASSUME InputSlotsAssumption == InputSlots \in Nat
ASSUME MaxCallsAssumption == MaxCalls \in Nat

VARIABLES
    \* shared by the two threads
    to_handler,     \* channel of actions [kind, id]
    from_handler,   \* channel of replies [res, id]
    running, run_cancelled,         \* the two atomic flags
    writer, guard,  \* the RwLock of the shared memory: held for writing by
                    \* the caller, for reading by the handler thread
    input, output, guest_error,     \* sandbox memory: the I/O stacks and
                                    \* the guest error
    sig,            \* a signal that will interrupt the vCPU run call
    \* the handler thread
    hpc, hact, hres,
    gcall,          \* the function call the guest is executing (0: none)
    vcpu,           \* how the registers were left: by a halt, by an error
                    \* exit or by a cancellation that no Initialise followed
    \* the caller
    cpc, count, timedout, direct, why, cause, ret, calls,
    multi,          \* the sandbox is a MultiUseSandbox (it has a snapshot)
    joined,         \* the thread has been joined
    \* history
    sent, consumed, abandoned

channels == <<to_handler, from_handler>>
flags == <<running, run_cancelled>>
lock == <<writer, guard>>
memory == <<input, output, guest_error>>
shared == <<channels, flags, lock, memory, sig>>
handler == <<hpc, hact, hres, gcall, vcpu>>
locals == <<count, timedout, direct, why, cause>>
sandbox == <<calls, multi, joined>>
caller == <<cpc, ret, locals, sandbox>>
history == <<sent, consumed, abandoned>>
vars == <<shared, handler, caller, history>>

-----------------------------------------------------------------------------
Kinds == {"Initialise", "Dispatch", "Terminate"}
Results == {"finished", "cancelled", "error"}
Outcomes == {"none", "ok", "cancelled", "hung", "error"}

Push(stack, x) == Append(stack, x)
Top(stack) == stack[Len(stack)]
Pop(stack) == SubSeq(stack, 1, Len(stack) - 1)

\* Places of the handler thread where it executes one action.
Busy == {"flag", "clear", "lock", "enter", "vcpu", "outb", "cancelled",
         "unlock", "stop", "reply"}
\* Places of the handler thread inside VirtualCPU::run.
InRun == {"enter", "vcpu", "outb", "cancelled"}
\* Places of the caller where it is blocked in recv_timeout.
Waiting == {"waitInit", "wait", "waitCancel", "waitReinit", "waitKill"}
CallerPlaces == Waiting \cup
    {"uninit", "idle", "check", "sigCheck", "sigSend", "sigDone", "slept",
     "result", "restore", "restoring", "join", "gone"}

Init ==
    /\ to_handler = <<>> /\ from_handler = <<>>
    /\ running = FALSE /\ run_cancelled = FALSE
    /\ writer = FALSE /\ guard = FALSE /\ sig = FALSE
    /\ input = <<>> /\ output = <<>> /\ guest_error = FALSE
    /\ hpc = "none" /\ hact = [kind |-> "Initialise", id |-> 0]
    /\ hres = "finished" /\ gcall = 0 /\ vcpu = "good"
    /\ cpc = "uninit" /\ count = 0 /\ timedout = FALSE /\ direct = FALSE
    /\ why = "call" /\ cause = "error" /\ calls = 0
    /\ ret = [of |-> 0, out |-> "none", val |-> 0]
    /\ multi \in BOOLEAN /\ joined = FALSE
    /\ sent = 0 /\ consumed = 0 /\ abandoned = FALSE

-----------------------------------------------------------------------------
(* The channels.                                                           *)

Send(kind) ==
    /\ to_handler' = Append(to_handler, [kind |-> kind, id |-> sent + 1])
    /\ sent' = sent + 1

\* recv_timeout finds a message before the timeout.
Receive(res) ==
    /\ from_handler # <<>>
    /\ Head(from_handler).res = res
    /\ from_handler' = Tail(from_handler)
    /\ consumed' = consumed + 1

\* recv_timeout returns Err(Timeout); nothing was in the channel.
TimesOut == from_handler = <<>>

\* The current operation returns to the code that uses the sandbox.
Return(out, val) ==
    /\ cpc' = "idle"
    /\ ret' = [of |-> sent, out |-> out, val |-> val]

-----------------------------------------------------------------------------
(* Creation: evolve_impl, hv_init and start_hypervisor_handler.            *)

\* set_up_hypervisor_partition or the signal handler set-up fails.
EvolveFails ==
    /\ cpc = "uninit"
    /\ cpc' = "gone"
    /\ UNCHANGED <<shared, handler, ret, locals, sandbox, history>>

Evolve ==
    /\ cpc = "uninit"
    /\ run_cancelled' = FALSE
    /\ hpc' = "recv"
    /\ Send("Initialise")
    /\ cpc' = "waitInit"
    /\ UNCHANGED <<from_handler, running, lock, memory, sig, hact, hres, gcall,
                   vcpu, ret, locals, sandbox, consumed, abandoned>>

\* The initial snapshot of a MultiUseSandbox is the memory as it is now.
EvolveDone ==
    /\ cpc = "waitInit"
    /\ Receive("finished")
    /\ cpc' = "idle"
    /\ UNCHANGED <<to_handler, flags, lock, memory, sig, handler, ret, locals,
                   sandbox, sent, abandoned>>

\* get_pointer_to_dispatch_function or push_state fails after hv_init: the
\* error is returned and nobody sends Terminate.
EvolveFailsLate ==
    /\ cpc = "waitInit"
    /\ Receive("finished")
    /\ cpc' = "gone"
    /\ UNCHANGED <<to_handler, flags, lock, memory, sig, handler, ret, locals,
                   sandbox, sent, abandoned>>

\* Initialise failed: kill_hypervisor_handler_thread.
InitFails ==
    /\ cpc = "waitInit"
    /\ \/ \E res \in {"cancelled", "error"} : Receive(res) /\ UNCHANGED abandoned
       \/ TimesOut /\ abandoned' = TRUE /\ UNCHANGED <<from_handler, consumed>>
    /\ Send("Terminate")
    /\ cpc' = "waitKill"
    /\ UNCHANGED <<flags, lock, memory, sig, handler, ret, locals, sandbox>>

-----------------------------------------------------------------------------
(* A guest call: call_function_on_guest.                                   *)

\* write_guest_function_call pushes the call, then Dispatch is sent.
StartCall ==
    /\ cpc = "idle" /\ calls < MaxCalls
    /\ Len(input) < InputSlots
    /\ input' = Push(input, sent + 1)
    /\ Send("Dispatch")
    /\ direct' \in {b \in BOOLEAN : b => multi}
    /\ timedout' = FALSE
    /\ calls' = calls + 1
    /\ ret' = [of |-> sent + 1, out |-> "none", val |-> 0]
    /\ cpc' = "wait"
    /\ UNCHANGED <<from_handler, flags, lock, output, guest_error, sig, handler,
                   count, why, cause, multi, joined, consumed, abandoned>>

\* The input buffer has no room for the call: it is full, or the call is
\* larger than what is left of it.
StartCallFails ==
    /\ cpc = "idle" /\ calls < MaxCalls
    /\ calls' = calls + 1
    /\ Return("error", 0)
    /\ UNCHANGED <<shared, handler, locals, multi, joined, history>>

CallReplied ==
    /\ cpc = "wait"
    /\ \/ /\ Receive("finished")
          /\ cpc' = "result" /\ UNCHANGED ret
       \/ Receive("cancelled") /\ Return("cancelled", 0)
       \/ Receive("error") /\ Return("error", 0)
    /\ UNCHANGED <<to_handler, flags, lock, memory, sig, handler, locals,
                   sandbox, sent, abandoned>>

CallTimesOut ==
    /\ cpc = "wait" /\ TimesOut
    /\ timedout' = TRUE
    /\ cpc' = "check"
    /\ UNCHANGED <<shared, handler, ret, count, direct, why, cause, sandbox,
                   history>>

\* There is a result on the output stack, and it can be decoded.
HasResult == output # <<>> /\ Top(output) # 0

\* check_stack_guard, whose answer is dropped; check_for_guest_error, which
\* fails if the guest wrote an error; get_guest_function_call_result, which
\* leaves a result that it cannot decode where it is; and, for a call made
\* directly on a MultiUseSandbox, the restore that follows it.
ReadResult ==
    /\ cpc = "result"
    /\ \/ guest_error /\ Return("error", 0) /\ UNCHANGED <<output, why>>
       \/ /\ ~guest_error /\ ~HasResult
          /\ Return(IF timedout THEN "hung" ELSE "error", 0)
          /\ UNCHANGED <<output, why>>
       \/ /\ ~guest_error /\ HasResult /\ ~direct
          /\ output' = Pop(output)
          /\ Return("ok", Top(output)) /\ UNCHANGED why
       \/ /\ ~guest_error /\ HasResult /\ direct
          /\ output' = Pop(output)
          /\ ret' = [of |-> sent, out |-> "none", val |-> Top(output)]
          /\ why' = "call" /\ cpc' = "restore"
    /\ UNCHANGED <<channels, flags, lock, input, guest_error, sig, handler,
                   count, timedout, direct, cause, sandbox, history>>

-----------------------------------------------------------------------------
(* Cancelling: terminate_hypervisor_handler_execution_and_reinitialise.    *)

\* running is false: CancelAttemptOnFinishedExecution, the reply is left
\* in the channel and the caller goes on to read the result.
CheckRunning ==
    /\ cpc = "check"
    /\ \/ running /\ cpc' = "sigCheck" /\ count' = 0 /\ UNCHANGED abandoned
       \/ ~running /\ cpc' = "result" /\ abandoned' = TRUE /\ UNCHANGED count
    /\ UNCHANGED <<shared, handler, ret, timedout, direct, why, cause, sandbox,
                   sent, consumed>>

\* Mutant: the signal loop has no bound.
SignalCheckUnbounded ==
    /\ cpc = "sigCheck"
    /\ cpc' = IF run_cancelled THEN "sigDone" ELSE "sigSend"
    /\ count' = count
    /\ UNCHANGED <<shared, handler, ret, timedout, direct, why, cause, sandbox,
                   history>>

\* The head of the signal loop of terminate_execution.
SignalCheck ==
    /\ cpc = "sigCheck"
    /\ cpc' = IF run_cancelled \/ count >= MaxSignals THEN "sigDone" ELSE "sigSend"
    /\ count' = IF run_cancelled THEN count ELSE count + 1
    /\ UNCHANGED <<shared, handler, ret, timedout, direct, why, cause, sandbox,
                   history>>

\* pthread_kill: the signal interrupts the thread only inside the vCPU run
\* call; anywhere else the handler function runs and nothing comes of it.
SignalSend ==
    /\ cpc = "sigSend"
    /\ sig' = (sig \/ hpc = "vcpu")
    /\ cpc' = "sigCheck"
    /\ UNCHANGED <<channels, flags, lock, memory, handler, ret, locals, sandbox,
                   history>>

SignalDone ==
    /\ cpc = "sigDone"
    /\ \/ run_cancelled /\ cpc' = "slept" /\ UNCHANGED <<ret, abandoned>>
       \/ ~run_cancelled /\ Return("hung", 0) /\ abandoned' = TRUE
    /\ UNCHANGED <<shared, handler, locals, sandbox, sent, consumed>>

\* After sleep(max_wait_for_cancellation).
Slept ==
    /\ cpc = "slept"
    /\ \/ running /\ Return("hung", 0) /\ abandoned' = TRUE
       \/ ~running /\ cpc' = "waitCancel" /\ UNCHANGED <<ret, abandoned>>
    /\ UNCHANGED <<shared, handler, locals, sandbox, sent, consumed>>

CancelReplied ==
    /\ cpc = "waitCancel"
    /\ \/ Receive("cancelled") /\ cause' = "cancelled" /\ UNCHANGED abandoned
       \/ \E res \in {"finished", "error"} :
            Receive(res) /\ cause' = "error" /\ UNCHANGED abandoned
       \/ /\ TimesOut /\ cause' = "error" /\ abandoned' = TRUE
          /\ UNCHANGED <<from_handler, consumed>>
    /\ why' = "cancel" /\ cpc' = "restore"
    /\ UNCHANGED <<to_handler, flags, lock, memory, sig, handler, ret, count,
                   timedout, direct, sandbox, sent>>

Reinitialised ==
    /\ cpc = "waitReinit"
    /\ \/ Receive("finished") /\ Return(cause, 0) /\ UNCHANGED abandoned
       \/ Receive("cancelled") /\ Return("cancelled", 0) /\ UNCHANGED abandoned
       \/ Receive("error") /\ Return("error", 0) /\ UNCHANGED abandoned
       \/ /\ TimesOut /\ Return("error", 0) /\ abandoned' = TRUE
          /\ UNCHANGED <<from_handler, consumed>>
    /\ UNCHANGED <<to_handler, flags, lock, memory, sig, handler, locals,
                   sandbox, sent>>

-----------------------------------------------------------------------------
(* restore_state_from_last_snapshot, on behalf of a finished call, of a    *)
(* cancelled one, or of MultiUseGuestCallContext::finish.                  *)

FinishContext ==
    /\ cpc = "idle" /\ multi
    /\ why' = "finish" /\ cpc' = "restore"
    /\ UNCHANGED <<shared, handler, ret, count, timedout, direct, cause,
                   sandbox, history>>

\* No snapshot, or try_write finds a reader.
RestoreFails ==
    /\ cpc = "restore" /\ why # "finish" /\ (~multi \/ guard)
    /\ Return("error", 0)
    /\ UNCHANGED <<shared, handler, locals, sandbox, history>>

\* finish consumes the context: when it fails, the sandbox is dropped.
FinishFails ==
    /\ cpc = "restore" /\ why = "finish" /\ guard
    /\ Send("Terminate")
    /\ cpc' = "waitKill"
    /\ UNCHANGED <<from_handler, flags, lock, memory, sig, handler, ret, locals,
                   sandbox, consumed, abandoned>>

RestoreBegins ==
    /\ cpc = "restore" /\ multi /\ ~guard
    /\ writer' = TRUE /\ cpc' = "restoring"
    /\ UNCHANGED <<channels, flags, guard, memory, sig, handler, ret, locals,
                   sandbox, history>>

\* Mutant: a cancelled vCPU is not re-initialised.
RestoreEndsAtOnce ==
    /\ cpc = "restoring"
    /\ input' = <<>> /\ output' = <<>> /\ guest_error' = FALSE
    /\ writer' = FALSE
    /\ \/ /\ why = "cancel" /\ Return(cause, 0) /\ UNCHANGED <<to_handler, sent>>
       \/ /\ why = "call" /\ cpc' = "idle"
          /\ ret' = [of |-> ret.of, out |-> "ok", val |-> ret.val]
          /\ UNCHANGED <<to_handler, sent>>
       \/ why = "finish" /\ cpc' = "idle" /\ UNCHANGED <<to_handler, sent, ret>>
    /\ UNCHANGED <<from_handler, flags, guard, sig, handler, locals, sandbox,
                   consumed, abandoned>>

\* Mutant: the reply to a re-initialisation is awaited that was never asked for.
RestoreEndsUnasked ==
    /\ cpc = "restoring"
    /\ input' = <<>> /\ output' = <<>> /\ guest_error' = FALSE
    /\ writer' = FALSE
    /\ \/ why = "cancel" /\ cpc' = "waitReinit" /\ UNCHANGED ret
       \/ /\ why = "call" /\ cpc' = "idle"
          /\ ret' = [of |-> ret.of, out |-> "ok", val |-> ret.val]
       \/ why = "finish" /\ cpc' = "idle" /\ UNCHANGED ret
    /\ UNCHANGED <<channels, flags, guard, sig, handler, locals, sandbox,
                   history>>

RestoreEnds ==
    /\ cpc = "restoring"
    /\ input' = <<>> /\ output' = <<>> /\ guest_error' = FALSE
    /\ writer' = FALSE
    /\ \/ /\ why = "cancel" /\ Send("Initialise")
          /\ cpc' = "waitReinit" /\ UNCHANGED ret
       \/ /\ why = "call" /\ cpc' = "idle"
          /\ ret' = [of |-> ret.of, out |-> "ok", val |-> ret.val]
          /\ UNCHANGED <<to_handler, sent>>
       \/ why = "finish" /\ cpc' = "idle" /\ UNCHANGED <<to_handler, sent, ret>>
    /\ UNCHANGED <<from_handler, flags, guard, sig, handler, locals, sandbox,
                   consumed, abandoned>>

-----------------------------------------------------------------------------
(* Dropping the sandbox: kill_hypervisor_handler_thread.                   *)

\* Mutant: dropping the sandbox does not send Terminate.
DropQuietly ==
    /\ cpc = "idle"
    /\ cpc' = "waitKill"
    /\ UNCHANGED <<channels, flags, lock, memory, sig, handler, ret, locals,
                   sandbox, history>>

Drop ==
    /\ cpc = "idle"
    /\ Send("Terminate")
    /\ cpc' = "waitKill"
    /\ UNCHANGED <<from_handler, flags, lock, memory, sig, handler, ret, locals,
                   sandbox, consumed, abandoned>>

KillReplied ==
    /\ cpc = "waitKill"
    /\ \/ Receive("finished") /\ cpc' = "join" /\ UNCHANGED abandoned
       \/ \E res \in {"cancelled", "error"} :
            Receive(res) /\ cpc' = "gone" /\ UNCHANGED abandoned
       \/ /\ TimesOut /\ cpc' = "gone" /\ abandoned' = TRUE
          /\ UNCHANGED <<from_handler, consumed>>
    /\ UNCHANGED <<to_handler, flags, lock, memory, sig, handler, ret, locals,
                   sandbox, sent>>

\* try_join_hypervisor_handler_thread polls is_finished until the timeout.
Join ==
    /\ cpc = "join"
    /\ joined' \in {b \in BOOLEAN : b => hpc = "exited"}
    /\ cpc' = "gone"
    /\ UNCHANGED <<shared, handler, ret, locals, calls, multi, history>>

-----------------------------------------------------------------------------
(* The handler thread.                                                     *)

\* The stack pointer stays where the error exit left it.
Fault(v) == IF v = "good" THEN "faulted" ELSE v

TakeAction ==
    /\ hpc = "recv" /\ to_handler # <<>>
    /\ hact' = Head(to_handler)
    /\ to_handler' = Tail(to_handler)
    /\ hpc' = IF Head(to_handler).kind = "Terminate" THEN "bye" ELSE "flag"
    /\ UNCHANGED <<from_handler, flags, lock, memory, sig, hres, gcall, vcpu,
                   caller, history>>

SetRunning ==
    /\ hpc = "flag"
    /\ running' = TRUE
    /\ hpc' = "clear"
    /\ UNCHANGED <<channels, run_cancelled, lock, memory, sig, hact, hres,
                   gcall, vcpu, caller, history>>

\* Mutant: run_cancelled is not reset at the start of an action.
ClearCancelledNot ==
    /\ hpc = "clear"
    /\ hpc' = "lock"
    /\ UNCHANGED <<channels, flags, lock, memory, sig, hact, hres, gcall,
                   vcpu, caller, history>>

ClearCancelled ==
    /\ hpc = "clear"
    /\ run_cancelled' = FALSE
    /\ hpc' = "lock"
    /\ UNCHANGED <<channels, running, lock, memory, sig, hact, hres, gcall,
                   vcpu, caller, history>>

\* Mutant: the lock is taken for Dispatch only.
LockMemoryForCalls ==
    /\ hpc = "lock"
    /\ guard' = (~writer /\ hact.kind = "Dispatch")
    /\ vcpu' = IF hact.kind = "Initialise" THEN "good" ELSE vcpu
    /\ gcall' = 0
    /\ hpc' = "enter"
    /\ UNCHANGED <<channels, flags, writer, memory, sig, hact, hres, caller,
                   history>>

\* try_read, whose failure is not looked at; then the registers are set:
\* Initialise sets all of them, Dispatch keeps the stack pointer.
LockMemory ==
    /\ hpc = "lock"
    /\ guard' = ~writer
    /\ vcpu' = IF hact.kind = "Initialise" THEN "good" ELSE vcpu
    /\ gcall' = 0
    /\ hpc' = "enter"
    /\ UNCHANGED <<channels, flags, writer, memory, sig, hact, hres, caller,
                   history>>

EnterVcpu ==
    /\ hpc = "enter"
    /\ hpc' = "vcpu"
    /\ UNCHANGED <<shared, hact, hres, gcall, vcpu, caller, history>>

\* Mutant: the guest takes the oldest call from the input buffer.
GuestPopsOldest ==
    /\ hpc = "vcpu" /\ hact.kind = "Dispatch" /\ gcall = 0
    /\ input # <<>>
    /\ gcall' = Head(input)
    /\ input' = Tail(input) /\ guest_error' = FALSE
    /\ UNCHANGED <<channels, flags, lock, output, sig, hpc, hact, hres, vcpu,
                   caller, history>>

\* The guest's dispatch function takes the call from the input buffer.
GuestPops ==
    /\ hpc = "vcpu" /\ hact.kind = "Dispatch" /\ gcall = 0
    /\ input # <<>>
    /\ gcall' = Top(input)
    /\ input' = Pop(input) /\ guest_error' = FALSE
    /\ UNCHANGED <<channels, flags, lock, output, sig, hpc, hact, hres, vcpu,
                   caller, history>>

\* The guest pushes what its function returned, a result or not; when it does
\* not fit, dispatch_function drops the error and halts all the same.
GuestPushes ==
    \/ UNCHANGED output
    \/ \E r \in {gcall, 0} : output' = Push(output, r)

\* Halt: the guest has returned from its function, or has set the guest error.
ExitHalt ==
    /\ hpc = "vcpu"
    /\ \/ hact.kind = "Initialise" /\ UNCHANGED <<output, guest_error>>
       \/ /\ hact.kind = "Dispatch" /\ gcall # 0
          /\ \/ GuestPushes /\ UNCHANGED guest_error
             \/ guest_error' = TRUE /\ UNCHANGED output
    /\ hres' = "finished" /\ sig' = FALSE
    /\ hpc' = "unlock"
    /\ UNCHANGED <<channels, flags, lock, input, hact, gcall, vcpu, caller,
                   history>>

\* IoOut: a host function or the log; handle_io may fail.
ExitIoOut ==
    /\ hpc = "vcpu"
    /\ hpc' = "outb" /\ sig' = FALSE
    /\ UNCHANGED <<channels, flags, lock, memory, hact, hres, gcall, vcpu,
                   caller, history>>

OutbReturns ==
    /\ hpc = "outb"
    /\ \/ hpc' = "enter" /\ UNCHANGED <<hres, vcpu>>
       \/ hpc' = "unlock" /\ hres' = "error" /\ vcpu' = Fault(vcpu)
    /\ UNCHANGED <<shared, hact, gcall, caller, history>>

\* EAGAIN: the run loop goes round again.
ExitRetry ==
    /\ hpc = "vcpu"
    /\ hpc' = "enter" /\ sig' = FALSE
    /\ UNCHANGED <<channels, flags, lock, memory, hact, hres, gcall, vcpu,
                   caller, history>>

\* Mmio, AccessViolation, Unknown, or an error of the run call.
ExitError ==
    /\ hpc = "vcpu"
    /\ hres' = "error" /\ vcpu' = Fault(vcpu) /\ sig' = FALSE
    /\ hpc' = "unlock"
    /\ UNCHANGED <<channels, flags, lock, memory, hact, gcall, caller, history>>

\* EINTR, in two steps: set_running(false), then set_run_cancelled(true).  The
\* guest may have pushed its result and not have halted yet.
ExitCancelled ==
    /\ hpc = "vcpu" /\ sig
    /\ sig' = FALSE /\ running' = FALSE
    /\ IF gcall # 0 THEN GuestPushes ELSE UNCHANGED output
    /\ vcpu' = "cancelled"
    /\ hpc' = "cancelled"
    /\ UNCHANGED <<channels, run_cancelled, lock, input, guest_error, hact, hres,
                   gcall, caller, history>>

SetRunCancelled ==
    /\ hpc = "cancelled"
    /\ run_cancelled' = TRUE
    /\ hres' = "cancelled"
    /\ hpc' = "unlock"
    /\ UNCHANGED <<channels, running, lock, memory, sig, hact, gcall, vcpu,
                   caller, history>>

UnlockMemory ==
    /\ hpc = "unlock"
    /\ guard' = FALSE
    /\ hpc' = "stop"
    /\ UNCHANGED <<channels, flags, writer, memory, sig, hact, hres, gcall,
                   vcpu, caller, history>>

ClearRunning ==
    /\ hpc = "stop"
    /\ running' = FALSE
    /\ hpc' = "reply"
    /\ UNCHANGED <<channels, run_cancelled, lock, memory, sig, hact, hres,
                   gcall, vcpu, caller, history>>

\* Mutant: no message is sent for a cancelled execution.
ReplyUnlessCancelled ==
    /\ hpc = "reply"
    /\ from_handler' = IF hres = "cancelled" THEN from_handler
                       ELSE Append(from_handler, [res |-> hres, id |-> hact.id])
    /\ hpc' = "recv"
    /\ UNCHANGED <<to_handler, flags, lock, memory, sig, hact, hres, gcall,
                   vcpu, caller, history>>

Reply ==
    /\ hpc = "reply"
    /\ from_handler' = Append(from_handler, [res |-> hres, id |-> hact.id])
    /\ hpc' = "recv"
    /\ UNCHANGED <<to_handler, flags, lock, memory, sig, hact, hres, gcall,
                   vcpu, caller, history>>

\* The thread leaves its loop, sends a last message and ends.
Exit ==
    /\ hpc = "bye"
    /\ from_handler' = Append(from_handler, [res |-> "finished", id |-> hact.id])
    /\ hpc' = "exited"
    /\ UNCHANGED <<to_handler, flags, lock, memory, sig, hact, hres, gcall,
                   vcpu, caller, history>>

-----------------------------------------------------------------------------
CallerNext ==
    \/ EvolveFails \/ Evolve \/ EvolveDone \/ EvolveFailsLate \/ InitFails
    \/ StartCall \/ StartCallFails \/ CallReplied \/ CallTimesOut \/ ReadResult
    \/ CheckRunning \/ SignalCheck \/ SignalSend \/ SignalDone \/ Slept
    \/ CancelReplied \/ Reinitialised
    \/ FinishContext \/ RestoreFails \/ FinishFails
    \/ RestoreBegins \/ RestoreEnds
    \/ Drop \/ KillReplied \/ Join

HandlerNext ==
    \/ TakeAction \/ SetRunning \/ ClearCancelled \/ LockMemory \/ EnterVcpu
    \/ GuestPops \/ ExitHalt \/ ExitIoOut \/ OutbReturns \/ ExitRetry \/ ExitError
    \/ ExitCancelled \/ SetRunCancelled
    \/ UnlockMemory \/ ClearRunning \/ Reply \/ Exit

Next == CallerNext \/ HandlerNext

Spec == Init /\ [][Next]_vars

-----------------------------------------------------------------------------
(* Fairness.                                                               *)

\* Steps the caller takes by itself once an operation has begun; creating,
\* calling, finishing a context and dropping are up to the application.
CallerStep ==
    \/ EvolveDone \/ EvolveFailsLate \/ InitFails
    \/ CallReplied \/ CallTimesOut \/ ReadResult
    \/ CheckRunning \/ SignalCheck \/ SignalSend \/ SignalDone \/ Slept
    \/ CancelReplied \/ Reinitialised
    \/ RestoreFails \/ FinishFails \/ RestoreBegins \/ RestoreEnds
    \/ KillReplied \/ Join

\* Steps of the handler thread outside the guest and the host functions.
HandlerStep ==
    \/ TakeAction \/ SetRunning \/ ClearCancelled \/ LockMemory \/ EnterVcpu
    \/ ExitCancelled \/ SetRunCancelled
    \/ UnlockMemory \/ ClearRunning \/ Reply \/ Exit

\* Both threads are scheduled; the guest may run for ever and a host
\* function may never return.
FairSpec == Spec /\ WF_vars(CallerStep) /\ WF_vars(HandlerStep)

\* Host functions return and the guest ends every execution.
GuestEnds ==
    /\ WF_vars(OutbReturns) /\ WF_vars(GuestPops)
    /\ SF_vars(ExitHalt \/ ExitError)

-----------------------------------------------------------------------------
(* Properties.                                                             *)

\* The flags and the lock are Boolean.
FlagsOK ==
    /\ running \in BOOLEAN /\ run_cancelled \in BOOLEAN
    /\ writer \in BOOLEAN /\ guard \in BOOLEAN /\ sig \in BOOLEAN
    /\ timedout \in BOOLEAN /\ direct \in BOOLEAN /\ multi \in BOOLEAN
    /\ joined \in BOOLEAN /\ abandoned \in BOOLEAN /\ guest_error \in BOOLEAN

\* The channels, the memory and the states of the two threads.
DataOK ==
    /\ to_handler \in Seq([kind : Kinds, id : Nat])
    /\ from_handler \in Seq([res : Results, id : Nat])
    /\ input \in Seq(Nat) /\ output \in Seq(Nat)
    /\ hpc \in Busy \cup {"none", "recv", "bye", "exited"}
    /\ hact \in [kind : Kinds, id : Nat]
    /\ hres \in Results /\ gcall \in Nat
    /\ vcpu \in {"good", "faulted", "cancelled"}
    /\ cpc \in CallerPlaces
    /\ count \in Nat /\ calls \in Nat /\ sent \in Nat /\ consumed \in Nat
    /\ why \in {"call", "cancel", "finish"}
    /\ cause \in {"cancelled", "error"}
    /\ ret \in [of : Nat, out : Outcomes, val : Nat]

\* Every variable of the handler, the caller and the channels has its type.
TypeOK == FlagsOK /\ DataOK

\* Actions the handler thread has taken from its channel.
Taken ==
    consumed + Len(from_handler) + (IF hpc \in Busy \cup {"bye"} THEN 1 ELSE 0)

\* No action and no reply is lost, duplicated or overtaken: the replies in
\* the channel, the action being executed and the queued actions are, in
\* this order, exactly the actions sent whose reply has not been received.
\* About the loop of the handler thread, which must send one message for
\* every action on each of its paths, and about execute_..._action.
OneReplyPerAction ==
    /\ \A i \in 1..Len(from_handler) : from_handler[i].id = consumed + i
    /\ hpc \in Busy \cup {"bye"} => hact.id = consumed + Len(from_handler) + 1
    /\ \A i \in 1..Len(to_handler) : to_handler[i].id = Taken + i
    /\ sent = Taken + Len(to_handler)

\* A caller that once gave up on a reply never catches up: from then on it
\* always has a reply outstanding, so that every later receive reads the
\* reply of an earlier action.  About the paths of terminate_..._reinitialise
\* and execute_..._action that return without receiving.
OutOfStepForever == abandoned => consumed < sent

\* While no reply has been given up, the guest executes only with the
\* memory lock held for it, so never while the caller restores a snapshot.
\* The result of try_read is not looked at: this rests on the caller
\* restoring only between a reply and the next action.
GuestRunsUnderLock ==
    ~abandoned /\ hpc \in InRun => guard /\ ~writer

\* No guest call was cut short by a cancellation and left as it was.
Uncut == multi \/ vcpu # "cancelled"

\* While no reply has been given up, a call that returns a value returns
\* the value the guest computed from this very call's parameters, although
\* failed calls leave entries behind in the I/O buffers and a guest whose
\* result does not fit halts as if it had pushed it.  In a single-use sandbox
\* a cancelled call may leave its result, which a later one would take.
OwnResult == ~abandoned /\ Uncut /\ ret.out = "ok" => ret.val = ret.of

\* A MultiUseSandbox that has not given up a reply never finds, once
\* terminate_execution has returned, that the vCPU is still running, nor a
\* reply other than ExecutionCanceledByHost.  About the order of
\* set_running(false) and set_run_cancelled(true), and about the two flags
\* being reset at the start of every action.
CancelHandshake ==
    multi /\ ~abandoned =>
        /\ cpc = "slept" => ~running
        /\ cpc = "waitCancel" /\ from_handler # <<>> =>
              Head(from_handler).res = "cancelled"

\* A MultiUseSandbox that has not given up a reply never dispatches a call
\* on a vCPU that a cancellation stopped: it restores and re-initialises.
ReinitialisedBeforeDispatch ==
    multi /\ ~abandoned /\ hact.kind = "Dispatch" /\ hpc \in {"enter", "vcpu", "outb"}
        => vcpu # "cancelled"

\* Every operation of the caller ends, whatever the guest and the host
\* functions do: each wait has a timeout and the signal loop is bounded.
OperationsEnd == cpc \notin {"uninit", "idle", "gone"} ~> cpc \in {"idle", "gone"}

\* Once the caller has asked the handler thread to end (the sandbox is dropped,
\* or its initialisation failed), the thread ends, if the guest and the host
\* functions do.
ThreadEnds == GuestEnds => (cpc = "waitKill" ~> hpc = "exited")

-----------------------------------------------------------------------------
(* The inductive invariant behind the safety properties.                   *)

\* Places of the caller where the reply to its last action is still to be
\* received, and places where it has been received or given up.
Owing == Waiting \cup {"check", "sigCheck", "sigSend", "sigDone", "slept"}
Settled == {"idle", "result", "restore", "restoring", "join", "gone"}
Signalling == {"sigCheck", "sigSend", "sigDone"}
\* Places of the caller between sending a Dispatch and having its reply.
InCall == Signalling \cup {"wait", "check", "slept", "waitCancel"}

\* How far the received replies lag behind the actions sent.
StepInv ==
    /\ cpc \in Owing =>
          IF abandoned THEN consumed < sent - 1 ELSE consumed = sent - 1
    /\ cpc \in Settled => IF abandoned THEN consumed < sent ELSE consumed = sent
    /\ cpc = "uninit" => ~abandoned /\ sent = 0 /\ consumed = 0 /\ hpc = "none"
    /\ hpc = "none" => cpc \in {"uninit", "gone"}

\* Who holds the memory lock.
LockInv ==
    /\ writer <=> cpc = "restoring"
    /\ guard => hpc \in InRun \cup {"unlock"}
    /\ GuestRunsUnderLock

\* The vCPU of the last action was cancelled and no action follows it.
JustCancelled ==
    /\ ~running /\ to_handler = <<>>
    /\ \/ hpc \in {"unlock", "stop", "reply"} /\ hres = "cancelled"
       \/ /\ hpc = "recv" /\ from_handler # <<>>
          /\ Head(from_handler).res = "cancelled"

\* A signal is pending only inside the run call, run_cancelled is false
\* until the run call has been interrupted, and the caller that sent the
\* signal is still in its loop then.
SignalInv ==
    /\ sig => hpc = "vcpu"
    /\ hpc \in {"lock", "enter", "vcpu", "outb", "cancelled"} => ~run_cancelled
    /\ hpc = "cancelled" => ~running
    /\ ~abandoned /\ (sig \/ hpc = "cancelled") => cpc \in Signalling

\* While the caller waits for the re-initialisation, nothing else is asked.
ReinitInv ==
    ~abandoned /\ cpc = "waitReinit" =>
        /\ to_handler # <<>> => Head(to_handler).kind = "Initialise"
        /\ hpc \in Busy => hact.kind = "Initialise"

\* Where the threads of a MultiUseSandbox are once the vCPU was cancelled.
HandshakeInv ==
    multi /\ ~abandoned =>
        /\ cpc \in {"slept", "waitCancel"} => run_cancelled
        /\ run_cancelled =>
              \/ cpc \in Signalling \cup {"slept", "waitCancel"} /\ JustCancelled
              \/ cpc \in {"restore", "restoring"} /\ why = "cancel"
              \/ /\ cpc = "waitReinit" /\ from_handler = <<>>
                 /\ hpc \notin (Busy \cup {"bye"}) \ {"flag", "clear"}
        /\ vcpu = "cancelled" =>
              \/ run_cancelled
              \/ hpc = "cancelled"
              \/ cpc = "waitReinit" /\ hpc = "lock"

\* Where the two threads are while a cancellation is under way.
CancelInv == SignalInv /\ ReinitInv /\ HandshakeInv

\* What a cancellation leaves: the vCPU of a single-use sandbox, which is never
\* re-initialised, stays cancelled.
CutInv ==
    /\ hpc = "cancelled" \/ run_cancelled => vcpu = "cancelled"
    /\ cpc \in {"restoring", "waitReinit"} => multi
    /\ ~abandoned /\ hpc \in {"unlock", "stop", "reply"} /\ hres = "cancelled" =>
          vcpu = "cancelled"
    /\ ~abandoned /\ cpc \in InCall /\ from_handler # <<>>
          /\ Head(from_handler).res = "cancelled" => vcpu = "cancelled"
    /\ ~abandoned /\ ~multi =>
          /\ cpc \in {"slept", "waitCancel"} => vcpu = "cancelled"
          /\ cpc = "restore" /\ why = "cancel" => vcpu = "cancelled"
    /\ ~abandoned /\ ~multi /\ vcpu = "cancelled" =>
          /\ cpc \notin {"uninit", "waitInit"}
          /\ hpc \in Busy => hact.kind = "Dispatch"
          /\ to_handler # <<>> => Head(to_handler).kind # "Initialise"

\* The parameters of call c are on top of the input buffer.
Asked(c) == input # <<>> /\ Top(input) = c

\* Where the parameters of the current call are; without one, nothing is
\* dispatched.
AskedInv ==
    /\ ~abandoned /\ cpc \in InCall =>
          /\ ret.out = "none"
          /\ to_handler # <<>> => Head(to_handler).kind = "Dispatch" /\ Asked(sent)
          /\ hpc \in Busy => hact.kind = "Dispatch"
          /\ hpc # "bye"
          /\ hpc \in {"flag", "clear", "lock"} => Asked(sent)
          /\ hpc \in InRun /\ gcall = 0 => Asked(sent)
          /\ hpc \in InRun /\ gcall # 0 => gcall = sent /\ ~guest_error
    /\ ~abandoned /\ cpc \notin InCall =>
          /\ to_handler # <<>> => Head(to_handler).kind # "Dispatch"
          /\ hpc \in Busy => hact.kind # "Dispatch"

\* Nothing is on the output stack but results that cannot be decoded and, in
\* the second case, the result of the last call, on top and without an error.
Spent == \A i \in 1..Len(output) : output[i] = 0
OnlyLast ==
    \A i \in 1..Len(output) :
        output[i] # 0 => output[i] = sent /\ i = Len(output) /\ ~guest_error

\* The guest may have pushed the result of the last call, and nobody has
\* taken it.
Returning ==
    \/ /\ cpc \in InCall
       /\ \/ hpc = "cancelled"
          \/ hpc \in {"unlock", "stop", "reply"} /\ hres # "error"
          \/ from_handler # <<>> /\ Head(from_handler).res # "error"
    \/ cpc = "result"
    \/ cpc \in {"restore", "restoring"} /\ why = "cancel"

\* What the output stack holds, and what has been taken from it.
OutputInv == ~abandoned /\ Uncut => IF Returning THEN OnlyLast ELSE Spent
TakenInv ==
    ~abandoned /\ Uncut /\ cpc \in {"restore", "restoring"} /\ why = "call" =>
        ret.of = sent /\ ret.val = sent

ResultInv == OwnResult /\ OutputInv /\ TakenInv

\* Where the parameters and the results of calls are.
CallInv == CutInv /\ AskedInv /\ ResultInv

\* The invariant whose preservation by every step is proved: the parts
\* above together, with the type invariant and OneReplyPerAction.
HandlerInv ==
    TypeOK /\ OneReplyPerAction /\ StepInv /\ LockInv /\ CancelInv /\ CallInv

-----------------------------------------------------------------------------
(* What comments and tests say without the conditions above.               *)

\* The message a guest call finds in the channel answers the action the
\* call has just sent.  The test terminate_execution_of_an_already_finished_
\* function_then_call_another_function expects the next calls to succeed.
ReplyAnswersRequest ==
    cpc = "wait" /\ from_handler # <<>> => Head(from_handler).id = sent
=============================================================================
