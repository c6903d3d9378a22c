--------------------------- MODULE FunctionCalls ---------------------------
(***************************************************************************)
(* Functions that host and guest offer each other, and their calls.        *)
(*                                                                         *)
(* The host registers functions in a sandbox that is not yet initialised;  *)
(* the guest sees their definitions in its memory, checks a call against   *)
(* them, and the host then finds and runs the function.  A host function   *)
(* is an Arc<Mutex<FnMut>>: the same one may be registered under several   *)
(* names and in several sandboxes, whose guests run on threads of their    *)
(* own.  The guest registers functions while it runs; a call of the host   *)
(* is checked and run by the guest's dispatcher.  Calls, results and       *)
(* definitions travel as Messages.  The guest's log records are in         *)
(* GuestLogs.                                                              *)
(*                                                                         *)
(* The build is the default one of Linux: a host function runs on a worker *)
(* thread that catches its panics.  A sandbox is followed from the return  *)
(* of UninitializedSandbox::new on, which has registered HostPrint.  How   *)
(* the messages are stacked, and what a failed run leaves behind, is in    *)
(* SandboxCalls.                                                           *)
(***************************************************************************)
EXTENDS Integers, FiniteSets, SequencesExt, Messages

CONSTANTS
    Sandboxes,
    NumNames,           \* names are 1..NumNames, in their sorting order
    HostPrint,          \* the name registered by UninitializedSandbox::new
    Unregistered,       \* the names no host registers
    Closures,
    Signature,          \* of each closure: the types of its parameters, its return type
                        \* and the content of what it returns
    Writer,             \* the closure a sandbox registers as HostPrint
    BufferSize,         \* of the host function definitions in guest memory
    Languages,          \* per sandbox: the languages its guest may be written in
    HostCalls,          \* per sandbox: the calls that its guest makes
    GuestNames,         \* the names that guests register
    GuestSignatures,    \* per sandbox: the signatures that its guest registers
    GuestCalls,         \* per sandbox: the calls that its host makes
    GuestErrorCodes,    \* the errors that guest functions return
    ErrorNumbers,       \* the errors that C guests set
    MaxRegistrations    \* bound: registrations in each sandbox, HostPrint included

Names == 1..NumNames

\* get_host_value_return_as_...: there is none for the other types.
HostReturnReaders == {"Void", "Int", "UInt", "Long", "ULong", "VecBytes"}

\* hl_get_host_return_value_as_...
CReturnReaders == {"Int", "UInt", "Long", "ULong"}

\* verify_parameters
MAX_PARAMETERS == 11

ASSUME NamesAssumption ==
    /\ NumNames \in Nat
    /\ HostPrint \in Names
    /\ Unregistered \subseteq Names \ {HostPrint}

ASSUME ClosuresAssumption ==
    /\ \A c \in Closures : /\ Signature[c].params \in Seq(SupportedParameterTypes)
                           /\ Signature[c].ret \in SupportedReturnTypes
                           /\ Signature[c].content \in Contents(Signature[c].ret)
    /\ Writer \in [Sandboxes -> Closures]
    /\ \A s \in Sandboxes : 1 + Len(Signature[Writer[s]].params) <= BufferSize

ParametersOK(c) == c.parameters = None \/ c.parameters[1] \in Seq(Values(ParameterTypes))

ASSUME CallsAssumption ==
    \A s \in Sandboxes :
        /\ Languages[s] \subseteq {"Rust", "C"}
        /\ \A g \in GuestSignatures[s] : /\ g.params \in Seq(ParameterTypes)
                                         /\ g.ret \in ReturnTypes
                                         /\ g.content \in Contents(g.ret)
        /\ \A c \in HostCalls[s] : /\ c.function_name \in Names
                                  /\ c.function_call_type = "Host"
                                  /\ c.expected_return_type \in HostReturnReaders
                                  /\ ParametersOK(c)
        /\ \A c \in GuestCalls[s] : c.function_call_type = "Guest" /\ ParametersOK(c)

\* OutbError is the host's own: what it means depends on its exception data.
ASSUME ErrorsAssumption ==
    /\ GuestErrorCodes \subseteq ErrorCodes \ {"OutbError"}
    /\ ErrorNumbers \subseteq Nat \ {ErrorCode["OutbError"]}

ASSUME BoundsAssumption ==
    /\ BufferSize \in Nat
    /\ MaxRegistrations \in [Sandboxes -> Nat]

VARIABLES
    functions_map,      \* per sandbox: name -> closure
    poisoned,           \* per sandbox: the names whose HyperlightFunction, a mutex of
                        \* its own around the wrapper of the closure, is poisoned
    function_details,   \* per sandbox: the definitions, sorted by name
    buffer,             \* per sandbox: the definitions in the guest's memory
    language,           \* per sandbox: what its guest is written in
    guest_functions,    \* per sandbox: REGISTERED_GUEST_FUNCTIONS, or for a guest in C
                        \* REGISTERED_C_GUEST_FUNCTIONS, name -> signature
    at,                 \* per sandbox: how far it is
    guest_call,         \* per sandbox: what its guest runs or last ran for the host,
                        \* with the type and content or the error code that it returns
    call,               \* per sandbox: the last call of a host function in that
    outcome,            \* per sandbox: how the last call of either kind ended, with the
                        \* value that was sent, if one was, and what was read of it
    lock                \* per closure: the sandbox that runs it, "free" or "poisoned"

vars == <<functions_map, poisoned, function_details, buffer, language, guest_functions, at,
          guest_call, call, outcome, lock>>

registrations == <<functions_map, poisoned, function_details, buffer, language>>

Definition(n, c) == HostFunctionDefinition(n, Signature[c].params, Signature[c].ret)

NoCall == FunctionCall(HostPrint, None, "Host", "Void")

\* The guest's main function, which evolve runs.
Main ==
    [call |-> FunctionCall("hyperlight_main", None, "Guest", "Void"), returns |-> "Void",
     content |-> Default, arguments |-> <<>>]

Ended(how) == [how |-> how, sent |-> None, read |-> None]
EndedWith(how, sent, read) == [how |-> how, sent |-> Some(sent), read |-> read]

Init ==
    LET first(s) == <<Definition(HostPrint, Writer[s])>> IN
    /\ functions_map = [s \in Sandboxes |-> [n \in {HostPrint} |-> Writer[s]]]
    /\ function_details = [s \in Sandboxes |-> first(s)]
    /\ buffer = [s \in Sandboxes |-> encode_details(first(s))]
    /\ language \in [Sandboxes -> {"Rust", "C"}] /\ \A s \in Sandboxes : language[s] \in Languages[s]
    /\ guest_functions = [s \in Sandboxes |-> [n \in {} |-> 0]]
    /\ at = [s \in Sandboxes |-> "uninitialized"]
    /\ guest_call = [s \in Sandboxes |-> Main]
    /\ call = [s \in Sandboxes |-> NoCall]
    /\ outcome = [s \in Sandboxes |-> Ended("none")]
    /\ poisoned = [s \in Sandboxes |-> {}]
    /\ lock = [c \in Closures |-> "free"]

-----------------------------------------------------------------------------
(***************************************************************************)
(* Registration                                                            *)
(***************************************************************************)

\* FunctionsMap::insert replaces what the name was registered with before.
insert(map, n, c) ==
    [m \in DOMAIN map \cup {n} |-> IF m = n THEN c ELSE map[m]]

\* The definitions only grow: one for each registration, also of one name.
insert_host_function(details, d) == Append(details, d)

\* Mutant: the definitions stay in the order of their registration.
Unsorted(details) == details

\* sort_by is stable: definitions of one name keep their order.
sort_host_functions_by_name(details) ==
    FlattenSeq([n \in Names |-> SelectSeq(details, LAMBDA d : d.function_name = n)])

\* The size of the serialised definitions: what matters is that it grows with
\* every definition and with its parameters.
Size(fb) ==
    LET types(d) == get(HostFunctionDefinitionTable, d, "parameters") IN
    FoldLeft(LAMBDA sum, d : sum + 1 + (IF types(d) = None THEN 0 ELSE Len(types(d)[1])),
             0, get(HostFunctionDetails, fb, "functions")[1])

TooBig(fb) == Size(fb) > BufferSize

\* The last step of a registration reads the serialised details and writes them
\* again.  It fails when they have become too big, and the map and the details
\* are then not rolled back.
write_buffer_host_function_details(s, fb) ==
    LET again == encode_details(decode_details(fb))
    IN  IF TooBig(again)
        THEN UNCHANGED buffer
        ELSE buffer' = [buffer EXCEPT ![s] = again]

Register(s, n, c) ==
    LET details ==
            sort_host_functions_by_name(
                insert_host_function(function_details[s], Definition(n, c)))
    IN  /\ at[s] = "uninitialized"
        /\ Len(function_details[s]) < MaxRegistrations[s]
        /\ functions_map' = [functions_map EXCEPT ![s] = insert(@, n, c)]
        /\ function_details' = [function_details EXCEPT ![s] = details]
        /\ write_buffer_host_function_details(s, encode_details(details))
        /\ UNCHANGED <<poisoned, language, guest_functions, at, guest_call, call, outcome, lock>>

\* From here on the memory and the functions belong to the initialised sandbox,
\* which has no operation to register more.  The guest's main function runs.
Evolve(s) ==
    /\ at[s] = "uninitialized"
    /\ at' = [at EXCEPT ![s] = "guest"]
    /\ UNCHANGED <<registrations, guest_functions, guest_call, call, outcome, lock>>

\* The guest registers a function of its own, in place of one of that name.  A
\* guest in C has a way to return what get_flatbuffer_result writes.
RegisterGuestFunction(s, n, signature) ==
    /\ at[s] = "guest"
    /\ language[s] = "C" => /\ signature.ret \in DOMAIN get_flatbuffer_result
                           /\ signature.content # WithNul
    /\ guest_functions' = [guest_functions EXCEPT ![s] = insert(@, n, signature)]
    /\ UNCHANGED <<registrations, at, guest_call, call, outcome, lock>>

-----------------------------------------------------------------------------
(***************************************************************************)
(* The guest's side of a call                                              *)
(***************************************************************************)

\* Mutant: the types are compared pairwise, up to the shorter list.
VerifyPairwise(params, args) ==
    IF \E i \in DOMAIN params \cap DOMAIN args : params[i] # args[i]
    THEN "IncorrectParameterType"
    ELSE "valid"

\* The loop runs over the types of the definition: it stops at the first that
\* differs, is stopped by a missing argument with an index out of bounds, and
\* never looks at arguments beyond the last type.
verify_equal_parameter_types(params, args) ==
    IF \E i \in DOMAIN params \cap DOMAIN args : params[i] # args[i]
    THEN "IncorrectParameterType"
    ELSE IF Len(args) < Len(params) THEN "GuestPanic" ELSE "valid"

\* The types of the arguments of a call, as whoever makes it passes them.
ArgumentTypes(c) ==
    IF c.parameters = None THEN <<>>
    ELSE [i \in DOMAIN c.parameters[1] |-> c.parameters[1][i].type]

\* The first definition of the name decides.  A function without parameters
\* has none in its definition, and no list is longer than nothing.
validate_host_function_call(s, request) ==
    LET found == SelectSeq(decode_details(buffer[s]),
                           LAMBDA d : d.function_name = request.function_name)
        types == Head(found).parameter_types
    IN  IF found = <<>> THEN "NotFoundByGuest"
        ELSE IF request.parameters = None /\ types # None THEN "IncorrectParameterCount"
        ELSE IF types = None THEN "valid"
        ELSE verify_equal_parameter_types(types[1], ArgumentTypes(request))

\* The guest's function goes on after the call.
GoOn(s, how) ==
    /\ outcome' = [outcome EXCEPT ![s] = how]
    /\ at' = [at EXCEPT ![s] = "guest"]

\* The run of the guest ends, and with it the host's call.  A sandbox whose main
\* function did not return is never initialised.
EndRun(s, how) ==
    /\ outcome' = [outcome EXCEPT ![s] = Ended(how)]
    /\ at' = [at EXCEPT ![s] = IF guest_call[s] = Main THEN "dead" ELSE "ready"]

\* The guest's call failed.  A guest in Rust gets the error; hl_call_host_function
\* drops it, and the guest in C that goes on to read a result panics.
Failed(s, how) == IF language[s] = "Rust" THEN GoOn(s, Ended(how)) ELSE EndRun(s, "GuestPanic")

\* What a guest in C has of a value, FfiParameter, and a value made of that.  A
\* string of C ends at the first NUL: there is none for a string with one in it.
from_parameter_value(v) == [tag |-> v.type, value |-> v.content]
copy_to_parameter_value(p) == Value(p.tag, p.value)
IsCString(v) == ~(v.type = "String" /\ v.content = WithNul)

Arguments(c) == IF c.parameters = None THEN <<>> ELSE c.parameters[1]

CStrings(c) == \A i \in DOMAIN Arguments(c) : IsCString(Arguments(c)[i])

\* copy_parameters: a guest in C always passes a list of parameters.
CallHostFunction(s, request) ==
    LET verdict == validate_host_function_call(s, request)
    IN  /\ at[s] = "guest"
        /\ language[s] = "C" => /\ request.parameters # None /\ CStrings(request)
                               /\ request.expected_return_type \in CReturnReaders
        /\ call' = [call EXCEPT ![s] = request]
        /\ CASE verdict = "valid" ->
                    /\ at' = [at EXCEPT ![s] = "outb"]
                    /\ outcome' = [outcome EXCEPT ![s] = Ended("none")]
             [] verdict = "GuestPanic" -> EndRun(s, verdict)
             [] OTHER -> Failed(s, verdict)
        /\ UNCHANGED <<registrations, guest_functions, guest_call, lock>>

-----------------------------------------------------------------------------
(***************************************************************************)
(* The host's side of a call                                               *)
(***************************************************************************)

\* What the host reads of the call.
Received(s) == decode_call(encode_call(call[s]))

Callee(s) == functions_map[s][call[s].function_name]

\* What the wrapper around the closure makes of the arguments.  The wrapper of
\* a closure without parameters takes any.
ArgumentsError(params, args) ==
    CASE params = <<>> -> "none"
      [] params # <<>> /\ Len(args) # Len(params) -> "UnexpectedNoOfArguments"
      [] params # <<>> /\ Len(args) = Len(params) /\ args # params
            -> "ParameterValueConversionFailure"
      [] OTHER -> "none"

\* Mutant: a closure is run without locking it.
TryLockIgnored(s, c) ==
    /\ lock' = [lock EXCEPT ![c] = s]
    /\ at' = [at EXCEPT ![s] = "running"]
    /\ UNCHANGED outcome

try_lock(s, c) ==
    IF lock[c] = "free"
    THEN /\ lock' = [lock EXCEPT ![c] = s]
         /\ at' = [at EXCEPT ![s] = "running"]
         /\ UNCHANGED outcome
    ELSE /\ EndRun(s, "ErrorLocking")
         /\ UNCHANGED lock

\* handle_outb_impl: parameters.unwrap_or(vec![]).  An error of the host ends
\* the run of the guest.
HandleOutb(s) ==
    /\ at[s] = "outb"
    /\ IF Received(s) = None
       THEN EndRun(s, "UnreadableCall") /\ UNCHANGED lock
       ELSE IF Received(s)[1].function_name \notin DOMAIN functions_map[s]
       THEN EndRun(s, "HostFunctionNotFound") /\ UNCHANGED lock
       ELSE IF Received(s)[1].function_name \in poisoned[s]
       THEN EndRun(s, "ErrorLocking") /\ UNCHANGED lock
       ELSE LET error == ArgumentsError(Signature[Callee(s)].params, ArgumentTypes(Received(s)[1]))
            IN  IF error # "none"
                THEN EndRun(s, error) /\ UNCHANGED lock
                ELSE try_lock(s, Callee(s))
    /\ UNCHANGED <<registrations, guest_functions, guest_call, call>>

FunctionReturns(s) ==
    /\ at[s] = "running"
    /\ lock' = [lock EXCEPT ![Callee(s)] = "free"]
    /\ at' = [at EXCEPT ![s] = "returned"]
    /\ UNCHANGED <<registrations, guest_functions, guest_call, call, outcome>>

\* Mutant: the lock is not released on the way out of a function that failed.
FunctionFailsLocked(s) ==
    /\ at[s] = "running"
    /\ EndRun(s, "FunctionError")
    /\ UNCHANGED <<registrations, guest_functions, guest_call, call, lock>>

FunctionFails(s) ==
    /\ at[s] = "running"
    /\ lock' = [lock EXCEPT ![Callee(s)] = "free"]
    /\ EndRun(s, "FunctionError")
    /\ UNCHANGED <<registrations, guest_functions, guest_call, call>>

\* The guards are dropped by the unwinding: both mutexes are poisoned, that of
\* the closure for every sandbox it is registered in.
FunctionPanics(s) ==
    /\ at[s] = "running"
    /\ lock' = [lock EXCEPT ![Callee(s)] = "poisoned"]
    /\ poisoned' = [poisoned EXCEPT ![s] = @ \cup {call[s].function_name}]
    /\ EndRun(s, "FunctionPanicked")
    /\ UNCHANGED <<functions_map, function_details, buffer, language, guest_functions,
                   guest_call, call>>

\* get_host_value_return_as_... is called for the type that the call named: it
\* is compared with what came back only now, with the definition's return type
\* nowhere.
GetHostReturn(s) ==
    LET f == Signature[Callee(s)]
        value == decode_result(encode_result(FbReturnValue[f.ret], f.content))
    IN  /\ at[s] = "returned"
        /\ IF value = None
           THEN EndRun(s, "UnreadableReturnValue")
           ELSE IF value[1].type = call[s].expected_return_type
           THEN GoOn(s, EndedWith("ok", Value(f.ret, f.content), value))
           ELSE Failed(s, "UnexpectedReturnType")
        /\ UNCHANGED <<registrations, guest_functions, guest_call, call, lock>>

-----------------------------------------------------------------------------
(***************************************************************************)
(* Calls of guest functions                                                *)
(***************************************************************************)

\* Mutant: the types are compared without counting them first.
VerifyTypesOnly(params, types) ==
    IF \E i \in DOMAIN params \cap DOMAIN types : params[i] # types[i]
    THEN "GuestFunctionParameterTypeMismatch" ELSE "valid"

verify_parameters(params, types) ==
    CASE Len(types) > MAX_PARAMETERS -> "GuestError"
      [] Len(types) <= MAX_PARAMETERS /\ Len(types) # Len(params)
            -> "GuestFunctionIncorrecNoOfParameters"
      [] Len(types) <= MAX_PARAMETERS /\ Len(types) = Len(params)
            -> IF types = params THEN "valid" ELSE "GuestFunctionParameterTypeMismatch"

\* from_function_call panics when it can make no string of C.
from_function_call(received, verdict) == IF CStrings(received) THEN verdict ELSE "GuestPanic"

\* The library for guests in C keeps a register of its own.  For a name that is
\* not in it, it asks the guest, which knows none here.
guest_dispatch_function(s, received) ==
    IF language[s] = "Rust" THEN "GuestFunctionNotFound"
    ELSE IF received.function_name \notin DOMAIN guest_functions[s]
    THEN from_function_call(received, "GuestFunctionNotFound")
    ELSE LET verdict == verify_parameters(guest_functions[s][received.function_name].params,
                                          ArgumentTypes(received))
         IN  IF verdict = "valid" THEN from_function_call(received, "valid") ELSE verdict

\* The dispatcher of the guest.
call_guest_function(s, received) ==
    IF received.function_call_type # "Guest" THEN "GuestError"
    ELSE IF language[s] = "Rust" /\ received.function_name \in DOMAIN guest_functions[s]
    THEN verify_parameters(guest_functions[s][received.function_name].params,
                           ArgumentTypes(received))
    ELSE guest_dispatch_function(s, received)

\* What the host makes of the error in the guest's memory.  Without one it looks
\* for a result, and a function that returned an error has left none.
check_for_guest_error(fb) ==
    IF decode_error(fb) = "NoError" THEN "NoResult" ELSE decode_error(fb)

\* The guest's function ends with an error.  Nobody looks at an error of main:
\* the next call resets it.
EndWithError(s, code) ==
    /\ guest_call' = [guest_call EXCEPT ![s] =
            IF @ = Main THEN Main ELSE [@ EXCEPT !.returns = code]]
    /\ outcome' = [outcome EXCEPT ![s] =
            Ended(IF guest_call[s] = Main THEN "none" ELSE check_for_guest_error(encode_error(code)))]
    /\ at' = [at EXCEPT ![s] = "ready"]
    /\ call' = [call EXCEPT ![s] = NoCall]
    /\ UNCHANGED <<registrations, guest_functions, lock>>

\* The arguments as the function of the guest finds them.
Given(s, received) ==
    IF language[s] = "Rust" THEN Arguments(received)
    ELSE [i \in DOMAIN Arguments(received) |->
             copy_to_parameter_value(from_parameter_value(Arguments(received)[i]))]

CallGuestFunction(s, request) ==
    LET received == decode_call(encode_call(request))
        verdict == IF received = None THEN "UnreadableCall" ELSE call_guest_function(s, received[1])
        function == guest_functions[s][request.function_name]
        accept == [call |-> request, arguments |-> Given(s, received[1]),
                   returns |-> function.ret, content |-> function.content]
        refuse == [call |-> request, arguments |-> <<>>, returns |-> verdict, content |-> Default]
    IN  /\ at[s] = "ready"
        /\ validate_guest_function_call_buffer(encode_call(request))
        /\ IF verdict = "valid"
           THEN /\ guest_call' = [guest_call EXCEPT ![s] = accept]
                /\ at' = [at EXCEPT ![s] = "guest"]
                /\ outcome' = [outcome EXCEPT ![s] = Ended("none")]
           ELSE /\ guest_call' = [guest_call EXCEPT ![s] = refuse]
                /\ outcome' = [outcome EXCEPT ![s] = Ended(
                        IF verdict \in ErrorCodes
                        THEN check_for_guest_error(encode_error(verdict)) ELSE "GuestPanic")]
                /\ UNCHANGED at
        /\ call' = [call EXCEPT ![s] = NoCall]
        /\ UNCHANGED <<registrations, guest_functions, lock>>

\* The tag of the result that a guest function writes.
GuestResult(type) ==
    IF type \in DOMAIN get_flatbuffer_result THEN get_flatbuffer_result[type]
    ELSE FbReturnValue[type]

\* The function returns; the host reads the result.  Main has none.
GuestFunctionReturns(s) ==
    LET g == guest_call[s]
        value == decode_result(encode_result(GuestResult(g.returns), g.content))
    IN
    /\ at[s] = "guest"
    /\ outcome' = [outcome EXCEPT ![s] =
            IF g = Main THEN Ended("none")
            ELSE IF value = None THEN Ended("UnreadableReturnValue")
            ELSE EndedWith("returned", Value(g.returns, g.content), value)]
    /\ at' = [at EXCEPT ![s] = "ready"]
    /\ call' = [call EXCEPT ![s] = NoCall]
    /\ UNCHANGED <<registrations, guest_functions, guest_call, lock>>

GuestFunctionFails(s, code) ==
    /\ at[s] = "guest" /\ guest_call[s] # Main /\ language[s] = "Rust"
    /\ EndWithError(s, code)

\* A guest in C sets an error by its number and halts.
setError(s, n) ==
    /\ at[s] = "guest" /\ language[s] = "C"
    /\ EndWithError(s, ErrorCodeOf(n))

\* A panic of the guest, for instance.
GuestAborts(s) ==
    /\ at[s] = "guest"
    /\ EndRun(s, "GuestAborted")
    /\ call' = [call EXCEPT ![s] = NoCall]
    /\ UNCHANGED <<registrations, guest_functions, guest_call, lock>>

Next ==
    \E s \in Sandboxes :
        \/ \E n \in Names \ Unregistered, c \in Closures : Register(s, n, c)
        \/ Evolve(s)
        \/ \E n \in GuestNames, g \in GuestSignatures[s] : RegisterGuestFunction(s, n, g)
        \/ \E request \in HostCalls[s] : CallHostFunction(s, request)
        \/ HandleOutb(s)
        \/ FunctionReturns(s)
        \/ FunctionFails(s)
        \/ FunctionPanics(s)
        \/ GetHostReturn(s)
        \/ \E request \in GuestCalls[s] : CallGuestFunction(s, request)
        \/ GuestFunctionReturns(s)
        \/ \E code \in GuestErrorCodes : GuestFunctionFails(s, code)
        \/ \E n \in ErrorNumbers : setError(s, n)
        \/ GuestAborts(s)

Spec == Init /\ [][Next]_vars

-----------------------------------------------------------------------------
(***************************************************************************)
(* Properties                                                              *)
(***************************************************************************)

RegisteredNames(s) == {function_details[s][i].function_name : i \in DOMAIN function_details[s]}

\* A name that was registered once, so that guest and host must agree on it.
Once(s, n) ==
    Cardinality({i \in DOMAIN function_details[s] : function_details[s][i].function_name = n}) = 1

GuestErrors ==
    {"NotFoundByGuest", "IncorrectParameterType", "IncorrectParameterCount", "GuestPanic",
     "UnexpectedReturnType", "UnreadableReturnValue", "GuestAborted"} \cup ErrorCodes

HostErrors ==
    {"HostFunctionNotFound", "UnexpectedNoOfArguments", "ParameterValueConversionFailure",
     "ErrorLocking", "FunctionError", "FunctionPanicked", "UnreadableCall", "NoResult"}

\* The two sides of a sandbox agree although they are kept in three places: the
\* guest's definitions are sorted by name (its C library searches them), and the
\* definition of a name that was registered once is that of the closure which
\* the host runs for it.  A registered function is hidden from the guest exactly
\* when the definitions outgrew the buffer, whatever registrations succeeded or
\* failed before: a failed one leaves the map and the details changed, and every
\* later one then fails too (register_host_function_helper).
GuestSeesWhatHostRuns ==
    \A s \in Sandboxes :
        LET seen == decode_details(buffer[s])
            all == encode_details(function_details[s])
        IN
        /\ (buffer[s] # all) <=> (Size(all) > BufferSize)
        /\ \A i, j \in DOMAIN seen : i < j => seen[i].function_name <= seen[j].function_name
        /\ \A i \in DOMAIN seen :
                LET n == seen[i].function_name
                IN  /\ n \in DOMAIN functions_map[s]
                    /\ Once(s, n) => seen[i] = Definition(n, functions_map[s][n])

\* What the guest's validation is worth on the host's side: the host never
\* misses the function, and it refuses the arguments only when the name was
\* registered more than once or when there were more of them than parameters.
ValidatedCallsAccepted ==
    \A s \in Sandboxes :
        /\ outcome[s].how # "HostFunctionNotFound"
        /\ Once(s, call[s].function_name) =>
            /\ outcome[s].how # "ParameterValueConversionFailure"
            /\ outcome[s].how = "UnexpectedNoOfArguments" =>
                    Len(ArgumentTypes(call[s])) > Len(Signature[Callee(s)].params)

\* A function of the guest runs only for arguments of the types that its
\* registration declares, and gets those that the host passed, though they were
\* written into the call, read from it, and for a guest in C made into values of
\* C (verify_parameters, from_function_call).
GuestRunsDeclaredCalls ==
    [][\A s \in Sandboxes :
        at[s] = "ready" /\ at'[s] = "guest" =>
            LET g == guest_call'[s]
            IN  /\ ArgumentTypes(g.call) = guest_functions[s][g.call.function_name].params
                /\ g.arguments = Arguments(g.call)]_vars

\* Messages arrive as they were sent: the host runs a function for the arguments
\* that the guest passed; what one side returns the other can read, with the same
\* content, and as no other type than that of the function; an error of a guest
\* is never taken for a result and has the code that the function ended with.
ResultsArriveAsSent ==
    \A s \in Sandboxes :
        LET o == outcome[s] IN
        /\ at[s] = "running" => Arguments(Received(s)[1]) = Arguments(call[s])
        /\ o.how \notin {"UnreadableReturnValue", "UnreadableCall"}
        /\ o.how \in {"ok", "returned"} => o.read = o.sent
        /\ o.how \in {"ok", "UnexpectedReturnType"} =>
                (o.how = "ok" <=> call[s].expected_return_type = Signature[Callee(s)].ret)
        /\ at[s] = "ready" /\ o.how \in ErrorCodes => o.how = guest_call[s].returns

\* A closure that several sandboxes share runs for one of them at a time, and
\* runs for none once it has panicked.
OneRunPerClosure ==
    \A s \in Sandboxes : at[s] = "running" => lock[Callee(s)] = s

\* A call is refused for a lock only because another sandbox runs the closure at
\* that moment or because the closure has panicked: never because of an earlier
\* call of the same sandbox, however it ended.
LockErrorMeansOthers ==
    [][\A s \in Sandboxes :
        (outcome'[s].how = "ErrorLocking" /\ outcome[s].how # "ErrorLocking") =>
            \/ lock[Callee(s)] = "poisoned"
            \/ \E t \in Sandboxes \ {s} : at[t] = "running" /\ Callee(t) = Callee(s)]_vars
=============================================================================
