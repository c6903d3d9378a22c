---------------------------- MODULE Flatbuffers ----------------------------
(***************************************************************************)
(* The tables that the flatbuffers compiler generated from the schemas, as *)
(* far as they decide what a reader gets: which field is in which slot,    *)
(* what a field that was not written reads as, and which fields must be    *)
(* there.  A table is the function from the slots that were written to     *)
(* their contents: a number for a scalar or an enumeration, whatever an    *)
(* offset leads to for the others.  How tables are laid out in bytes is    *)
(* the library's business.                                                 *)
(***************************************************************************)
EXTENDS Integers, Sequences, FiniteSets

\* Option<T>
None == <<>>
Some(x) == <<x>>

\* What a conversion that fails returns.
Unexpected == "Unexpected"

-----------------------------------------------------------------------------
(* Enumerations: the number of each name.                                  *)

ENUM_VALUES_FUNCTION_CALL_TYPE == [none |-> 0, guest |-> 1, host |-> 2]

ENUM_VALUES_PARAMETER_TYPE ==
    [hlint |-> 0, hluint |-> 1, hllong |-> 2, hlulong |-> 3, hlfloat |-> 4, hldouble |-> 5,
     hlstring |-> 6, hlbool |-> 7, hlvecbytes |-> 8]

ENUM_VALUES_RETURN_TYPE ==
    [hlint |-> 0, hluint |-> 1, hllong |-> 2, hlulong |-> 3, hlfloat |-> 4, hldouble |-> 5,
     hlstring |-> 6, hlbool |-> 7, hlvoid |-> 8, hlsizeprefixedbuffer |-> 9]

\* Of a union: 0 is the tag of one without a value.
ENUM_VALUES_PARAMETER_VALUE ==
    [NONE |-> 0, hlint |-> 1, hluint |-> 2, hllong |-> 3, hlulong |-> 4, hlfloat |-> 5,
     hldouble |-> 6, hlstring |-> 7, hlbool |-> 8, hlvecbytes |-> 9]

ENUM_VALUES_RETURN_VALUE ==
    [NONE |-> 0, hlint |-> 1, hluint |-> 2, hllong |-> 3, hlulong |-> 4, hlfloat |-> 5,
     hldouble |-> 6, hlstring |-> 7, hlbool |-> 8, hlvoid |-> 9, hlsizeprefixedbuffer |-> 10]

ENUM_VALUES_ERROR_CODE ==
    [NoError |-> 0, UnsupportedParameterType |-> 2, GuestFunctionNameNotProvided |-> 3,
     GuestFunctionNotFound |-> 4, GuestFunctionIncorrecNoOfParameters |-> 5,
     GispatchFunctionPointerNotSet |-> 6, OutbError |-> 7, UnknownError |-> 8,
     StackOverflow |-> 9, GsCheckFailed |-> 10, TooManyGuestFunctions |-> 11,
     FailureInDlmalloc |-> 12, MallocFailed |-> 13, GuestFunctionParameterTypeMismatch |-> 14,
     GuestError |-> 15, ArrayLengthParamIsMissing |-> 16]

ENUM_VALUES_LOG_LEVEL ==
    [Trace |-> 0, Debug |-> 1, Information |-> 2, Warning |-> 3, Error |-> 4, Critical |-> 5,
     None |-> 6]

\* The name of a number; any number may come in a message.
variant_name(enum, n) ==
    LET named == {name \in DOMAIN enum : enum[name] = n}
    IN  IF named = {} THEN Unexpected ELSE CHOOSE name \in named : TRUE

-----------------------------------------------------------------------------
(* Fields.  The tag of a union is the field before it.                     *)

Scalar(name, default) ==
    [name |-> name, kind |-> "scalar", default |-> default, required |-> FALSE]
Offset(name) == [name |-> name, kind |-> "offset", default |-> 0, required |-> FALSE]
Required(name) == [Offset(name) EXCEPT !.required = TRUE]
RequiredUnion(name) == [Required(name) EXCEPT !.kind = "union"]

\* The slot of the i-th field.
VT(i) == 2 * i + 2

Written(field, args) ==
    IF field.kind = "scalar" THEN args[field.name] # field.default ELSE args[field.name] # None

\* create, with the arguments by their names: a scalar is left out when it has
\* its default, an offset when it is None.  finish asserts that the required
\* fields are there; whoever creates a table passes them.
create(table, args) ==
    [slot \in {VT(i) : i \in {j \in DOMAIN table : Written(table[j], args)}} |->
        LET field == table[(slot - 2) \div 2]
        IN  IF field.kind = "scalar" THEN args[field.name] ELSE args[field.name][1]]

\* The getter of a field: of a scalar its value, of an offset an Option.
get(table, fb, name) ==
    LET i == CHOOSE j \in DOMAIN table : table[j].name = name
    IN  IF VT(i) \notin DOMAIN fb
        THEN IF table[i].kind = "scalar" THEN table[i].default ELSE None
        ELSE IF table[i].kind = "scalar" THEN fb[VT(i)] ELSE Some(fb[VT(i)])

\* run_verifier: what size_prefixed_root refuses.
run_verifier(table, fb) ==
    \A i \in DOMAIN table :
        /\ table[i].required => VT(i) \in DOMAIN fb
        /\ table[i].kind = "union" => (VT(i) \in DOMAIN fb <=> VT(i - 1) \in DOMAIN fb)

-----------------------------------------------------------------------------
(* Values                                                                  *)

hlint == <<Scalar("value", 0)>>
hluint == <<Scalar("value", 0)>>
hllong == <<Scalar("value", 0)>>
hlulong == <<Scalar("value", 0)>>
hlfloat == <<Scalar("value", 0)>>
hldouble == <<Scalar("value", 0)>>
hlbool == <<Scalar("value", 0)>>
hlstring == <<Offset("value")>>
hlvecbytes == <<Offset("value")>>
hlsizeprefixedbuffer == <<Scalar("size_", 0), Offset("value")>>
hlvoid == <<>>

\* The table that a tag stands for.
ValueTable ==
    [hlint |-> hlint, hluint |-> hluint, hllong |-> hllong, hlulong |-> hlulong,
     hlfloat |-> hlfloat, hldouble |-> hldouble, hlbool |-> hlbool, hlstring |-> hlstring,
     hlvecbytes |-> hlvecbytes, hlsizeprefixedbuffer |-> hlsizeprefixedbuffer, hlvoid |-> hlvoid]

-----------------------------------------------------------------------------
(* Messages                                                                *)

Parameter == <<Scalar("value_type", 0), RequiredUnion("value")>>

FunctionCallTable ==
    <<Required("function_name"), Offset("parameters"),
      Scalar("function_call_type", ENUM_VALUES_FUNCTION_CALL_TYPE["none"]),
      Scalar("expected_return_type", ENUM_VALUES_RETURN_TYPE["hlint"])>>

FunctionCallResult == <<Scalar("return_value_type", 0), RequiredUnion("return_value")>>

HostFunctionDefinitionTable ==
    <<Required("function_name"), Offset("parameters"),
      Scalar("return_type", ENUM_VALUES_RETURN_TYPE["hlint"])>>

HostFunctionDetails == <<Offset("functions")>>

GuestErrorTable == <<Scalar("code", ENUM_VALUES_ERROR_CODE["NoError"]), Offset("message")>>

GuestLogDataTable ==
    <<Offset("message"), Offset("source"), Scalar("level", ENUM_VALUES_LOG_LEVEL["Trace"]),
      Offset("caller"), Offset("source_file"), Scalar("line", 0)>>
=============================================================================
