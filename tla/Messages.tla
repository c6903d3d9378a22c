------------------------------ MODULE Messages ------------------------------
(***************************************************************************)
(* The messages that host and guest exchange: calls, results, errors, log  *)
(* records and definitions of functions.  Each side writes them from its   *)
(* own types into flatbuffers, and reads them from flatbuffers into its    *)
(* own types, by tables, one for each direction.  A value is abstracted to *)
(* its type and whether it is the default of its type: 0, or empty.        *)
(***************************************************************************)
EXTENDS Flatbuffers, TLC

ParameterTypes ==
    {"Int", "UInt", "Long", "ULong", "Float", "Double", "String", "Bool", "VecBytes"}
ReturnTypes == ParameterTypes \cup {"Void"}

\* The types with an implementation of SupportedParameterType, and of
\* SupportedReturnType: those of host functions.
SupportedParameterTypes == ParameterTypes \ {"Float", "Double"}
SupportedReturnTypes == ReturnTypes \ {"Float", "Double"}

\* The default, another one, and a string with a NUL in it.
Default == 0
NotDefault == 1
WithNul == 2

Contents(type) ==
    CASE type = "Void" -> {Default}
      [] type = "String" -> {Default, NotDefault, WithNul}
      [] OTHER -> {Default, NotDefault}

Value(type, content) == [type |-> type, content |-> content]

Values(types) == UNION {{Value(t, v) : v \in Contents(t)} : t \in types}

-----------------------------------------------------------------------------
(* Types and tags.  The scalar types have one tag everywhere; bytes have   *)
(* one as a parameter and another one as a result.                         *)

ScalarTag ==
    [Int |-> "hlint", UInt |-> "hluint", Long |-> "hllong", ULong |-> "hlulong",
     Float |-> "hlfloat", Double |-> "hldouble", String |-> "hlstring", Bool |-> "hlbool"]

TypeOfScalar ==
    [hlint |-> "Int", hluint |-> "UInt", hllong |-> "Long", hlulong |-> "ULong",
     hlfloat |-> "Float", hldouble |-> "Double", hlstring |-> "String", hlbool |-> "Bool"]

FbParameterType == ScalarTag @@ [VecBytes |-> "hlvecbytes"]
FbReturnType == ScalarTag @@ [VecBytes |-> "hlsizeprefixedbuffer", Void |-> "hlvoid"]

ParameterTypeOf == TypeOfScalar @@ [hlvecbytes |-> "VecBytes"]
ReturnTypeOf == TypeOfScalar @@ [hlsizeprefixedbuffer |-> "VecBytes", hlvoid |-> "Void"]

\* A table applied to a tag or a type.
From(table, key) == IF key \in DOMAIN table THEN table[key] ELSE Unexpected

\* Through the tables, into the number of an enumeration and back.
Into(enum, table, type) == enum[table[type]]
Back(enum, table, n) == From(table, variant_name(enum, n))

Map(Op(_), option) == IF option = None THEN None ELSE Some([i \in DOMAIN option[1] |-> Op(option[1][i])])

-----------------------------------------------------------------------------
(* Values                                                                  *)

\* The table of a value, and what its getters make of it: a string or bytes
\* that are not there are empty.
create_value(tag, v) ==
    create(ValueTable[tag],
           [size_ |-> v, value |-> IF tag \in {"hlstring", "hlvecbytes", "hlsizeprefixedbuffer"}
                                   THEN Some(v) ELSE v])

read_value(tag, fb) ==
    LET value == get(ValueTable[tag], fb, "value")
    IN  CASE tag = "hlvoid" -> Default
          [] tag \in {"hlstring", "hlvecbytes", "hlsizeprefixedbuffer"} ->
                IF value = None THEN Default ELSE value[1]
          [] OTHER -> value

\* FunctionCall into bytes: the parameters of a call.
FbParameterValue == ScalarTag @@ [VecBytes |-> "hlvecbytes"]

encode_parameter(v) ==
    create(Parameter,
           [value_type |-> Into(ENUM_VALUES_PARAMETER_VALUE, FbParameterValue, v.type),
            value |-> Some(create_value(FbParameterValue[v.type], v.content))])

\* Parameter into ParameterValue.
ParameterValueOf == TypeOfScalar @@ [hlvecbytes |-> "VecBytes"]

decode_parameter(fb) ==
    LET tag == variant_name(ENUM_VALUES_PARAMETER_VALUE, get(Parameter, fb, "value_type"))
    IN  IF ~run_verifier(Parameter, fb) \/ tag \notin DOMAIN ParameterValueOf
        THEN Value(Unexpected, Default)
        ELSE Value(ParameterValueOf[tag], read_value(tag, get(Parameter, fb, "value")[1]))

\* Mutant: bytes are sent back as a string.
BytesAsString == ScalarTag @@ [VecBytes |-> "hlstring", Void |-> "hlvoid"]

\* ReturnValue into bytes, as the host writes it.
FbReturnValue == ScalarTag @@ [VecBytes |-> "hlsizeprefixedbuffer", Void |-> "hlvoid"]

\* get_flatbuffer_result_from_..., as guests write it.  There is none for Bool:
\* a guest function builds such a result itself.
get_flatbuffer_result ==
    [Int |-> "hlint", UInt |-> "hluint", Long |-> "hllong", ULong |-> "hlulong",
     Float |-> "hlfloat", Double |-> "hldouble", String |-> "hlstring",
     VecBytes |-> "hlsizeprefixedbuffer", Void |-> "hlvoid"]

encode_result(tag, v) ==
    create(FunctionCallResult,
           [return_value_type |-> ENUM_VALUES_RETURN_VALUE[tag],
            return_value |-> Some(create_value(tag, v))])

\* FunctionCallResult into ReturnValue.
ReturnValueOf == TypeOfScalar @@ [hlsizeprefixedbuffer |-> "VecBytes", hlvoid |-> "Void"]

decode_result(fb) ==
    LET tag == variant_name(ENUM_VALUES_RETURN_VALUE,
                            get(FunctionCallResult, fb, "return_value_type"))
    IN  IF ~run_verifier(FunctionCallResult, fb) \/ tag \notin DOMAIN ReturnValueOf THEN None
        ELSE Some(Value(ReturnValueOf[tag],
                        read_value(tag, get(FunctionCallResult, fb, "return_value")[1])))

-----------------------------------------------------------------------------
(* Calls                                                                   *)

FunctionCall(name, parameters, kind, ret) ==
    [function_name |-> name, parameters |-> parameters, function_call_type |-> kind,
     expected_return_type |-> ret]

\* An empty list of parameters is written like none.
encode_call(call) ==
    create(FunctionCallTable,
           [function_name |-> Some(call.function_name),
            parameters |-> IF call.parameters = Some(<<>>) THEN None
                           ELSE Map(encode_parameter, call.parameters),
            function_call_type |->
                ENUM_VALUES_FUNCTION_CALL_TYPE[
                    IF call.function_call_type = "Guest" THEN "guest" ELSE "host"],
            expected_return_type |->
                Into(ENUM_VALUES_RETURN_TYPE, FbReturnType, call.expected_return_type)])

FunctionCallTypeOf == [guest |-> "Guest", host |-> "Host"]

\* A conversion that fails inside makes the whole one fail.
decode_call(fb) ==
    LET field(name) == get(FunctionCallTable, fb, name)
        parameters == Map(decode_parameter, field("parameters"))
        kind == Back(ENUM_VALUES_FUNCTION_CALL_TYPE, FunctionCallTypeOf, field("function_call_type"))
        ret == Back(ENUM_VALUES_RETURN_TYPE, ReturnTypeOf, field("expected_return_type"))
    IN  IF \/ ~run_verifier(FunctionCallTable, fb)
           \/ Unexpected \in {kind, ret}
           \/ parameters # None /\ \E i \in DOMAIN parameters[1] : parameters[1][i].type = Unexpected
        THEN None
        ELSE Some(FunctionCall(field("function_name")[1], parameters, kind, ret))

validate_guest_function_call_buffer(fb) ==
    /\ run_verifier(FunctionCallTable, fb)
    /\ get(FunctionCallTable, fb, "function_call_type") = ENUM_VALUES_FUNCTION_CALL_TYPE["guest"]

-----------------------------------------------------------------------------
(* Definitions of host functions                                           *)

\* A function without parameters has None for them.
HostFunctionDefinition(name, params, ret) ==
    [function_name |-> name, return_type |-> ret,
     parameter_types |-> IF params = <<>> THEN None ELSE Some(params)]

convert_to_flatbuffer_def(d) ==
    create(HostFunctionDefinitionTable,
           [function_name |-> Some(d.function_name),
            return_type |-> Into(ENUM_VALUES_RETURN_TYPE, FbReturnType, d.return_type),
            parameters |-> Map(LAMBDA t : Into(ENUM_VALUES_PARAMETER_TYPE, FbParameterType, t),
                               d.parameter_types)])

decode_definition(fb) ==
    LET field(name) == get(HostFunctionDefinitionTable, fb, name) IN
    [function_name |-> field("function_name")[1],
     return_type |-> Back(ENUM_VALUES_RETURN_TYPE, ReturnTypeOf, field("return_type")),
     parameter_types |->
        Map(LAMBDA n : Back(ENUM_VALUES_PARAMETER_TYPE, ParameterTypeOf, n), field("parameters"))]

encode_details(details) ==
    create(HostFunctionDetails, [functions |-> Map(convert_to_flatbuffer_def, Some(details))])

\* To have no list of functions is to have no functions.
decode_details(fb) ==
    LET functions == Map(decode_definition, get(HostFunctionDetails, fb, "functions"))
    IN  IF functions = None THEN <<>> ELSE functions[1]

-----------------------------------------------------------------------------
(* Errors of the guest                                                     *)

\* The numbers of the error codes, in memory and in C.
ErrorCode ==
    [NoError |-> 0, UnsupportedParameterType |-> 2, GuestFunctionNameNotProvided |-> 3,
     GuestFunctionNotFound |-> 4, GuestFunctionIncorrecNoOfParameters |-> 5,
     GispatchFunctionPointerNotSet |-> 6, OutbError |-> 7, UnknownError |-> 8,
     StackOverflow |-> 9, GsCheckFailed |-> 10, TooManyGuestFunctions |-> 11,
     FailureInDlmalloc |-> 12, MallocFailed |-> 13, GuestFunctionParameterTypeMismatch |-> 14,
     GuestError |-> 15, ArrayLengthParamIsMissing |-> 16]

ErrorCodes == DOMAIN ErrorCode

\* A number without a name is an unknown error.
ErrorCodeOf(n) ==
    LET named == {code \in ErrorCodes : ErrorCode[code] = n}
    IN  IF named = {} THEN "UnknownError" ELSE CHOOSE code \in named : TRUE

\* The flatbuffer's error code has the same names, and the same fallback.
FbErrorCode(code) == ENUM_VALUES_ERROR_CODE[code]
FromFbErrorCode(n) ==
    LET name == variant_name(ENUM_VALUES_ERROR_CODE, n)
    IN  IF name = Unexpected THEN "UnknownError" ELSE name

encode_error(code) ==
    create(GuestErrorTable, [code |-> FbErrorCode(code), message |-> Some(NotDefault)])

decode_error(fb) == FromFbErrorCode(get(GuestErrorTable, fb, "code"))

-----------------------------------------------------------------------------
(* Log records                                                             *)

\* The levels of the log crate, by which records are filtered, and a filter
\* that lets nothing through.
Level == [Off |-> 0, Error |-> 1, Warn |-> 2, Info |-> 3, Debug |-> 4, Trace |-> 5]
Levels == DOMAIN Level \ {"Off"}

\* Level into LogLevel and back.
LogLevel ==
    [Trace |-> "Trace", Debug |-> "Debug", Info |-> "Information", Warn |-> "Warning",
     Error |-> "Error"]
LevelOf ==
    [Trace |-> "Trace", Debug |-> "Debug", Information |-> "Info", Warning |-> "Warn",
     Error |-> "Error", Critical |-> "Error", None |-> "Trace"]

\* LogLevel into the flatbuffer's and back: they have the same names.
FbLogLevel(level) == ENUM_VALUES_LOG_LEVEL[level]
FromFbLogLevel(n) == variant_name(ENUM_VALUES_LOG_LEVEL, n)

encode_log(data) ==
    create(GuestLogDataTable,
           [message |-> Some(data.message), source |-> Some(data.source),
            level |-> FbLogLevel(data.level), caller |-> Some(data.caller),
            source_file |-> Some(data.source_file), line |-> data.line])

\* A text that is not there is an error, and so is a level without a name.
decode_log(fb) ==
    LET field(name) == get(GuestLogDataTable, fb, name)
        texts == {"message", "source", "caller", "source_file"}
        level == FromFbLogLevel(field("level"))
    IN  IF level = Unexpected \/ \E t \in texts : field(t) = None THEN None
        ELSE Some([message |-> field("message")[1], source |-> field("source")[1],
                   level |-> level, caller |-> field("caller")[1],
                   source_file |-> field("source_file")[1], line |-> field("line")])
=============================================================================
