------------------------------ MODULE MCIoStack ------------------------------
(* Instance of IoStack: a call and results of different sizes.             *)
EXTENDS IoStack

MCMsgs == {"call", "res", "long"}
MCSize == [m \in MCMsgs |-> CASE m = "call" -> 2 [] m = "res" -> 1 [] m = "long" -> 3]
MCKind == [m \in MCMsgs |-> IF m = "call" THEN "FunctionCall" ELSE "ReturnValue"]

=============================================================================
