------------------------------ MODULE MCModbus ------------------------------
(***************************************************************************)
(* Two calls of the application, one fault, in both modes.  The lengths    *)
(* are the shortest that keep the order of the code's: a refusal is not    *)
(* longer than the minimum in ASCII, and in neither mode as long as a      *)
(* regular frame.                                                          *)
(***************************************************************************)
EXTENDS Modbus

MCKinds == {"read", "illegal", "broadcast"}
MCServed == {"read"}
MCFrameSize == [mode \in {"RTU", "ASCII"} |-> IF mode = "RTU" THEN 3 ELSE 5]
MCRefusalSize == [mode \in {"RTU", "ASCII"} |-> IF mode = "RTU" THEN 2 ELSE 3]
MCMinSize == [mode \in {"RTU", "ASCII"} |-> IF mode = "RTU" THEN 2 ELSE 3]
=============================================================================
