----------------------------- MODULE MCCoalescer -----------------------------
(* Symmetry and bounds for checking Coalescer with TLC. *)
EXTENDS Coalescer

IDSymmetry == Permutations(ToolIDs)

(* Texts among everything but tool calls, tool calls by themselves, and    *)
(* both.                                                                   *)
MCAlphabets ==
    {<<{"message", "thought", "garbled", "block", "other", "usage"}, 5>>,
     <<{"tool_call", "tool_call_update"}, 4>>,
     <<{"message", "thought", "tool_call", "tool_call_update"}, 3>>}

(* Tool calls by themselves. *)
MCToolAlphabet == {<<{"tool_call", "tool_call_update"}, MaxEvents>>}
=============================================================================
