------------------------------ MODULE StackGuard ------------------------------
(***************************************************************************)
(* The one recursion guard of the schema code (spec.md section 5):        *)
(* create_object_and_handle_keyword calls check_stack_overrun(thd,        *)
(* STACK_MIN_SIZE, NULL) on entry, which raises ER_STACK_OVERRUN_NEED_MORE *)
(* and returns 1 when the thread's stack has less than the margin left.   *)
(* Stack use grows with every nested call, so the guard trips at a fixed  *)
(* nesting of those calls: StackLimit is the most frames of               *)
(* create_object_and_handle_keyword the stack holds.  spec.md allows this *)
(* substitution: "an explicit depth counter with the same bound".         *)
(***************************************************************************)
EXTENDS Naturals

CONSTANT StackLimit

ASSUME StackLimit \in Nat \ {0}

(* check_stack_overrun on entry to a frame, `frames` frames being active  *)
(* below it: the new frame would pass the limit.                          *)
StackOverrun(frames) == frames >= StackLimit

=============================================================================
