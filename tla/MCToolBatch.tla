------------------------------- MODULE MCToolBatch -------------------------------
(***************************************************************************)
(* Instances of ToolBatch for TLC.                                         *)
(***************************************************************************)
EXTENDS ToolBatch, TLC

CONSTANTS t1

Slots == 1..3
Answers ==
  {<<"exit_plan_mode", "write">>, <<"todo_write", "write", "write">>, <<"task_create", "exit_plan_mode">>,
   <<"write", "enter_plan_mode">>, <<"task_stop", "mcp">>, <<"write_plan">>,
   <<"agent">>, <<"bash">>, <<"web", "danger">>}
=============================================================================
