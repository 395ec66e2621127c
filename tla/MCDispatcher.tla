---------------------------- MODULE MCDispatcher ----------------------------
(* Job groups for model checking Dispatcher.                               *)
EXTENDS Dispatcher

TwoGroups == << <<"a", "b">>, <<"c">> >>
=============================================================================
