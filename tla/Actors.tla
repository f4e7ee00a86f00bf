-------------------------------- MODULE Actors --------------------------------
(***************************************************************************)
(* The parts of solx-actions that run beside each other in a process and   *)
(* share nothing.                                                          *)
(***************************************************************************)
EXTENDS HttpStream, Command, Auth, OAuthLoopback, Dispatch

\* Each part's variables keep their types: the buffer of a stream, the pipes of
\* a command, the registries of logins, tokens and times, the frames of calls.
TypesOK == StrTypeOK /\ CmdTypeOK /\ AuthTypeOK /\ OauTypeOK /\ DspTypeOK
=============================================================================
