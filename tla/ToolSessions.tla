---------------------------- MODULE ToolSessions ----------------------------
(***************************************************************************)
(* The parameters shared by the modules whose instances MCTools checks     *)
(* side by side: the processes in which a plugin runs, each serving one    *)
(* tool call at a time.                                                    *)
(***************************************************************************)
EXTENDS Integers, FiniteSets

CONSTANTS Sessions,  \* processes that call the tools
          None       \* no file, no session, no value

ASSUME NoneIsNoSession == None \notin Sessions
=============================================================================
