---------------------------- MODULE MCAsyncBridge ----------------------------
(* A call with a timeout, one without, and two threads that close. *)
EXTENDS AsyncBridge

CONSTANTS run, runWithoutTimeout, close1, close2, init

MCCallers == {run, runWithoutTimeout}
MCClosers == {close1, close2}
================================================================================
