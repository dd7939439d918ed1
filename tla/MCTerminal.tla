----------------------------- MODULE MCTerminal -----------------------------
(* One terminal, one connection and a teardown; see Terminal.cfg. *)
EXTENDS Terminal

=============================================================================
