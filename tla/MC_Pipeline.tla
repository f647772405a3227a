----------------------------- MODULE MC_Pipeline -----------------------------
(* Model-checking instance of Pipeline: starts of a fresh workspace.       *)
EXTENDS Pipeline

(* No user command, one command whose entry lacks the "init" key, an      *)
(* init-only command followed by an always-run one.                       *)
MCExecChoices == {<<>>, <<"missing">>, <<"init", "always">>}

=============================================================================
