----------------------------- MODULE MCDisplay -----------------------------
(* Display for TLC: one aircraft, one browser, whose page may come from    *)
(* elsewhere, and a guest that holds one message before a send must wait.  *)
EXTENDS Display, TLC

CONSTANTS s, g, t, p, Elsewhere

=============================================================================
