----------------------------- MODULE MCDesktop -----------------------------
(* Model checking of Desktop: one widget and one window of the desktop.         *)
EXTENDS Desktop

MCTitle == {"Login", "Shell", "Applications", "Mouse", "Monitor"}

MCPostLogin ==
  <<[title |-> "Mouse", role |-> "Utility", flags |-> {"Minimizable", "Closable"}, then |-> "raised"],
    [title |-> "Monitor", role |-> "Normal", flags |-> Framed, then |-> "hidden"]>>
=============================================================================
