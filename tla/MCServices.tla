----------------------------- MODULE MCServices -----------------------------
(* Model checking of the service manager with the user service, and of the     *)
(* desktop, which learns only whether a password was right (OnKeyDown): a      *)
(* behaviour follows one of the two, and the other stays as it started.        *)
EXTENDS MCUsers, MCDesktop

VARIABLE part  (* the one the behaviour follows *)

ServicesInit ==
  /\ part \in {"services", "desktop"}
  /\ Init /\ DesktopInit

ServicesNext ==
  /\ part' = part
  /\ \/ part = "services" /\ MCNext /\ UNCHANGED desktopVars
     \/ part = "desktop" /\ DesktopNext /\ UNCHANGED vars

ServicesSpec == ServicesInit /\ [][ServicesNext]_<<vars, desktopVars, part>>
=============================================================================
