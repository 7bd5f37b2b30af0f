------------------------------ MODULE MCUsers ------------------------------
(* Model checking of the service manager with the user service.              *)
EXTENDS Users

\* A window manager and the user service, as the kernel's list has them.
MCList == <<"USER", "WINDOW">>
MCInterval == [USER |-> 4, WINDOW |-> 3]
MCDefault == [USER |-> TRUE, WINDOW |-> TRUE]

\* A name that is too long, what is kept of it, and one with a colon.
MCKept == [name \in {"ann", "an", "user:y", "root", "user"} |-> IF name = "ann" THEN "an" ELSE name]
MCParts == [name \in {"ann", "an", "user:y", "root", "user"} |->
              IF name = "user:y" THEN <<"user", "y">> ELSE <<name>>]
MCDigits == [text \in {"ann", "an", "y", "root", "user"} |-> 0]

\* While accounts were added or a file written, the kernel stays in text mode, its
\* clock at 0 and no password is wrong: the manager and the lock do not look at the
\* accounts' file.
MCNext ==
  /\ Next
  /\ file' # <<>> \/ m_users' \notin {<<>>, Factory}
       => ~graphics' /\ time' = 0 /\ retries_left' = Retries /\ lock_until_ms' = 0
=============================================================================
