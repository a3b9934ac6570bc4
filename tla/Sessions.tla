------------------------------- MODULE Sessions -------------------------------
(***************************************************************************)
(* The sessions of one user, as those who hold tokens see them: what       *)
(* AuthService promises and what a page may rely on.  Sessions are handed  *)
(* out one at a time; one ends by its own logout, or with all the others   *)
(* by a password reset; none comes back.  Accounts has the rows, the       *)
(* objects and the overlapping handlers, and implements this; so does the  *)
(* server that Reauth's page talks to.                                     *)
(***************************************************************************)

VARIABLES
    out,    \* sessions whose tokens have been handed out
    good    \* those of them that a refresh is granted for

vars == <<out, good>>

Init == good = out

\* The answer of generateAuthResponse.  A session that was ended on the way is
\* handed out all the same.
HandOut ==
    \E s \in out' \ out :
        /\ out' = out \union {s}
        /\ good' \in {good, good \union {s}}

Logout ==
    /\ \E s \in good : good' = good \ {s}
    /\ UNCHANGED out

EndAll ==
    /\ good' = {}
    /\ UNCHANGED out

Next == HandOut \/ Logout \/ EndAll

Spec == Init /\ [][Next]_vars
=============================================================================
