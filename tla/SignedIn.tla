------------------------------ MODULE SignedIn ------------------------------
(***************************************************************************)
(* What the multi-account store promises, with no file in sight: a set of  *)
(* accounts the user is signed in to and the one that is active.  Accounts *)
(* enter by a login and leave only when the user signs that very account   *)
(* out (or a file is damaged from outside).  Making another account active *)
(* never costs anybody a session.                                          *)
(*                                                                         *)
(* AccountStore implements this specification file by file.                *)
(***************************************************************************)
CONSTANTS Account,   \* the accounts of the gateway, up to SameAccount
          None       \* "nobody is active"

VARIABLES stored,    \* the accounts with a usable credential
          active,    \* the account the other tools see, or None
          released   \* the accounts signed out (or damaged) since their last login

abstractVars == <<stored, active, released>>

Init ==
  /\ active \in Account \cup {None}
  /\ stored = {active} \ {None}
  /\ released = {}

\* A login stores the account and makes it the active one.
Login(a) ==
  /\ stored' = stored \cup {a}
  /\ active' = a
  /\ released' = released \ {a}

\* Switching only moves the pointer.
Switch(a) ==
  /\ a \in stored
  /\ active' = a
  /\ UNCHANGED <<stored, released>>

\* Signing a out, on request.  A second file of the same account may keep it
\* stored; no other account is touched.
SignOut(a) ==
  /\ released' = released \cup {a}
  /\ stored' \in {stored, stored \ {a}}
  /\ active' \in {active, None}
  /\ active' # active => active = a

\* Signing out of everything; credentials.json is removed by the caller.
SignOutAll ==
  /\ released' \in {released \cup stored, released \cup (stored \ {active})}
  /\ stored' = {active} \ {None}
  /\ UNCHANGED active

Next ==
  \/ \E a \in Account : Login(a) \/ Switch(a) \/ SignOut(a)
  \/ SignOutAll

Spec == Init /\ [][Next]_abstractVars
=============================================================================
