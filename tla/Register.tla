------------------------------ MODULE Register ------------------------------
(***************************************************************************)
(* What checking in by QR code promises: the register of each session      *)
(* lists a student once, and one code lets one student in, once.  Nothing  *)
(* that was entered is taken back.                                         *)
(***************************************************************************)
CONSTANTS Students, Codes,
          SessionOf      \* SessionOf[c] - the session a code was shown for

VARIABLE present         \* pairs of a student and the code he came in with

RegisterInit == present = {}

Listed(s, session) == \E p \in present : p[1] = s /\ SessionOf[p[2]] = session

Enter(s, c) == /\ ~Listed(s, SessionOf[c])
               /\ \A p \in present : p[2] # c
               /\ present' = present \cup {<<s, c>>}

RegisterSpec == RegisterInit
    /\ [][\E s \in Students, c \in Codes : Enter(s, c)]_present
=============================================================================
