--------------------------- MODULE ServerInstance ---------------------------
(***************************************************************************)
(* What the manager promises about the processes of one server: there is   *)
(* one at most, a new one starts only when none runs, and a process that   *)
(* has ended does not come back.                                           *)
(***************************************************************************)
CONSTANTS Procs, None

VARIABLES
  instance,   (* the process that runs, or None                             *)
  past        (* the processes started so far                               *)

Init == instance = None /\ past = {}

Start(p) ==
  /\ instance = None
  /\ p \notin past
  /\ instance' = p
  /\ past' = past \cup {p}

End ==
  /\ instance # None
  /\ instance' = None
  /\ UNCHANGED past

Next == (\E p \in Procs : Start(p)) \/ End

Spec == Init /\ [][Next]_<<instance, past>>
=============================================================================
