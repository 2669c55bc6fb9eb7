---------------------------- MODULE AtomicStages ----------------------------
(***************************************************************************)
(* What the stage engine promises its clients: the gas mixtures as they    *)
(* can be read, changed one at a time by commands and many at a time by a  *)
(* stage, with nothing in between.  A mixture's contents are abstracted to *)
(* the set of changes they are made of, each change with its own number.   *)
(***************************************************************************)
EXTENDS Naturals

CONSTANT Mixtures

VARIABLES
  seen,      (* the contents a reader sees, per mixture *)
  changes    (* the number of changes applied so far *)

Init == seen = [m \in Mixtures |-> {}] /\ changes = 0

(* A command changes one mixture, a stage any number of them in one step.  *)
(* The new contents of each are made of the contents visible at that very  *)
(* moment: its own and those of the mixtures it reads (a command reads no  *)
(* other).                                                                 *)
Change(m, reads) ==
  seen'[m] = {changes'} \union UNION {seen[n] : n \in reads \union {m}}

Next ==
  /\ changes' = changes + 1
  /\ DOMAIN seen' = Mixtures
  /\ \A m \in Mixtures :
       seen'[m] = seen[m] \/ \E reads \in SUBSET Mixtures : Change(m, reads)

Spec == Init /\ [][Next]_<<seen, changes>>
=============================================================================
