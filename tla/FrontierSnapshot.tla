--------------------------- MODULE FrontierSnapshot ---------------------------
(***************************************************************************)
(* What the active frontier promises to the simulation stages.  At every   *)
(* moment there is one duplicate-free, ordered snapshot of turf handles    *)
(* with an epoch.  A complete upload replaces it in one step by exactly    *)
(* the parts received for that upload, an incremental sync appends handles *)
(* or deletes some without reordering the others, and nothing changes it   *)
(* while a resumable stage is walking it.                                  *)
(***************************************************************************)
EXTENDS Integers, Sequences

CONSTANT Handle      \* the turf handles

VARIABLES
  snapshot,          \* the ordered frontier a stage walks
  epoch,             \* the epoch a stage request has to name, -1 before the first
  offered,           \* the upload being assembled: its epoch (-1: none), size, parts
  walking            \* TRUE while a stage holds a cursor into snapshot

vars == <<snapshot, epoch, offered, walking>>

Elements(s) == {s[i] : i \in DOMAIN s}

Distinct(s) == \A i, j \in DOMAIN s : s[i] = s[j] => i = j

NoUpload == [epoch |-> -1, size |-> 0, parts |-> <<>>]

Init == /\ snapshot = <<>>
        /\ epoch = -1
        /\ offered = NoUpload
        /\ walking = FALSE

\* A newer upload starts from nothing and cancels the one before it.
Offer == /\ ~walking
         /\ offered'.epoch > epoch
         /\ offered'.epoch > offered.epoch
         /\ offered'.parts = <<>>
         /\ UNCHANGED <<snapshot, epoch, walking>>

\* Parts arrive in any order; a part already received is never overwritten.
Receive == /\ offered.epoch # -1
           /\ offered'.epoch = offered.epoch
           /\ offered'.size = offered.size
           /\ DOMAIN offered'.parts \subseteq 1..offered.size
           /\ DOMAIN offered.parts \subseteq DOMAIN offered'.parts
           /\ \A i \in DOMAIN offered.parts : offered'.parts[i] = offered.parts[i]
           /\ Distinct(offered'.parts)
           /\ UNCHANGED <<snapshot, epoch, walking>>

\* The whole upload becomes the snapshot.
Replace == /\ ~walking
           /\ offered.epoch # -1
           /\ DOMAIN offered.parts = 1..offered.size
           /\ snapshot' = [i \in 1..offered.size |-> offered.parts[i]]
           /\ epoch' = offered.epoch
           /\ offered' = NoUpload
           /\ UNCHANGED walking

\* New handles go to the end.
Extend == /\ ~walking
          /\ epoch' > epoch
          /\ Len(snapshot') >= Len(snapshot)
          /\ SubSeq(snapshot', 1, Len(snapshot)) = snapshot
          /\ Distinct(snapshot')
          /\ Elements(snapshot') \subseteq Handle
          /\ UNCHANGED <<offered, walking>>

\* Some handles leave; the others keep their order.
Shrink == /\ ~walking
          /\ epoch' > epoch
          /\ snapshot' \in Seq(Elements(snapshot))
          /\ \E kept \in [1..Len(snapshot') -> 1..Len(snapshot)] :
                /\ \A i, j \in DOMAIN kept : i < j => kept[i] < kept[j]
                /\ \A i \in DOMAIN kept : snapshot'[i] = snapshot[kept[i]]
          /\ UNCHANGED <<offered, walking>>

\* A stage starts, advances, finishes or is aborted.
Walk == /\ walking' \in BOOLEAN
        /\ UNCHANGED <<snapshot, epoch, offered>>

Next == Walk \/ Receive \/ Offer \/ Replace \/ Extend \/ Shrink

Spec == Init /\ [][Next]_vars
=============================================================================
