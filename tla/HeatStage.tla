----------------------------- MODULE HeatStage -----------------------------
(***************************************************************************)
(* The resumable TurfHeat stage (world.rs) and the list of turfs that      *)
(* superconduct.  The stage walks the frontier and the active turfs with   *)
(* their heat neighbours, exchanges heat with each turf's gas, conducts    *)
(* along the edges, and then prepares new turf and mixture records and a   *)
(* new active list that one publication makes visible.  Between chunks     *)
(* commands write mixtures; turf heat is set between stages only.          *)
(*                                                                         *)
(* A temperature is "cold" (below 373.15 K), "warm", or "hot" (673.15 K    *)
(* and more), chosen freely where the code computes it; a mixture's        *)
(* contents are the number of commands they have taken in.                 *)
(***************************************************************************)
EXTENDS Versioned, FiniteSets, SequencesExt

CONSTANTS
  Turfs, Mixtures,
  Home,            (* turf -> its mixture, or NoMixture *)
  HeatNeighbors,   (* turf -> turfs it conducts heat to *)
  Frontiers,       (* committed frontiers *)
  MaxTokens, MaxWrites,   (* bounds: stages begun, commands *)
  NoMixture

HeatConstants ==
  /\ NoMixture \notin Mixtures /\ Turfs \intersect Mixtures = {}
  /\ \A t \in Turfs : Home[t] \in Mixtures \union {NoMixture}
  /\ \A t \in Turfs : HeatNeighbors[t] \subseteq Turfs
  /\ MaxTokens \in Nat /\ MaxWrites \in Nat

Heats == {"cold", "warm", "hot"}
NoHeat == "none"

VARIABLES
  mem,        (* turf records [heat, index] and mixture records [writes] *)
  used,       (* publications used *)
  stage,
  heatActive, (* the authoritative active list *)
  written     (* history: commands applied, per mixture *)

vars == <<mem, used, stage, heatActive, written>>

Vis(r) == Visible(mem, r)

NoStage == [phase |-> "none"]

(* StageHeatState: nodes in order of discovery, whether each may continue  *)
(* at the lower threshold, the mixtures with a new temperature, the staged *)
(* active list.                                                            *)
NewStage(f) ==
  [phase |-> "walk", frontier |-> f, token |-> used + 1, next |-> 1,
   nodes |-> <<>>, cont |-> {}, linked |-> {}, stagedMixtures |-> <<>>, list |-> <<>>]

Init ==
  /\ mem = NewMemory([r \in Turfs \union Mixtures |->
             IF r \in Turfs THEN [heat |-> NoHeat, index |-> 0] ELSE [writes |-> 0]],
             1..MaxTokens)
  /\ used = 0 /\ stage = NoStage /\ heatActive = <<>>
  /\ written = [m \in Mixtures |-> 0]

Continue(s, m2) ==
  /\ stage' = s /\ used' = s.token /\ mem' = m2 /\ UNCHANGED <<heatActive, written>>

(* Any error of a chunk: abort_stage. *)
Abort(s, m2) ==
  /\ stage' = NoStage /\ used' = s.token /\ mem' = m2
  /\ UNCHANGED <<heatActive, written>>

(***************************************************************************)
(* Walking: prepare_stage_heat_turf appends the turf and its neighbours,   *)
(* those that have heat; a turf met again may only gain can_continue.      *)
(***************************************************************************)
WithHeat(ts) == {t \in ts : Vis(t).heat # NoHeat}

Appended(s, t, canContinue) ==
  LET ts  == WithHeat({t} \union HeatNeighbors[t])
      new == ts \ ToSet(s.nodes)
  IN  [s EXCEPT !.nodes = @ \o SetToSeq(new),
                !.cont = @ \union (ts \ {t}) \union
                         (IF canContinue THEN ts \intersect {t} ELSE {})]

(* Mutant: the mixtures are not prepared with the turfs. *)
PreparedTurfsOnly(s, t) ==
  Prepared(mem, WithHeat({t} \union HeatNeighbors[t]) \ ToSet(s.nodes), s.token)

PreparedTurfs(s, t) ==
  LET new == WithHeat({t} \union HeatNeighbors[t]) \ ToSet(s.nodes)
  IN  Prepared(mem, new \union ({Home[u] : u \in new} \ {NoMixture}), s.token)

Phase(s, here, there, more) == [s EXCEPT !.phase = IF more THEN here ELSE there,
                                         !.next = IF more THEN @ + 1 ELSE 1]

(* The phase that follows the walks: with no node there is nothing to do   *)
(* but to commit.                                                          *)
AfterSeeds(s) == IF s.nodes = <<>> THEN "commit" ELSE "compute"

WalkFrontier(s) ==
  LET t == s.frontier[s.next]
      s2 == Appended(s, t, FALSE)
  IN
  /\ s.phase = "walk"
  /\ Continue(Phase(s2, "walk", IF heatActive = <<>> THEN AfterSeeds(s2) ELSE "seeds",
                    s.next < Len(s.frontier)),
              PreparedTurfs(s, t))

(* Every active turf is copied to the staged list, in order. *)
WalkSeeds(s) ==
  LET t  == heatActive[s.next]
      s2 == [Appended(s, t, TRUE) EXCEPT !.list = Append(@, t)]
  IN
  /\ s.phase = "seeds"
  /\ Continue(Phase(s2, "seeds", AfterSeeds(s2), s.next < Len(heatActive)),
              PreparedTurfs(s, t))

(***************************************************************************)
(* Computing: compute_stage_heat_node exchanges heat with the turf's gas,  *)
(* once per mixture; the copy is taken here and published later.           *)
(***************************************************************************)
ComputeNode(s) ==
  LET t == s.nodes[s.next]
      m == Home[t]
  IN
  /\ s.phase = "compute"
  /\ IF m \in s.linked THEN Abort(s, mem)
     ELSE \E exchange \in SUBSET ({m} \ {NoMixture}) :
            Continue(Phase([s EXCEPT !.linked = @ \union ({m} \ {NoMixture}),
                                     !.stagedMixtures =
                                       IF exchange = {} THEN @
                                       ELSE Append(@, [m |-> m, value |-> Vis(m)])],
                           "compute", "conduct", s.next < Len(s.nodes)), mem)

(* The edges are collected and conducted along in substeps, all on the     *)
(* stage's own copies; too many substeps are refused.                      *)
Conduct(s) ==
  /\ s.phase = "conduct"
  /\ \/ Continue([s EXCEPT !.phase = "publish", !.next = 1], mem)
     \/ Abort(s, mem)

(***************************************************************************)
(* Publication: first the mixtures, then the turfs one by one.             *)
(***************************************************************************)
PublishMixture(s) ==
  LET x == Head(s.stagedMixtures) IN
  /\ s.phase = "publish" /\ s.stagedMixtures # <<>>
  /\ Continue([s EXCEPT !.stagedMixtures = Tail(@)],
              Staged(mem, [m \in {x.m} |-> x.value], s.token))

(* prepared_mut: the candidate of this publication. *)
Candidate(s, m2, r) == Prepared(m2, {r}, s.token).pend[r].value

SetCandidate(s, m2, r, value) == Staged(Prepared(m2, {r}, s.token), [x \in {r} |-> value], s.token)

(* swap_remove from the staged list; the turf that moved learns its place. *)
DropFromList(s, m2, t) ==
  LET i     == Candidate(s, m2, t).index
      list  == IF i = Len(s.list) THEN Front(s.list)
               ELSE [Front(s.list) EXCEPT ![i] = Last(s.list)]
      m3    == IF i > Len(list) THEN m2
               ELSE SetCandidate(s, m2, list[i],
                      [Candidate(s, m2, list[i]) EXCEPT !.index = i])
  IN  [list |-> list, mem |-> SetCandidate(s, m3, t,
                                [Candidate(s, m3, t) EXCEPT !.index = 0])]

AddToList(s, m2, t) ==
  [list |-> Append(s.list, t),
   mem |-> SetCandidate(s, m2, t, [Candidate(s, m2, t) EXCEPT !.index = Len(s.list) + 1])]

(* A turf on the list, or one an active turf leads to, stays or gets on it *)
(* from the lower threshold, any other from the upper one.  The gas of the *)
(* turf may be hotter than the turf.                                       *)
Stays(s, t, index, activation) ==
  activation = "hot" \/ (activation = "warm" /\ (index # 0 \/ t \in s.cont))

NodePublished(s, t, heat, activation) ==
  LET m2 == SetCandidate(s, mem, t, [Candidate(s, mem, t) EXCEPT !.heat = heat])
      m3 == IF Home[t] = NoMixture THEN m2 ELSE Prepared(m2, {Home[t]}, s.token)
      index == Candidate(s, m3, t).index
  IN  IF Stays(s, t, index, activation)
        THEN IF index = 0 THEN AddToList(s, m3, t) ELSE [list |-> s.list, mem |-> m3]
        ELSE IF index # 0 THEN DropFromList(s, m3, t) ELSE [list |-> s.list, mem |-> m3]

(* commit_stage_heat, in the call that publishes the last node: events     *)
(* without room or a conflict end the stage.                               *)
Commit(s, m2, list) ==
  \/ Abort(s, m2)
  \/ /\ Publishable(m2, s.token)
     /\ mem' = Published(m2, s.token)
     /\ heatActive' = list
     /\ stage' = NoStage /\ used' = s.token /\ UNCHANGED written

Activations(t, heat) == {heat} \union (IF Home[t] = NoMixture THEN {} ELSE Heats \ {"cold"})

PublishNode(s) ==
  /\ s.phase = "publish" /\ s.stagedMixtures = <<>>
  /\ \E heat \in Heats : \E activation \in Activations(s.nodes[s.next], heat) :
       LET p == NodePublished(s, s.nodes[s.next], heat, activation) IN
       IF s.next = Len(s.nodes)
         THEN Commit(s, p.mem, p.list)
         ELSE Continue([s EXCEPT !.next = @ + 1, !.list = p.list], p.mem)

(* Nothing to heat: the walk ends in the commit. *)
CommitNothing(s) == s.phase = "commit" /\ Commit(s, mem, s.list)

Item(s) ==
  \/ WalkFrontier(s) \/ WalkSeeds(s) \/ ComputeNode(s) \/ Conduct(s)
  \/ PublishMixture(s) \/ PublishNode(s) \/ CommitNothing(s)

BeginStage ==
  /\ stage = NoStage /\ used < MaxTokens
  /\ \E f \in Frontiers : Item(NewStage(f))

StageItem == stage # NoStage /\ Item(stage)

FailChunk == stage # NoStage /\ Abort(stage, mem)

(***************************************************************************)
(* Commands.                                                               *)
(***************************************************************************)
WriteMixture(m) ==
  /\ written[m] < MaxWrites
  /\ mem' = Written(mem, m, [writes |-> Vis(m).writes + 1])
  /\ written' = [written EXCEPT ![m] = @ + 1]
  /\ UNCHANGED <<used, stage, heatActive>>

(* apply_turf_heat on the authoritative list, refused under a stage. *)
Deactivate(m2, t) ==
  LET i    == Visible(m2, t).index
      list == IF i = Len(heatActive) THEN Front(heatActive)
              ELSE [Front(heatActive) EXCEPT ![i] = Last(heatActive)]
      m3   == IF i > Len(list) THEN m2
              ELSE Written(m2, list[i], [Visible(m2, list[i]) EXCEPT !.index = i])
  IN  /\ heatActive' = list
      /\ mem' = Written(m3, t, [Visible(m3, t) EXCEPT !.index = 0])

SetTurfHeat(t, heat) ==
  LET index == Vis(t).index
      m2 == Written(mem, t, [heat |-> heat, index |-> index])
  IN
  /\ stage = NoStage
  /\ IF heat = "hot" \/ (heat = "warm" /\ index # 0)
       THEN IF index # 0 THEN mem' = m2 /\ UNCHANGED heatActive
            ELSE /\ mem' = Written(m2, t, [heat |-> heat, index |-> Len(heatActive) + 1])
                 /\ heatActive' = Append(heatActive, t)
       ELSE IF index # 0 THEN Deactivate(m2, t)
            ELSE mem' = m2 /\ UNCHANGED heatActive
  /\ UNCHANGED <<used, stage, written>>

Next ==
  \/ BeginStage \/ StageItem \/ FailChunk
  \/ \E m \in Mixtures : WriteMixture(m)
  \/ \E t \in Turfs, heat \in Heats \union {NoHeat} : SetTurfHeat(t, heat)

Spec == Init /\ [][Next]_vars

(***************************************************************************)
(* Properties.                                                             *)
(***************************************************************************)
InverseOf(list, index(_)) ==
  /\ \A i \in DOMAIN list : index(list[i]) = i
  /\ \A t \in Turfs : index(t) # 0 => index(t) <= Len(list) /\ list[index(t)] = t

(* The active list and the indexes the turfs show are inverse, before and  *)
(* after any stage and heat request, published, aborted or conflicted, and *)
(* only turfs with heat are on it.                                         *)
HeatListExact ==
  /\ InverseOf(heatActive, LAMBDA t : Vis(t).index)
  /\ \A i \in DOMAIN heatActive : Vis(heatActive[i]).heat # NoHeat

(* While the turfs are published one by one the staged list and the staged *)
(* indexes are inverse too: no swap removal hits the wrong entry, and a    *)
(* turf that moved before its own turn is found at its new place.          *)
StagedListExact ==
  (stage # NoStage /\ stage.phase \in {"compute", "conduct", "publish"})
    => InverseOf(stage.list, LAMBDA t :
         IF Carries(mem, t, stage.token) THEN mem.pend[t].value.index ELSE Vis(t).index)

(* No command is lost to a heat stage: the gas a reader sees has taken in  *)
(* every command applied to it.                                            *)
WritesKept == \A m \in Mixtures : Vis(m).writes = written[m]

(* Nothing of a heat stage shows before it commits. *)
HeatStageInvisible ==
  [][stage # NoStage /\ stage' # NoStage =>
       /\ \A t \in Turfs : Vis(t)' = Vis(t)
       /\ heatActive' = heatActive]_vars
=============================================================================
