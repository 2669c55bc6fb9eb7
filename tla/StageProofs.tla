---------------------------- MODULE StageProofs ----------------------------
(***************************************************************************)
(* Proofs about StagePublication, for any mixtures, turfs, gas edges,      *)
(* frontiers and bounds: a gas stage is one atomic change of what it read, *)
(* the revision of a mixture tells its contents, and a stage stages over   *)
(* records that nobody wrote since it captured them.                       *)
(***************************************************************************)
EXTENDS StagePublication, FiniteSetTheorems, SequenceTheorems, WellFoundedInduction, TLAPS

(***************************************************************************)
(* The inductive invariant.                                                *)
(***************************************************************************)
Changes == {"command", "stage"} \X Nat
Value == [rev : Nat, made : SUBSET Changes]
Candidates == {NoCandidate} \union [token : Tokens, value : Value]
Memories == [cur : [Mixtures -> Value], pend : [Mixtures -> Candidates],
             tok : [Tokens -> TokenStates]]

Inputs == UNION {[D -> Value] : D \in SUBSET Mixtures}
Entries == [m : Mixtures, expected : Nat, made : SUBSET Changes]

StageRecords ==
  [kind : {"ProcessTurfs", "React", "Equalize", "ExcitedGroups"},
   frontier : Seq(Turfs), token : Nat, next : Nat \ {0}, nodes : Seq(Turfs), done : Nat,
   input : Inputs, seenMixtures : SUBSET Mixtures, staged : Nat,
   active : SUBSET Mixtures, visited : SUBSET Turfs, queue : Seq(Turfs),
   computed : BOOLEAN, entries : Seq(Entries), entered : Nat,
   publishedMixtures : SUBSET Mixtures]

(* What is known of the tokens beyond u: nothing has used them. *)
Unused(mm, lg, u) ==
  /\ \A k \in Tokens : k > u => mm.tok[k] = "PENDING"
  /\ \A m \in Mixtures : mm.pend[m].token <= u
  /\ \A i \in DOMAIN lg : lg[i][1] = "stage" => lg[i][2] <= u

(* The mixtures whose captured contents the candidates of s may be made of *)
(* and the contents made of those of S.                                    *)
Relied(s) ==
  IF s.kind = "ProcessTurfs" THEN DOMAIN s.input
    ELSE {s.entries[i].m : i \in DOMAIN s.entries}

MadeOf(s, S) == {<<"stage", s.token>>} \union UNION {s.input[n].made : n \in S}

Pending(s, mm) == mm.tok[s.token] = "PENDING"

(* A candidate is the visible value itself or the next one, made of what   *)
(* the stage captured.                                                     *)
Justified(s, mm, m) ==
  \/ mm.pend[m].value = Visible(mm, m)
  \/ /\ mm.pend[m].value.rev = Visible(mm, m).rev + 1
     /\ mm.pend[m].value.rev <= MaxRevision
     /\ \/ /\ s.kind = "React"
           /\ mm.pend[m].value.made = Visible(mm, m).made \union {<<"stage", s.token>>}
        \/ /\ s.kind # "React"
           /\ \E S \in SUBSET Relied(s) :
                m \in S /\ mm.pend[m].value.made = MadeOf(s, S)

(* A captured input whose revision is still the visible one is still what  *)
(* is visible.                                                             *)
InputsTold(s, mm) ==
  \A m \in DOMAIN s.input :
    /\ s.input[m].rev <= Visible(mm, m).rev
    /\ s.input[m].rev = Visible(mm, m).rev => s.input[m] = Visible(mm, m)

CarriersSound(s, mm) ==
  \A m \in Mixtures : Carries(mm, m, s.token) =>
    /\ m \in DOMAIN s.input => s.input[m] = Visible(mm, m)
    /\ Justified(s, mm, m)

(* ProcessTurfs: every captured mixture carries a candidate. *)
DiffusionReady(s, mm) ==
  s.kind = "ProcessTurfs" =>
    /\ \A i \in DOMAIN s.nodes :
         /\ Home[s.nodes[i]] \in DOMAIN s.input
         /\ Home[s.nodes[i]] \notin Immutable => s.input[Home[s.nodes[i]]].rev < MaxRevision
    /\ Pending(s, mm) => \A m \in DOMAIN s.input : Carries(mm, m, s.token)

(* React: a mixture that was suspended when it began carries none. *)
ReactReady(s, mm) ==
  s.kind = "React" =>
    DOMAIN s.input = {} /\ \A m \in s.active : ~Carries(mm, m, s.token)

(* The component stages: an entry is made of captured mixtures that all    *)
(* have entries, and the entries so far carry a candidate.                 *)
EntrySound(s, e) ==
  /\ e.m \in DOMAIN s.input /\ e.expected = s.input[e.m].rev
  /\ \/ e.made = s.input[e.m].made
     \/ \E S \in SUBSET Relied(s) : e.m \in S /\ e.made = MadeOf(s, S)

ComponentReady(s, mm) ==
  ComponentKind(s) =>
    /\ \A i \in DOMAIN s.queue : i <= s.done => Home[s.queue[i]] \in DOMAIN s.input
    /\ s.computed => Len(s.queue) > 0
    /\ ~s.computed => /\ Len(s.entries) = 0 /\ s.entered = 0
                      /\ \A m \in Mixtures : ~Carries(mm, m, s.token)
    /\ \A i \in DOMAIN s.entries : EntrySound(s, s.entries[i])
    /\ Pending(s, mm) => \A i \in DOMAIN s.entries :
                           i <= s.entered => Carries(mm, s.entries[i].m, s.token)

(* Every component takes a token and visits a turf. *)
TokensLeft(s) ==
  ComponentKind(s) =>
    s.token + Cardinality(Turfs \ s.visited) + (IF Len(s.queue) = 0 THEN 0 ELSE 1) <= MaxTokens

Ready(s, mm, lg) ==
  /\ s \in StageRecords /\ s.token \in Tokens /\ mm.tok[s.token] # "PUBLISHED"
  /\ \A i \in DOMAIN lg : lg[i] # <<"stage", s.token>>
  /\ TokensLeft(s) /\ InputsTold(s, mm)
  /\ Pending(s, mm) => CarriersSound(s, mm)
  /\ DiffusionReady(s, mm) /\ ReactReady(s, mm) /\ ComponentReady(s, mm)

(* A change is in the log once, and only changes in the log are visible. *)
LogOK ==
  /\ log \in Seq(Changes)
  /\ \A i, j \in DOMAIN log : log[i] = log[j] => i = j
  /\ \A i \in DOMAIN log : log[i][1] = "command" => log[i][2] <= Commands

VisibleOK ==
  \A m \in Mixtures :
    /\ Vis(m).rev \in 1..MaxRevision
    /\ \A c \in Vis(m).made : \E i \in DOMAIN log : log[i] = c

PoolOK ==
  /\ events \in 0..MaxEvents
  /\ suspended \in [Slots -> Mixtures \union {NoMixture}]
  /\ held \subseteq Suspended

StageOK ==
  \/ stage = NoStage
  \/ /\ Ready(stage, mem, log) /\ used = stage.token
     /\ stage.kind = "React" => held \subseteq stage.active

StageInv ==
  /\ mem \in Memories /\ used \in 0..MaxTokens
  /\ Unused(mem, log, used) /\ LogOK /\ VisibleOK /\ PoolOK /\ StageOK

(***************************************************************************)
(* Versioned records.                                                      *)
(***************************************************************************)
LEMMA MemoryFacts ==
  ASSUME NEW mm \in Memories, NEW m \in Mixtures
  PROVE  /\ mm.cur[m] \in Value /\ mm.pend[m] \in Candidates /\ Visible(mm, m) \in Value
         /\ mm.pend[m] = NoCandidate => mm.pend[m].token = 0
         /\ mm.pend[m] # NoCandidate => mm.pend[m].token \in Tokens /\ mm.pend[m].value \in Value
         /\ mm.pend[m].token \in Tokens => mm.pend[m] # NoCandidate
<1>1. mm.cur[m] \in Value /\ mm.pend[m] \in Candidates
  BY DEF Memories
<1>2. NoCandidate.token = 0 /\ 0 \notin Tokens
  BY DEF NoCandidate, Tokens
<1>3. mm.pend[m] # NoCandidate => mm.pend[m].token \in Tokens /\ mm.pend[m].value \in Value
  BY <1>1 DEF Candidates
<1>4. Visible(mm, m) \in Value
  BY <1>1, <1>3 DEF Visible, CandidateVisible
<1> QED
  BY <1>1, <1>2, <1>3, <1>4

\* What is visible of a record, by its candidate's token.
LEMMA VisibleFacts ==
  ASSUME NEW mm \in Memories, NEW m \in Mixtures
  PROVE  /\ mm.pend[m] = NoCandidate => Visible(mm, m) = mm.cur[m]
         /\ \A k \in Tokens : Carries(mm, m, k) =>
              Visible(mm, m) = IF mm.tok[k] = "PUBLISHED" THEN mm.pend[m].value ELSE mm.cur[m]
<1>1. NoCandidate.token = 0 /\ 0 \notin Tokens
  BY DEF NoCandidate, Tokens
<1> QED
  BY <1>1 DEF Visible, CandidateVisible, Carries

\* Taking records for writing changes nothing that is visible.
LEMMA TakenFacts ==
  ASSUME NEW mm \in Memories, NEW R \in SUBSET Mixtures, NEW t, t = TakenForWriting(mm, R)
  PROVE  /\ t \in Memories
         /\ \A m \in Mixtures : Visible(t, m) = Visible(mm, m)
         /\ \A m \in Mixtures : t.pend[m] = IF m \in R THEN NoCandidate ELSE mm.pend[m]
         /\ \A m \in R : t.cur[m] = Visible(mm, m)
         /\ \A m \in Mixtures \ R : t.cur[m] = mm.cur[m]
         /\ \A k \in Tokens : t.tok[k] = mm.tok[k]
                              \/ (mm.tok[k] = "PENDING" /\ t.tok[k] = "CONFLICTED")
         /\ \A k \in Tokens : (\A m \in R : ~Carries(mm, m, k)) => t.tok[k] = mm.tok[k]
         /\ \A k \in Tokens, m \in R :
              Carries(mm, m, k) /\ mm.tok[k] = "PENDING" => t.tok[k] = "CONFLICTED"
<1>0. /\ DOMAIN mm.cur = Mixtures /\ DOMAIN mm.pend = Mixtures /\ DOMAIN mm.tok = Tokens
      /\ mm.tok \in [Tokens -> TokenStates]
  BY DEF Memories
<1>1. /\ t.cur = [m \in Mixtures |-> IF m \in R THEN Visible(mm, m) ELSE mm.cur[m]]
      /\ t.pend = [m \in Mixtures |-> IF m \in R THEN NoCandidate ELSE mm.pend[m]]
      /\ t.tok = [k \in Tokens |->
                    IF mm.tok[k] = "PENDING" /\ \E r \in R : Carries(mm, r, k)
                      THEN "CONFLICTED" ELSE mm.tok[k]]
      /\ t = [cur |-> t.cur, pend |-> t.pend, tok |-> t.tok]
  BY <1>0 DEF TakenForWriting
<1>2. t.cur \in [Mixtures -> Value]
  BY <1>1, MemoryFacts
<1>3. t.pend \in [Mixtures -> Candidates]
  <2>1. NoCandidate \in Candidates
    BY DEF Candidates
  <2> QED
    BY <1>1, <2>1, MemoryFacts
<1>4. t.tok \in [Tokens -> TokenStates]
  BY <1>0, <1>1 DEF TokenStates
<1>5. t \in Memories
  BY <1>1, <1>2, <1>3, <1>4 DEF Memories
<1>6. \A k \in Tokens : t.tok[k] = "PUBLISHED" <=> mm.tok[k] = "PUBLISHED"
  BY <1>1
<1>7. ASSUME NEW m \in Mixtures
      PROVE  Visible(t, m) = Visible(mm, m)
  <2>1. CASE m \in R
    BY <1>1, <1>5, <2>1, VisibleFacts
  <2>2. CASE m \notin R
    <3>1. t.pend[m] = mm.pend[m] /\ t.cur[m] = mm.cur[m]
      BY <1>1, <2>2
    <3> QED
      BY <1>6, <3>1, MemoryFacts DEF Visible, CandidateVisible
  <2> QED
    BY <2>1, <2>2
<1> QED
  BY <1>1, <1>5, <1>7

\* A write changes one record.
LEMMA WrittenFacts ==
  ASSUME NEW mm \in Memories, NEW m \in Mixtures, NEW v \in Value, NEW t, t = Written(mm, m, v)
  PROVE  /\ t \in Memories /\ Visible(t, m) = v
         /\ \A n \in Mixtures : n # m => Visible(t, n) = Visible(mm, n)
         /\ \A n \in Mixtures : t.pend[n] = IF n = m THEN NoCandidate ELSE mm.pend[n]
         /\ \A k \in Tokens : t.tok[k] = mm.tok[k]
                              \/ (mm.tok[k] = "PENDING" /\ t.tok[k] = "CONFLICTED")
         /\ \A k \in Tokens : Carries(mm, m, k) /\ mm.tok[k] = "PENDING" => t.tok[k] = "CONFLICTED"
         /\ \A k \in Tokens : ~Carries(mm, m, k) => t.tok[k] = mm.tok[k]
<1> DEFINE u == TakenForWriting(mm, {m})
<1>1. /\ u \in Memories
      /\ \A n \in Mixtures : Visible(u, n) = Visible(mm, n)
      /\ \A n \in Mixtures : u.pend[n] = IF n = m THEN NoCandidate ELSE mm.pend[n]
      /\ \A k \in Tokens : u.tok[k] = mm.tok[k]
                           \/ (mm.tok[k] = "PENDING" /\ u.tok[k] = "CONFLICTED")
      /\ \A k \in Tokens : Carries(mm, m, k) /\ mm.tok[k] = "PENDING" => u.tok[k] = "CONFLICTED"
      /\ \A k \in Tokens : ~Carries(mm, m, k) => u.tok[k] = mm.tok[k]
  BY TakenFacts
<1>2. t = [u EXCEPT !.cur[m] = v]
  BY DEF Written
<1> HIDE DEF u
<1>3. t \in Memories
  BY <1>1, <1>2 DEF Memories
<1>4. t.pend = u.pend /\ t.tok = u.tok /\ t.cur[m] = v /\ \A n \in Mixtures \ {m} : t.cur[n] = u.cur[n]
  BY <1>1, <1>2 DEF Memories
<1>5. Visible(t, m) = v
  BY <1>1, <1>3, <1>4, VisibleFacts
<1>6. \A n \in Mixtures : n # m => Visible(t, n) = Visible(u, n)
  BY <1>4 DEF Visible, CandidateVisible
<1> QED
  BY <1>1, <1>3, <1>4, <1>5, <1>6

\* Staging under a token that is not published shows nothing.
StagedOK(mm, D, f, k, t) ==
  /\ t \in Memories
  /\ \A m \in Mixtures : Visible(t, m) = Visible(mm, m)
  /\ \A m \in D : Carries(t, m, k) /\ t.pend[m].value = f[m]
  /\ \A m \in Mixtures : m \notin D => t.pend[m] = mm.pend[m]
  /\ t.tok[k] = mm.tok[k]
  /\ \A j \in Tokens : t.tok[j] = mm.tok[j]
                       \/ (mm.tok[j] = "PENDING" /\ t.tok[j] = "CONFLICTED" /\ j # k
                            /\ \E m \in Mixtures : Carries(mm, m, j))

LEMMA StagedFacts ==
  ASSUME NEW mm \in Memories, NEW D \in SUBSET Mixtures, NEW f \in [D -> Value],
         NEW k \in Tokens, mm.tok[k] # "PUBLISHED", NEW t, t = Staged(mm, f, k)
  PROVE  StagedOK(mm, D, f, k, t)
<1> DEFINE R == {m \in D : ~Carries(mm, m, k)}
           u == TakenForWriting(mm, R)
           g == [m \in Mixtures |-> IF m \in D THEN [token |-> k, value |-> f[m]] ELSE u.pend[m]]
<1>0. R \in SUBSET Mixtures
  OBVIOUS
<1>1. /\ u \in Memories
      /\ \A m \in Mixtures : Visible(u, m) = Visible(mm, m)
      /\ \A m \in Mixtures : u.pend[m] = IF m \in R THEN NoCandidate ELSE mm.pend[m]
      /\ \A m \in R : u.cur[m] = Visible(mm, m)
      /\ \A m \in Mixtures \ R : u.cur[m] = mm.cur[m]
      /\ \A j \in Tokens : u.tok[j] = mm.tok[j]
                           \/ (mm.tok[j] = "PENDING" /\ u.tok[j] = "CONFLICTED")
      /\ \A j \in Tokens : (\A m \in R : ~Carries(mm, m, j)) => u.tok[j] = mm.tok[j]
  BY <1>0, TakenFacts
<1>2. t = [u EXCEPT !.pend = g]
  <2>1. DOMAIN f = D /\ DOMAIN mm.pend = Mixtures
    BY DEF Memories
  <2> QED
    BY <2>1 DEF Staged
<1>3. u.tok[k] = mm.tok[k]
  BY <1>1
<1> HIDE DEF u
<1>4. g \in [Mixtures -> Candidates]
  <2>1. \A m \in D : [token |-> k, value |-> f[m]] \in Candidates
    BY DEF Candidates
  <2> QED
    BY <1>1, <2>1, MemoryFacts
<1> HIDE DEF R
<1>5. t \in Memories /\ t.pend = g /\ t.cur = u.cur /\ t.tok = u.tok
  <2> HIDE DEF g
  <2> QED
    BY <1>1, <1>2, <1>4 DEF Memories
<1>6. \A m \in D : Carries(t, m, k) /\ t.pend[m].value = f[m]
  BY <1>5 DEF Carries
<1>7. \A m \in Mixtures : m \notin D => t.pend[m] = mm.pend[m]
  BY <1>1, <1>5 DEF R
<1>8. ASSUME NEW m \in Mixtures
      PROVE  Visible(t, m) = Visible(mm, m)
  <2>1. CASE m \in D
    <3>1. Visible(t, m) = u.cur[m]
      <4>1. Carries(t, m, k) /\ t.tok[k] # "PUBLISHED" /\ t.cur[m] = u.cur[m]
        BY <1>3, <1>5, <1>6, <2>1
      <4> QED
        BY <1>5, <4>1, VisibleFacts
    <3>2. CASE m \in R
      BY <1>1, <3>1, <3>2
    <3>3. CASE m \notin R
      <4>1. Carries(mm, m, k)
        BY <2>1, <3>3 DEF R
      <4> QED
        BY <1>1, <3>1, <3>3, <4>1, VisibleFacts
    <3> QED
      BY <3>2, <3>3
  <2>2. CASE m \notin D
    <3>1. t.pend[m] = u.pend[m] /\ t.cur[m] = u.cur[m] /\ t.tok = u.tok
      BY <1>5, <2>2
    <3> QED
      BY <1>1, <3>1 DEF Visible, CandidateVisible
  <2> QED
    BY <2>1, <2>2
<1>9. \A j \in Tokens : t.tok[j] = mm.tok[j]
                        \/ (mm.tok[j] = "PENDING" /\ t.tok[j] = "CONFLICTED" /\ j # k
                             /\ \E m \in Mixtures : Carries(mm, m, j))
  BY <1>0, <1>1, <1>3, <1>5
<1> QED
  BY <1>3, <1>5, <1>6, <1>7, <1>8, <1>9 DEF StagedOK

\* Preparing gives the visible value to the records that have no candidate of the token.
PreparedOK(mm, R, k, t) ==
  /\ t \in Memories
  /\ \A m \in Mixtures : Visible(t, m) = Visible(mm, m)
  /\ \A m \in R : Carries(t, m, k)
  /\ \A m \in R : ~Carries(mm, m, k) => t.pend[m].value = Visible(mm, m)
  /\ \A m \in Mixtures : Carries(mm, m, k) \/ m \notin R => t.pend[m] = mm.pend[m]
  /\ t.tok[k] = mm.tok[k]
  /\ \A j \in Tokens : t.tok[j] = mm.tok[j]
                       \/ (mm.tok[j] = "PENDING" /\ t.tok[j] = "CONFLICTED" /\ j # k
                            /\ \E m \in Mixtures : Carries(mm, m, j))

LEMMA PreparedFacts ==
  ASSUME NEW mm \in Memories, NEW R \in SUBSET Mixtures,
         NEW k \in Tokens, mm.tok[k] # "PUBLISHED", NEW t, t = Prepared(mm, R, k)
  PROVE  PreparedOK(mm, R, k, t)
<1> DEFINE D == {x \in R : ~Carries(mm, x, k)}
           f == [m \in D |-> Visible(mm, m)]
<1>1. f \in [D -> Value] /\ D \in SUBSET Mixtures /\ \A m \in D : f[m] = Visible(mm, m)
  BY MemoryFacts
<1>2. t = Staged(mm, f, k)
  BY DEF Prepared
<1> HIDE DEF f
<1> HIDE DEF D
<1>3. StagedOK(mm, D, f, k, t)
  BY <1>1, <1>2, StagedFacts
<1> QED
  BY <1>1, <1>3 DEF StagedOK, PreparedOK, Carries, D

\* Publishing shows the candidates of the token and nothing else.
LEMMA PublishedFacts ==
  ASSUME NEW mm \in Memories, NEW k \in Tokens, mm.tok[k] = "PENDING",
         NEW t, t = Published(mm, k)
  PROVE  /\ t \in Memories /\ t.pend = mm.pend
         /\ \A m \in Mixtures :
              Visible(t, m) = IF Carries(mm, m, k) THEN mm.pend[m].value ELSE Visible(mm, m)
         /\ \A j \in Tokens : j # k => t.tok[j] = mm.tok[j]
<1>1. t = [mm EXCEPT !.tok[k] = "PUBLISHED"]
  BY DEF Published
<1>2. /\ t \in Memories /\ t.pend = mm.pend /\ t.cur = mm.cur /\ t.tok[k] = "PUBLISHED"
      /\ \A j \in Tokens : j # k => t.tok[j] = mm.tok[j]
  BY <1>1 DEF Memories, TokenStates
<1>3. ASSUME NEW m \in Mixtures, Carries(mm, m, k)
      PROVE  Visible(t, m) = mm.pend[m].value
  BY <1>2, <1>3, VisibleFacts DEF Carries
<1>4. ASSUME NEW m \in Mixtures, ~Carries(mm, m, k)
      PROVE  Visible(t, m) = Visible(mm, m)
  BY <1>2, <1>4, MemoryFacts DEF Visible, CandidateVisible, Carries
<1> QED
  BY <1>2, <1>3, <1>4

(***************************************************************************)
(* Sequences of a set, and what a stage captured.                          *)
(***************************************************************************)
LEMMA SetToSeqFacts ==
  ASSUME NEW S, IsFiniteSet(S), NEW q, q = SetToSeq(S)
  PROVE  /\ q \in Seq(S) /\ Len(q) = Cardinality(S)
         /\ \A i \in DOMAIN q : q[i] \in S
         /\ \A x \in S : \E i \in DOMAIN q : q[i] = x
<1> DEFINE n == Cardinality(S)
<1>1. n \in Nat /\ ExistsBijection(1..n, S)
  BY FS_CardinalityType
<1>2. \E f \in [1..n -> S] : IsInjective(f)
  BY <1>1 DEF ExistsBijection, Bijection, Injection, IsInjective
<1>3. q \in [1..n -> S] /\ IsInjective(q)
  BY <1>2 DEF SetToSeq
<1>4. q \in Injection(1..n, S)
  BY <1>3 DEF Injection, IsInjective
<1>5. IsFiniteSet(1..n) /\ Cardinality(1..n) = n
  BY <1>1, FS_Interval
<1>6. q \in Surjection(1..n, S)
  BY <1>4, <1>5, FS_Injection
<1> HIDE DEF n
<1>7. q \in Seq(S) /\ Len(q) = n /\ DOMAIN q = 1..n
  BY <1>1, <1>3 DEF Seq
<1> QED
  BY <1>3, <1>6, <1>7 DEF Surjection, n

LEMMA InputFacts ==
  ASSUME NEW s \in StageRecords
  PROVE  /\ DOMAIN s.input \subseteq Mixtures /\ s.input \in [DOMAIN s.input -> Value]
         /\ \A m \in DOMAIN s.input : /\ s.input[m] \in Value /\ s.input[m].rev \in Nat
                                      /\ s.input[m].made \in SUBSET Changes
<1>1. s.input \in Inputs
  BY DEF StageRecords
<1>2. PICK D \in SUBSET Mixtures : s.input \in [D -> Value]
  BY <1>1 DEF Inputs
<1>3. DOMAIN s.input = D
  BY <1>2
<1> QED
  BY <1>2, <1>3 DEF Value

\* A command between two chunks leaves a stage as ready as it was: it changes no
\* record that carries the stage's token without taking the token's publication away.
LEMMA ReadyAfterWrite ==
  ASSUME NEW mm \in Memories, NEW m2 \in Memories, NEW s, NEW lg, NEW lg2, Ready(s, mm, lg),
         \A m \in Mixtures : m2.pend[m] = mm.pend[m] \/ m2.pend[m] = NoCandidate,
         m2.tok[s.token] = mm.tok[s.token] \/ m2.tok[s.token] = "CONFLICTED",
         m2.tok[s.token] = "PENDING" => \A m \in Mixtures : Carries(mm, m, s.token) =>
           m2.pend[m] = mm.pend[m] /\ Visible(m2, m) = Visible(mm, m),
         \A m \in Mixtures : Visible(m2, m) = Visible(mm, m)
                             \/ Visible(mm, m).rev < Visible(m2, m).rev,
         \A i \in DOMAIN lg2 : lg2[i] # <<"stage", s.token>>
  PROVE  Ready(s, m2, lg2)
<1>0. s \in StageRecords /\ s.token \in Tokens /\ 0 \notin Tokens /\ NoCandidate.token = 0
  BY DEF Ready, Tokens, NoCandidate
<1>1. m2.tok[s.token] # "PUBLISHED" /\ (Pending(s, m2) => Pending(s, mm))
  BY DEF Ready, Pending
<1>2. \A m \in Mixtures : Carries(m2, m, s.token) => Carries(mm, m, s.token)
  BY <1>0 DEF Carries
<1>3. Pending(s, m2) => \A m \in Mixtures :
        /\ Carries(m2, m, s.token) <=> Carries(mm, m, s.token)
        /\ Carries(mm, m, s.token) =>
             m2.pend[m] = mm.pend[m] /\ Visible(m2, m) = Visible(mm, m)
  BY <1>2 DEF Carries, Pending
<1>4. InputsTold(s, m2)
  <2> SUFFICES ASSUME NEW m \in DOMAIN s.input
               PROVE  /\ s.input[m].rev <= Visible(m2, m).rev
                      /\ s.input[m].rev = Visible(m2, m).rev => s.input[m] = Visible(m2, m)
    BY DEF InputsTold
  <2>1. m \in Mixtures /\ s.input[m].rev \in Nat
    BY <1>0, InputFacts
  <2>2. Visible(mm, m).rev \in Nat /\ Visible(m2, m).rev \in Nat
    BY <2>1, MemoryFacts DEF Value
  <2>3. /\ s.input[m].rev <= Visible(mm, m).rev
        /\ s.input[m].rev = Visible(mm, m).rev => s.input[m] = Visible(mm, m)
    BY DEF Ready, InputsTold
  <2> QED
    BY <2>1, <2>2, <2>3
<1>5. Pending(s, m2) => CarriersSound(s, m2)
  <2> SUFFICES ASSUME Pending(s, m2), NEW m \in Mixtures, Carries(m2, m, s.token)
               PROVE  /\ m \in DOMAIN s.input => s.input[m] = Visible(m2, m)
                      /\ Justified(s, m2, m)
    BY DEF CarriersSound
  <2>1. /\ m \in DOMAIN s.input => s.input[m] = Visible(mm, m)
        /\ Justified(s, mm, m)
    BY <1>1, <1>3 DEF Ready, CarriersSound
  <2>2. m2.pend[m] = mm.pend[m] /\ Visible(m2, m) = Visible(mm, m)
    BY <1>3
  <2> QED
    BY <2>1, <2>2 DEF Justified
<1>6. DiffusionReady(s, m2)
  BY <1>0, <1>1, <1>3, InputFacts DEF Ready, DiffusionReady
<1>7. ReactReady(s, m2)
  <2>1. s.active \subseteq Mixtures
    BY <1>0 DEF StageRecords
  <2> QED
    BY <1>2, <2>1 DEF Ready, ReactReady
<1>8. ComponentReady(s, m2)
  <2>1. \A i \in DOMAIN s.entries : s.entries[i].m \in Mixtures
    <3>1. s.entries \in Seq(Entries)
      BY <1>0 DEF StageRecords
    <3>2. \A i \in DOMAIN s.entries : s.entries[i] \in Entries
      BY <3>1, ElementOfSeq, LenProperties
    <3> QED
      BY <3>2 DEF Entries
  <2> QED
    BY <1>1, <1>2, <1>3, <2>1 DEF Ready, ComponentReady
<1> QED
  BY <1>1, <1>4, <1>5, <1>6, <1>7, <1>8 DEF Ready

(***************************************************************************)
(* The log of changes.                                                     *)
(***************************************************************************)
LEMMA LogFacts ==
  ASSUME LogOK
  PROVE  /\ Len(log) \in Nat /\ DOMAIN log = 1..Len(log)
         /\ \A i \in DOMAIN log : log[i] \in Changes
         /\ Commands \in Nat
<1>1. Len(log) \in Nat /\ DOMAIN log = 1..Len(log) /\ \A i \in DOMAIN log : log[i] \in Changes
  BY ElementOfSeq, LenProperties DEF LogOK
<1>2. IsFiniteSet(DOMAIN log)
  BY <1>1, FS_Interval
<1>3. IsFiniteSet({i \in DOMAIN log : log[i][1] = "command"})
  BY <1>2, FS_Subset
<1> QED
  BY <1>1, <1>3, FS_CardinalityType DEF Commands

\* The next command has a number of its own.
LEMMA CommandFresh ==
  ASSUME LogOK
  PROVE  \A i \in DOMAIN log : log[i] # <<"command", Commands + 1>>
<1> SUFFICES ASSUME NEW i \in DOMAIN log, log[i] = <<"command", Commands + 1>>
             PROVE  FALSE
  OBVIOUS
<1>1. log[i][1] = "command" /\ log[i][2] = Commands + 1
  OBVIOUS
<1> QED
  BY <1>1, LogFacts DEF LogOK

LEMMA LogGrows ==
  ASSUME LogOK, NEW c \in Changes, log' = Append(log, c), \A i \in DOMAIN log : log[i] # c,
         c[1] = "command" => c[2] = Commands + 1
  PROVE  /\ LogOK' /\ Len(log') = Len(log) + 1 /\ DOMAIN log' = DOMAIN log \union {Len(log) + 1}
         /\ \A i \in DOMAIN log : log'[i] = log[i]
         /\ log'[Len(log) + 1] = c /\ Len(log) + 1 \notin DOMAIN log
<1> DEFINE n == Len(log)
           A == {i \in DOMAIN log : log[i][1] = "command"}
           B == {i \in DOMAIN log' : log'[i][1] = "command"}
<1>1. n \in Nat /\ DOMAIN log = 1..n /\ Commands \in Nat
  BY LogFacts
<1>2. /\ log' \in Seq(Changes) /\ Len(log') = n + 1 /\ DOMAIN log' = 1..(n + 1)
      /\ \A i \in 1..n : log'[i] = log[i]
      /\ log'[n + 1] = c
  BY <1>1, AppendProperties, LenProperties DEF LogOK
<1> HIDE DEF n
<1>3. DOMAIN log' = DOMAIN log \union {n + 1} /\ n + 1 \notin DOMAIN log
  BY <1>1, <1>2
<1>4. \A i \in DOMAIN log : log'[i] = log[i]
  BY <1>1, <1>2
<1>5. \A i, j \in DOMAIN log' : log'[i] = log'[j] => i = j
  BY <1>2, <1>3, <1>4 DEF LogOK
<1>6. IsFiniteSet(A)
  <2>1. IsFiniteSet(1..n) /\ A \subseteq 1..n
    BY <1>1, FS_Interval
  <2> QED
    BY <2>1, FS_Subset
<1>7. Commands' = IF c[1] = "command" THEN Commands + 1 ELSE Commands
  <2>1. CASE c[1] = "command"
    <3>1. B = A \union {n + 1} /\ n + 1 \notin A
      BY <1>2, <1>3, <1>4, <2>1
    <3>2. Cardinality(A \union {n + 1}) = Cardinality(A) + 1
      BY <1>6, <3>1, FS_AddElement
    <3> QED
      BY <2>1, <3>1, <3>2 DEF Commands
  <2>2. CASE c[1] # "command"
    <3>1. B = A
      BY <1>2, <1>3, <1>4, <2>2
    <3> QED
      BY <2>2, <3>1 DEF Commands
  <2> QED
    BY <2>1, <2>2
<1>8. \A i \in DOMAIN log' : log'[i][1] = "command" => log'[i][2] <= Commands'
  <2>1. ASSUME NEW i \in DOMAIN log, log'[i][1] = "command"
        PROVE  log'[i][2] <= Commands'
    <3>1. log[i][2] <= Commands /\ log[i][2] \in Nat
      BY <1>4, <2>1, LogFacts DEF LogOK, Changes
    <3> QED
      BY <1>1, <1>4, <1>7, <3>1
  <2>2. c[1] = "command" => c[2] <= Commands'
    BY <1>1, <1>7
  <2> QED
    BY <1>2, <1>3, <2>1, <2>2
<1> QED
  BY <1>2, <1>3, <1>4, <1>5, <1>8 DEF LogOK, n

(***************************************************************************)
(* What a step shows: nothing, or one change.                              *)
(***************************************************************************)
Quiet == log' = log /\ \A m \in Mixtures : Vis(m)' = Vis(m)

Shown(c) ==
  /\ c \in Changes /\ log' = Append(log, c)
  /\ \A i \in DOMAIN log : log[i] # c
  /\ c[1] = "command" => c[2] = Commands + 1
  /\ \A m \in Mixtures :
       \/ Vis(m)' = Vis(m)
       \/ /\ Vis(m)'.rev = Vis(m).rev + 1 /\ Vis(m)'.rev <= MaxRevision
          /\ \E S \in SUBSET Mixtures :
               Vis(m)'.made = {c} \union UNION {Vis(n).made : n \in S \union {m}}

LEMMA QuietKeeps ==
  ASSUME LogOK, VisibleOK, Quiet
  PROVE  LogOK' /\ VisibleOK'
<1>1. LogOK'
  BY DEF LogOK, Quiet, Commands
<1> QED
  BY <1>1 DEF VisibleOK, Quiet

LEMMA ShownKeeps ==
  ASSUME LogOK, VisibleOK, mem \in Memories, MaxRevision \in Nat, NEW c, Shown(c)
  PROVE  LogOK' /\ VisibleOK'
<1>1. /\ LogOK' /\ DOMAIN log' = DOMAIN log \union {Len(log) + 1}
      /\ \A i \in DOMAIN log : log'[i] = log[i]
      /\ log'[Len(log) + 1] = c
  BY LogGrows DEF Shown
<1>2. ASSUME NEW m \in Mixtures
      PROVE  Vis(m)'.rev \in 1..MaxRevision
  <2>1. Vis(m).rev \in 1..MaxRevision
    BY DEF VisibleOK
  <2> QED
    BY <2>1 DEF Shown
<1>3. ASSUME NEW m \in Mixtures, NEW x \in Vis(m)'.made
      PROVE  \E i \in DOMAIN log' : log'[i] = x
  <2>1. x = c \/ \E n \in Mixtures : x \in Vis(n).made
    BY <1>3 DEF Shown
  <2>2. CASE x = c
    BY <1>1, <2>2
  <2>3. CASE \E n \in Mixtures : x \in Vis(n).made
    BY <1>1, <2>3 DEF VisibleOK
  <2> QED
    BY <2>1, <2>2, <2>3
<1> QED
  BY <1>1, <1>2, <1>3 DEF VisibleOK

\* A publication over fresh inputs shows one change, made of what is visible now.
LEMMA PublishShows ==
  ASSUME mem \in Memories, LogOK, NEW s, NEW m2 \in Memories, Ready(s, m2, log),
         Pending(s, m2), \A m \in Mixtures : Visible(m2, m) = Vis(m),
         s.kind # "React" =>
           \A n \in Relied(s) : n \in DOMAIN s.input /\ Carries(m2, n, s.token),
         Unused(m2, log, s.token),
         mem' = Published(m2, s.token), log' = Append(log, <<"stage", s.token>>)
  PROVE  /\ Shown(<<"stage", s.token>>)
         /\ mem' \in Memories /\ mem'.pend = m2.pend /\ Unused(mem', log', s.token)
<1> DEFINE c == <<"stage", s.token>>
<1>0. s \in StageRecords /\ s.token \in Tokens /\ s.token \in Nat
  BY DEF Ready, Tokens
<1>1. c \in Changes /\ c[1] = "stage" /\ c[2] = s.token /\ \A i \in DOMAIN log : log[i] # c
  BY <1>0 DEF Changes, Ready
<1>2. /\ mem' \in Memories /\ mem'.pend = m2.pend
      /\ \A m \in Mixtures :
           Visible(mem', m) = IF Carries(m2, m, s.token) THEN m2.pend[m].value
                                                         ELSE Visible(m2, m)
      /\ \A j \in Tokens : j # s.token => mem'.tok[j] = m2.tok[j]
  BY <1>0, PublishedFacts DEF Pending
<1>3. ASSUME NEW m \in Mixtures, Vis(m)' # Vis(m)
      PROVE  /\ Vis(m)'.rev = Vis(m).rev + 1 /\ Vis(m)'.rev <= MaxRevision
             /\ \E S \in SUBSET Mixtures :
                  Vis(m)'.made = {c} \union UNION {Vis(n).made : n \in S \union {m}}
  <2> DEFINE v == m2.pend[m].value
  <2>1. Vis(m)' = v /\ Carries(m2, m, s.token) /\ Visible(m2, m) = Vis(m)
    BY <1>2, <1>3 DEF Vis
  <2>2. Justified(s, m2, m) /\ v # Visible(m2, m)
    BY <1>3, <2>1 DEF Ready, CarriersSound
  <2>3. v.rev = Vis(m).rev + 1 /\ v.rev <= MaxRevision
    BY <2>1, <2>2 DEF Justified
  <2>4. CASE s.kind = "React"
    <3>1. v.made = Vis(m).made \union {c}
      BY <2>1, <2>2, <2>4 DEF Justified
    <3>2. v.made = {c} \union UNION {Vis(n).made : n \in {} \union {m}}
      BY <3>1
    <3> QED
      BY <2>1, <2>3, <3>2
  <2>5. CASE s.kind # "React"
    <3>1. PICK S \in SUBSET Relied(s) : m \in S /\ v.made = MadeOf(s, S)
      BY <2>2, <2>5 DEF Justified
    <3>2. S \in SUBSET Mixtures
      BY <1>0, <2>5, <3>1, InputFacts
    <3>3. \A n \in S : s.input[n] = Vis(n)
      BY <1>0, <2>5, <3>1, <3>2 DEF Ready, CarriersSound
    <3>4. v.made = {c} \union UNION {Vis(n).made : n \in S \union {m}}
      BY <3>1, <3>3 DEF MadeOf
    <3> HIDE DEF v
    <3> QED
      BY <2>1, <2>3, <3>2, <3>4
  <2> QED
    BY <2>4, <2>5
<1>4. Shown(c)
  BY <1>1, <1>3 DEF Shown
<1>5. Unused(mem', log', s.token)
  <2>1. \A k \in Tokens : k > s.token => mem'.tok[k] = "PENDING"
    BY <1>0, <1>2 DEF Unused, Tokens
  <2>2. \A i \in DOMAIN log' : log'[i][1] = "stage" => log'[i][2] <= s.token
    BY <1>0, <1>1, LogGrows DEF Unused
  <2> QED
    BY <1>2, <2>1, <2>2 DEF Unused
<1> QED
  BY <1>2, <1>4, <1>5

(***************************************************************************)
(* The endings of a work item.                                             *)
(***************************************************************************)
Base ==
  /\ mem \in Memories /\ used \in 0..MaxTokens
  /\ Unused(mem, log, used) /\ LogOK /\ VisibleOK /\ PoolOK

(* The cursor at hand: that of the active stage, or that of a new one. *)
Current(s) ==
  /\ Base /\ Ready(s, mem, log) /\ used <= s.token
  /\ s.kind = "React" => (IF stage = NoStage THEN Suspended ELSE held) \subseteq s.active

LEMMA CurrentUnused ==
  ASSUME NEW s, Current(s)
  PROVE  Unused(mem, log, s.token)
<1>1. s.token \in Nat /\ used \in Nat /\ used <= s.token
  BY DEF Current, Base, Ready, Tokens
<1>2. \A m \in Mixtures : mem.pend[m].token \in Nat
  BY MemoryFacts DEF Current, Base, Tokens
<1>3. \A i \in DOMAIN log : log[i][2] \in Nat
  BY LogFacts DEF Current, Base, Changes
<1>4. \A k \in Tokens : k \in Nat
  BY DEF Tokens
<1> QED
  BY <1>1, <1>2, <1>3, <1>4 DEF Current, Base, Unused

\* The stage is over, with or without a publication.
LEMMA EndKept ==
  ASSUME NEW s, Current(s), End(s), mem' \in Memories, Unused(mem', log', s.token),
         LogOK', VisibleOK', events' \in 0..MaxEvents,
         suspended' \in [Slots -> Mixtures \union {NoMixture}]
  PROVE  StageInv'
<1>1. used' = s.token /\ s.token \in 0..MaxTokens /\ stage' = NoStage /\ held' = {}
  BY DEF End, Current, Ready, Tokens
<1> QED
  BY <1>1 DEF StageInv, PoolOK, StageOK

\* Work is left, and the cursor is ready for it.
LEMMA ContinueKept ==
  ASSUME NEW s, Current(s), NEW s2, Continue(s2), mem' \in Memories, Ready(s2, mem', log'),
         Unused(mem', log', s2.token), s2.kind = s.kind, s2.active = s.active,
         LogOK', VisibleOK', events' \in 0..MaxEvents, UNCHANGED suspended
  PROVE  StageInv'
<1>1. /\ used' = s2.token /\ s2.token \in 0..MaxTokens /\ stage' = s2
      /\ held' = IF stage = NoStage THEN Suspended ELSE held
  BY DEF Continue, Ready, Tokens
<1>2. Suspended' = Suspended
  BY DEF Suspended
<1>3. PoolOK'
  BY <1>1, <1>2 DEF Current, Base, PoolOK
<1>4. StageOK'
  BY <1>1 DEF StageOK, Current
<1> QED
  BY <1>1, <1>3, <1>4 DEF StageInv

\* An item that shows nothing.
LEMMA AbortKept ==
  ASSUME NEW s, Current(s), AbortStage(s), mem' \in Memories, Unused(mem', log, s.token),
         \A m \in Mixtures : Visible(mem', m) = Vis(m)
  PROVE  StageInv' /\ Quiet
<1>1. Quiet /\ End(s) /\ UNCHANGED <<suspended, events, log>>
  BY DEF AbortStage, Quiet, Vis
<1>2. LogOK' /\ VisibleOK'
  BY <1>1, QuietKeeps DEF Current, Base
<1>3. events' \in 0..MaxEvents /\ suspended' \in [Slots -> Mixtures \union {NoMixture}]
  BY <1>1 DEF Current, Base, PoolOK
<1>4. Unused(mem', log', s.token)
  BY <1>1
<1> QED
  BY <1>1, <1>2, <1>3, <1>4, EndKept

LEMMA ProceedKept ==
  ASSUME NEW s, Current(s), NEW s2, NEW m2 \in Memories, Proceed(s2, m2), Ready(s2, m2, log),
         Unused(m2, log, s2.token), s2.kind = s.kind, s2.active = s.active,
         \A m \in Mixtures : Visible(m2, m) = Vis(m)
  PROVE  StageInv' /\ Quiet
<1>1. mem' = m2 /\ Continue(s2) /\ UNCHANGED <<suspended, events, log>>
  BY DEF Proceed
<1>2. Quiet
  BY <1>1 DEF Quiet, Vis
<1>3. LogOK' /\ VisibleOK'
  BY <1>2, QuietKeeps DEF Current, Base
<1>4. events' \in 0..MaxEvents
  BY <1>1 DEF Current, Base, PoolOK
<1> QED
  BY <1>1, <1>2, <1>3, <1>4, ContinueKept

StepOK == Quiet \/ \E c : Shown(c)

\* Staging under the token at hand uses none of the tokens after it.
LEMMA StagedUnused ==
  ASSUME NEW mm \in Memories, NEW m2 \in Memories, NEW k \in Tokens, NEW lg, Unused(mm, lg, k),
         \A m \in Mixtures : m2.pend[m] = mm.pend[m] \/ Carries(m2, m, k),
         \A j \in Tokens : m2.tok[j] = mm.tok[j] \/ \E m \in Mixtures : Carries(mm, m, j)
  PROVE  Unused(m2, lg, k)
<1>1. \A m \in Mixtures : m2.pend[m].token <= k
  BY DEF Unused, Carries, Tokens
<1>2. ASSUME NEW j \in Tokens, j > k
      PROVE  m2.tok[j] = "PENDING"
  <2>1. \A m \in Mixtures : ~Carries(mm, m, j)
    BY <1>2, MemoryFacts DEF Unused, Carries, Tokens
  <2> QED
    BY <1>2, <2>1 DEF Unused
<1> QED
  BY <1>1, <1>2 DEF Unused

\* Readiness does not depend on where the cursor is, except as said.
LEMMA ReadyCursor ==
  ASSUME NEW mm, NEW lg, NEW s, Ready(s, mm, lg), NEW s2 \in StageRecords,
         s2.kind = s.kind, s2.token = s.token, s2.input = s.input, s2.active = s.active,
         s2.visited = s.visited, s2.queue = s.queue, s2.computed = s.computed,
         s2.entries = s.entries, s2.entered = s.entered,
         s2.nodes = s.nodes \/ s.kind # "ProcessTurfs",
         s2.done = s.done \/ ~ComponentKind(s)
  PROVE  Ready(s2, mm, lg)
<1>1. /\ s2.token \in Tokens /\ mm.tok[s2.token] # "PUBLISHED"
      /\ \A i \in DOMAIN lg : lg[i] # <<"stage", s2.token>>
  BY DEF Ready
<1>2. TokensLeft(s2) /\ InputsTold(s2, mm)
  BY DEF Ready, TokensLeft, InputsTold, ComponentKind
<1>3. Pending(s2, mm) => CarriersSound(s2, mm)
  <2>1. Relied(s2) = Relied(s) /\ \A S : MadeOf(s2, S) = MadeOf(s, S)
    BY DEF Relied, MadeOf
  <2>2. \A m \in Mixtures : Justified(s, mm, m) => Justified(s2, mm, m)
    BY <2>1 DEF Justified
  <2> QED
    BY <2>2 DEF Ready, CarriersSound, Pending
<1>4. DiffusionReady(s2, mm) /\ ReactReady(s2, mm)
  BY DEF Ready, DiffusionReady, ReactReady, Pending
<1>5. ComponentReady(s2, mm)
  <2>1. \A e : EntrySound(s, e) => EntrySound(s2, e)
    BY DEF EntrySound, Relied, MadeOf
  <2>2. s.computed \in BOOLEAN
    BY DEF Ready, StageRecords
  <2> QED
    BY <2>1, <2>2 DEF Ready, ComponentReady, Pending, ComponentKind
<1> QED
  BY <1>1, <1>2, <1>3, <1>4, <1>5 DEF Ready

(***************************************************************************)
(* ProcessTurfs.                                                           *)
(***************************************************************************)
WithCapture(s, nodes, mixes, in2, next) ==
  [s EXCEPT !.nodes = nodes, !.seenMixtures = mixes, !.input = in2, !.next = next]

LEMMA CaptureFields ==
  ASSUME NEW s \in StageRecords, NEW nodes \in Seq(Turfs), NEW mixes \in SUBSET Mixtures,
         NEW in2 \in Inputs, NEW next \in Nat \ {0}, NEW s2,
         s2 = WithCapture(s, nodes, mixes, in2, next)
  PROVE  /\ s2 \in StageRecords /\ s2.kind = s.kind /\ s2.active = s.active
         /\ s2.token = s.token /\ s2.nodes = nodes /\ s2.input = in2
  BY DEF StageRecords, WithCapture

(* The next cursor and memory of a WalkDiffusion that does not fail. *)
Walked(s, k, new, ms, s2, m2) ==
  /\ s.kind = "ProcessTurfs" /\ s.next <= Len(s.frontier) /\ k = s.token
  /\ new = Fresh(s, s.frontier[s.next]) /\ RevisionsLeft(new)
  /\ ms = {Home[u] : u \in new}
  /\ s2 = [Capture(s, new) EXCEPT !.next = @ + 1]
  /\ m2 = Prepared(mem, ms, k)

LEMMA WalkedReady ==
  ASSUME StageConstants, NEW s, Current(s), NEW k, NEW new, NEW ms, NEW s2, NEW m2,
         Walked(s, k, new, ms, s2, m2)
  PROVE  /\ m2 \in Memories /\ Ready(s2, m2, log) /\ Unused(m2, log, s.token)
         /\ s2.kind = s.kind /\ s2.active = s.active /\ s2.token = s.token
         /\ \A m \in Mixtures : Visible(m2, m) = Vis(m)
<1> DEFINE q == SetToSeq(new)
           in2 == [m \in DOMAIN s.input \union ms |-> IF m \in ms THEN Vis(m) ELSE s.input[m]]
<1>a. s.token = k /\ s.kind = "ProcessTurfs" /\ Ready(s, mem, log) /\ s \in StageRecords
  BY DEF Current, Ready, Walked
<1>0. k \in Tokens /\ mem.tok[k] # "PUBLISHED" /\ mem \in Memories
  BY <1>a DEF Current, Base, Ready
<1>b. m2 = Prepared(mem, ms, k)
  BY DEF Walked
<1>1. new \subseteq Turfs /\ IsFiniteSet(new)
  <2>1. s.frontier[s.next] \in Turfs
    <3>1. s.frontier \in Seq(Turfs) /\ s.next \in Nat \ {0} /\ s.next <= Len(s.frontier)
      BY <1>a DEF StageRecords, Walked
    <3> QED
      BY <3>1, ElementOfSeq
  <2>2. new \subseteq Turfs
    BY <2>1 DEF Fresh, StageConstants, Turfs, Walked
  <2> QED
    BY <2>2, FS_Subset DEF StageConstants, Turfs
<1>2. ms \in SUBSET Mixtures
  BY <1>1 DEF StageConstants, Turfs, Walked
<1>3. /\ m2 \in Memories
      /\ \A m \in Mixtures : Visible(m2, m) = Visible(mem, m)
      /\ \A m \in ms : Carries(m2, m, k)
      /\ \A m \in ms : ~Carries(mem, m, k) => m2.pend[m].value = Visible(mem, m)
      /\ \A m \in Mixtures : Carries(mem, m, k) \/ m \notin ms => m2.pend[m] = mem.pend[m]
      /\ m2.tok[k] = mem.tok[k]
      /\ \A j \in Tokens : m2.tok[j] = mem.tok[j]
                           \/ (mem.tok[j] = "PENDING" /\ m2.tok[j] = "CONFLICTED" /\ j # k
                                /\ \E m \in Mixtures : Carries(mem, m, j))
  <2>1. PreparedOK(mem, ms, k, m2)
    BY <1>0, <1>b, <1>2, PreparedFacts
  <2> QED
    BY <2>1 DEF PreparedOK
<1>4. q \in Seq(Turfs) /\ \A i \in DOMAIN q : q[i] \in new
  BY <1>1, SetToSeqFacts
<1>5. /\ DOMAIN in2 = DOMAIN s.input \union ms /\ in2 \in Inputs
      /\ \A m \in ms : in2[m] = Vis(m)
      /\ \A m \in DOMAIN s.input : m \notin ms => in2[m] = s.input[m]
  <2>1. DOMAIN s.input \subseteq Mixtures /\ \A m \in DOMAIN s.input : s.input[m] \in Value
    BY <1>a, InputFacts
  <2>2. \A m \in ms : Vis(m) \in Value
    BY <1>0, <1>2, MemoryFacts DEF Vis
  <2>3. in2 \in [DOMAIN s.input \union ms -> Value]
    BY <2>1, <2>2
  <2>4. DOMAIN s.input \union ms \in SUBSET Mixtures
    BY <1>2, <2>1
  <2> HIDE DEF in2
  <2>5. in2 \in Inputs
    BY <2>3, <2>4 DEF Inputs
  <2> QED
    BY <2>5 DEF in2
<1>6. /\ s2 \in StageRecords /\ s2.kind = s.kind /\ s2.active = s.active /\ s2.token = k
      /\ s2.nodes = s.nodes \o q /\ s2.input = in2
  <2> DEFINE nodes == s.nodes \o q
             mixes == s.seenMixtures \union (ms \ Immutable)
             next == s.next + 1
  <2>1. s2 = WithCapture(s, nodes, mixes, in2, next)
    BY <1>a DEF Capture, StageRecords, Walked, WithCapture
  <2>2. nodes \in Seq(Turfs)
    BY <1>a, <1>4, ConcatProperties DEF StageRecords
  <2>3. mixes \in SUBSET Mixtures /\ next \in Nat \ {0}
    BY <1>a, <1>2 DEF StageRecords
  <2>4. in2 \in Inputs
    BY <1>5
  <2> HIDE DEF in2, nodes, mixes, next
  <2>5. /\ s2 \in StageRecords /\ s2.kind = s.kind /\ s2.active = s.active
        /\ s2.token = s.token /\ s2.nodes = nodes /\ s2.input = in2
    BY <1>a, <2>1, <2>2, <2>3, <2>4, CaptureFields
  <2> QED
    BY <1>a, <2>5 DEF nodes
<1> HIDE DEF in2, q
<1>7. InputsTold(s2, m2)
  BY <1>a, <1>0, <1>2, <1>3, <1>5, <1>6, InputFacts, MemoryFacts DEF InputsTold, Ready, Vis, Value
<1>8. Pending(s2, m2) => CarriersSound(s2, m2)
  <2> SUFFICES ASSUME Pending(s2, m2), NEW m \in Mixtures, Carries(m2, m, k)
               PROVE  /\ m \in DOMAIN s2.input => s2.input[m] = Visible(m2, m)
                      /\ Justified(s2, m2, m)
    BY <1>6 DEF CarriersSound
  <2>0. CarriersSound(s, mem) /\ \A n \in DOMAIN s.input : Carries(mem, n, k)
    BY <1>a, <1>0, <1>3, <1>6 DEF Ready, Pending, DiffusionReady
  <2>1. m \in DOMAIN s2.input => s2.input[m] = Visible(m2, m)
    BY <1>a, <1>3, <1>5, <1>6, <2>0 DEF CarriersSound, Vis
  <2>2. CASE ~Carries(mem, m, k)
    <3>1. m \in ms
      BY <1>3, <2>2 DEF Carries
    <3> QED
      BY <1>3, <2>1, <2>2, <3>1 DEF Justified
  <2>3. CASE Carries(mem, m, k)
    <3>1. m2.pend[m] = mem.pend[m] /\ Justified(s, mem, m) /\ Visible(m2, m) = Visible(mem, m)
      BY <1>a, <1>3, <2>0, <2>3 DEF CarriersSound
    <3>2. \A n \in DOMAIN s.input : s2.input[n] = s.input[n]
      BY <1>a, <1>0, <1>5, <1>6, <2>0, InputFacts DEF CarriersSound, Vis
    <3>3. Relied(s) = DOMAIN s.input /\ Relied(s) \subseteq Relied(s2)
      BY <1>a, <1>0, <1>5, <1>6 DEF Relied
    <3>4. \A S \in SUBSET Relied(s) : MadeOf(s2, S) = MadeOf(s, S)
      BY <1>a, <1>6, <3>2, <3>3 DEF MadeOf
    <3> QED
      BY <1>a, <1>0, <1>6, <2>1, <3>1, <3>3, <3>4 DEF Justified
  <2> QED
    BY <2>1, <2>2, <2>3
<1>9. DiffusionReady(s2, m2)
  <2>1. ASSUME NEW i \in DOMAIN s2.nodes
        PROVE  /\ Home[s2.nodes[i]] \in DOMAIN s2.input
               /\ Home[s2.nodes[i]] \notin Immutable
                    => s2.input[Home[s2.nodes[i]]].rev < MaxRevision
    <3>1. \A u \in new : Home[u] \in ms
                         /\ (Home[u] \notin Immutable => Vis(Home[u]).rev < MaxRevision)
      BY DEF RevisionsLeft, Walked
    <3>2. \A m \in ms : m \notin Immutable => Vis(m).rev < MaxRevision
      BY <3>1 DEF Walked
    <3>3. s2.nodes[i] \in new \/ \E j \in DOMAIN s.nodes : s2.nodes[i] = s.nodes[j]
      <4>1. s.nodes \in Seq(Turfs)
        BY <1>a, <1>0 DEF StageRecords
      <4>2. /\ DOMAIN s.nodes = 1..Len(s.nodes) /\ Len(s.nodes) \in Nat
            /\ DOMAIN q = 1..Len(q) /\ Len(q) \in Nat
        BY <1>4, <4>1, LenProperties
      <4>3. /\ i \in 1..(Len(s.nodes) + Len(q))
            /\ s2.nodes[i] = IF i <= Len(s.nodes) THEN s.nodes[i] ELSE q[i - Len(s.nodes)]
        BY <1>4, <1>6, <2>1, <4>1, ConcatProperties, LenProperties
      <4> QED
        BY <1>4, <4>2, <4>3
    <3>4. CASE s2.nodes[i] \in new
      BY <1>5, <1>6, <3>1, <3>4
    <3>5. CASE \E j \in DOMAIN s.nodes : s2.nodes[i] = s.nodes[j]
      <4>1. /\ Home[s2.nodes[i]] \in DOMAIN s.input
            /\ Home[s2.nodes[i]] \notin Immutable
                 => s.input[Home[s2.nodes[i]]].rev < MaxRevision
        BY <1>a, <1>0, <3>5 DEF Ready, DiffusionReady
      <4> QED
        BY <1>5, <1>6, <3>2, <4>1
    <3> QED
      BY <3>3, <3>4, <3>5
  <2>2. Pending(s2, m2) => \A m \in DOMAIN s2.input : Carries(m2, m, s2.token)
    <3>1. Pending(s2, m2) => \A m \in DOMAIN s.input : Carries(mem, m, k)
      BY <1>a, <1>0, <1>3, <1>6 DEF Ready, DiffusionReady, Pending
    <3> QED
      BY <1>a, <1>0, <1>3, <1>5, <1>6, <3>1, InputFacts DEF Carries
  <2> QED
    BY <2>1, <2>2 DEF DiffusionReady
<1>10. TokensLeft(s2) /\ ReactReady(s2, m2) /\ ComponentReady(s2, m2)
  BY <1>a, <1>0, <1>6 DEF TokensLeft, ReactReady, ComponentReady, ComponentKind
<1>11. Ready(s2, m2, log)
  BY <1>a, <1>0, <1>3, <1>6, <1>7, <1>8, <1>9, <1>10 DEF Ready
<1>12. Unused(m2, log, k)
  <2>1. Unused(mem, log, k)
    BY <1>a, CurrentUnused
  <2>2. \A m \in Mixtures : m2.pend[m] = mem.pend[m] \/ Carries(m2, m, k)
    BY <1>3
  <2> QED
    BY <1>0, <1>3, <2>1, <2>2, StagedUnused
<1> QED
  BY <1>a, <1>3, <1>6, <1>11, <1>12 DEF Vis

LEMMA WalkDiffusionKept ==
  ASSUME StageConstants, NEW s, Current(s), WalkDiffusion(s)
  PROVE  StageInv' /\ Quiet
<1> DEFINE new == Fresh(s, s.frontier[s.next])
           ms == {Home[u] : u \in new}
           s2 == [Capture(s, new) EXCEPT !.next = @ + 1]
           m2 == Prepared(mem, ms, s.token)
<1>1. CASE UNCHANGED mem /\ AbortStage(s)
  <2>1. Unused(mem', log, s.token) /\ mem' \in Memories
    BY <1>1, CurrentUnused DEF Current, Base
  <2>2. \A m \in Mixtures : Visible(mem', m) = Vis(m)
    BY <1>1 DEF Vis
  <2> QED
    BY <1>1, <2>1, <2>2, AbortKept
<1>2. CASE Proceed(s2, m2) /\ RevisionsLeft(new)
  <2>1. Walked(s, s.token, new, ms, s2, m2) /\ Proceed(s2, m2)
    BY <1>2 DEF Walked, WalkDiffusion
  <2> HIDE DEF new, ms, s2, m2
  <2>2. /\ m2 \in Memories /\ Ready(s2, m2, log) /\ Unused(m2, log, s.token)
        /\ s2.kind = s.kind /\ s2.active = s.active /\ s2.token = s.token
        /\ \A m \in Mixtures : Visible(m2, m) = Vis(m)
    BY <2>1, WalkedReady
  <2> QED
    BY <2>1, <2>2, ProceedKept
<1> QED
  BY <1>1, <1>2 DEF WalkDiffusion

(* One record gets a candidate of the stage at hand. *)
OneStaged(s, m, v, m2) ==
  /\ m2 \in Memories /\ Unused(m2, log, s.token)
  /\ \A n \in Mixtures : Visible(m2, n) = Vis(n)
  /\ Carries(m2, m, s.token) /\ m2.pend[m].value = v
  /\ \A n \in Mixtures : n # m => m2.pend[n] = mem.pend[n]
  /\ m2.tok[s.token] = mem.tok[s.token]

LEMMA StageOne ==
  ASSUME NEW s, Current(s), NEW m \in Mixtures, NEW v \in Value, NEW m2,
         m2 = Staged(mem, [x \in {m} |-> v], s.token)
  PROVE  OneStaged(s, m, v, m2)
<1> DEFINE f == [x \in {m} |-> v]
           k == s.token
<1>1. f \in [{m} -> Value] /\ f[m] = v /\ {m} \in SUBSET Mixtures
  OBVIOUS
<1>2. mem \in Memories /\ k \in Tokens /\ mem.tok[k] # "PUBLISHED" /\ Unused(mem, log, k)
  BY CurrentUnused DEF Current, Base, Ready
<1>3. m2 = Staged(mem, f, k)
  OBVIOUS
<1> HIDE DEF f
<1>4. StagedOK(mem, {m}, f, k, m2)
  <2> HIDE DEF k
  <2> QED
    BY <1>1, <1>2, <1>3, StagedFacts
<1>5. /\ m2 \in Memories /\ Carries(m2, m, k) /\ m2.pend[m].value = v
      /\ \A n \in Mixtures : Visible(m2, n) = Vis(n)
      /\ \A n \in Mixtures : n # m => m2.pend[n] = mem.pend[n]
      /\ m2.tok[k] = mem.tok[k]
      /\ \A j \in Tokens : m2.tok[j] = mem.tok[j] \/ \E n \in Mixtures : Carries(mem, n, j)
  BY <1>1, <1>4 DEF StagedOK, Vis
<1>6. Unused(m2, log, k)
  <2>1. \A n \in Mixtures : m2.pend[n] = mem.pend[n] \/ Carries(m2, n, k)
    BY <1>5
  <2> HIDE DEF k
  <2> QED
    BY <1>2, <1>5, <2>1, StagedUnused
<1> QED
  BY <1>5, <1>6 DEF OneStaged

\* The stage stays ready when the candidate is justified.
LEMMA ReadyStaged ==
  ASSUME NEW s, Current(s), NEW m \in Mixtures, NEW v, NEW m2, OneStaged(s, m, v, m2),
         Pending(s, mem) => /\ m \in DOMAIN s.input => s.input[m] = Vis(m)
                            /\ Justified(s, m2, m),
         s.kind = "React" => m \notin s.active, ComponentKind(s) => s.computed
  PROVE  Ready(s, m2, log)
<1>0. /\ Ready(s, mem, log) /\ s \in StageRecords
      /\ Pending(s, m2) <=> Pending(s, mem)
      /\ m2.tok[s.token] = mem.tok[s.token]
  BY DEF Current, Ready, Pending, OneStaged
<1>1. \A n \in Mixtures : /\ Visible(m2, n) = Visible(mem, n)
                          /\ n # m => m2.pend[n] = mem.pend[n]
                          /\ Carries(m2, n, s.token) <=> n = m \/ Carries(mem, n, s.token)
  BY DEF OneStaged, Carries, Vis
<1>2. InputsTold(s, m2)
  BY <1>0, <1>1, InputFacts DEF Ready, InputsTold
<1>3. Pending(s, m2) => CarriersSound(s, m2)
  <2> SUFFICES ASSUME Pending(s, m2), NEW n \in Mixtures, Carries(m2, n, s.token)
               PROVE  /\ n \in DOMAIN s.input => s.input[n] = Visible(m2, n)
                      /\ Justified(s, m2, n)
    BY DEF CarriersSound
  <2>1. CASE n = m
    BY <1>0, <1>1, <2>1 DEF Vis
  <2>2. CASE n # m
    <3>1. /\ Carries(mem, n, s.token) /\ Visible(m2, n) = Visible(mem, n)
          /\ m2.pend[n] = mem.pend[n]
      BY <1>1, <2>2
    <3>2. /\ n \in DOMAIN s.input => s.input[n] = Visible(mem, n)
          /\ Justified(s, mem, n)
      BY <1>0, <3>1 DEF Ready, CarriersSound
    <3> QED
      BY <3>1, <3>2 DEF Justified
  <2> QED
    BY <2>1, <2>2
<1>4. DiffusionReady(s, m2)
  BY <1>0, <1>1, InputFacts DEF Ready, DiffusionReady
<1>5. ReactReady(s, m2)
  <2>1. s.active \subseteq Mixtures
    BY <1>0 DEF StageRecords
  <2> QED
    BY <1>0, <1>1, <2>1 DEF Ready, ReactReady
<1>6. ComponentReady(s, m2)
  <2>1. s.entries \in Seq(Entries)
    BY <1>0 DEF StageRecords
  <2>2. \A i \in DOMAIN s.entries : s.entries[i] \in Entries
    BY <2>1, ElementOfSeq, LenProperties
  <2>3. \A i \in DOMAIN s.entries : s.entries[i].m \in Mixtures
    BY <2>2 DEF Entries
  <2> QED
    BY <1>0, <1>1, <2>3 DEF Ready, ComponentReady
<1> QED
  BY <1>0, <1>2, <1>3, <1>4, <1>5, <1>6 DEF Ready

LEMMA ValueFacts ==
  ASSUME NEW r, NEW c
  PROVE  /\ r \in Nat /\ c \in SUBSET Changes => [rev |-> r, made |-> c] \in Value
         /\ [rev |-> r, made |-> c].rev = r /\ [rev |-> r, made |-> c].made = c
  BY DEF Value

\* The candidate of a node is made of captured contents.
LEMMA DiffusedReady ==
  ASSUME StageConstants, NEW s, Current(s), s.kind = "ProcessTurfs",
         NEW t, \E i \in DOMAIN s.nodes : t = s.nodes[i], Home[t] \notin Immutable,
         NEW m2, m2 = Staged(mem, [m \in {Home[t]} |-> Diffused(s, t)], s.token)
  PROVE  /\ m2 \in Memories /\ Ready(s, m2, log) /\ Unused(m2, log, s.token)
         /\ \A m \in Mixtures : Visible(m2, m) = Vis(m)
<1> DEFINE v == Diffused(s, t)
           near == {t} \union {x \in GasNeighbors[t] : IsNode(s, x)}
           S == {Home[u] : u \in near}
           h == Home[t]
<1>0. /\ s \in StageRecords /\ Ready(s, mem, log) /\ s.token \in Nat
      /\ mem \in Memories /\ s.nodes \in Seq(Turfs)
  BY DEF Current, Base, Ready, Tokens, StageRecords
<1>1. \A u \in near : \E i \in DOMAIN s.nodes : u = s.nodes[i]
  BY DEF IsNode, ToSet
<1>2. S \subseteq DOMAIN s.input /\ h \in S
  BY <1>0, <1>1 DEF Ready, DiffusionReady
<1>3. h \in Mixtures /\ DOMAIN s.input \subseteq Mixtures
  BY <1>0, <1>2, InputFacts
<1>4. /\ v.rev = Vis(h).rev + 1 /\ v.made = MadeOf(s, S) /\ v \in Value
  <2>1. v = [rev |-> Vis(h).rev + 1, made |-> MadeOf(s, S)]
    BY DEF Diffused, MadeOf
  <2>2. Vis(h).rev + 1 \in Nat
    BY <1>0, <1>3, MemoryFacts DEF Vis, Value
  <2>3. MadeOf(s, S) \in SUBSET Changes
    BY <1>0, <1>2, InputFacts DEF MadeOf, Changes
  <2> HIDE DEF v, S, h
  <2> QED
    BY <2>1, <2>2, <2>3, ValueFacts
<1> HIDE DEF v, S, h, near
<1>5. OneStaged(s, h, v, m2)
  BY <1>3, <1>4, StageOne DEF v, h
<1>6. Pending(s, mem) => /\ h \in DOMAIN s.input => s.input[h] = Vis(h)
                         /\ Justified(s, m2, h)
  <2> SUFFICES ASSUME Pending(s, mem)
               PROVE  s.input[h] = Vis(h) /\ Justified(s, m2, h)
    OBVIOUS
  <2>1. s.input[h] = Vis(h)
    BY <1>0, <1>2, <1>3 DEF Ready, CarriersSound, DiffusionReady, Vis
  <2>2. s.input[h].rev < MaxRevision
    BY <1>0 DEF Ready, DiffusionReady, h
  <2>3. Visible(m2, h) = Vis(h) /\ m2.pend[h].value = v
    BY <1>3, <1>5 DEF OneStaged
  <2>4. v.rev <= MaxRevision
    <3>1. Vis(h).rev \in Nat
      BY <1>0, <1>3, MemoryFacts DEF Vis, Value
    <3> QED
      BY <1>4, <2>1, <2>2, <3>1 DEF StageConstants
  <2>5. Relied(s) = DOMAIN s.input
    BY DEF Relied
  <2> QED
    BY <1>2, <1>4, <2>1, <2>3, <2>4, <2>5 DEF Justified
<1>7. Ready(s, m2, log)
  BY <1>3, <1>5, <1>6, ReadyStaged DEF ComponentKind
<1> QED
  BY <1>5, <1>7 DEF OneStaged

(* Two cursors of the same stage that differ in how far they got. *)
SameCursor(s, s2) ==
  /\ s2 \in StageRecords
  /\ s2.kind = s.kind /\ s2.token = s.token /\ s2.input = s.input /\ s2.active = s.active
  /\ s2.visited = s.visited /\ s2.queue = s.queue /\ s2.computed = s.computed
  /\ s2.entries = s.entries /\ s2.entered = s.entered

LEMMA CursorFields ==
  ASSUME NEW s \in StageRecords
  PROVE  /\ \A d \in Nat : /\ SameCursor(s, [s EXCEPT !.done = d])
                           /\ [s EXCEPT !.done = d].nodes = s.nodes
         /\ \A d \in Nat, S \in SUBSET Mixtures :
              /\ SameCursor(s, [s EXCEPT !.done = d, !.seenMixtures = S])
              /\ [s EXCEPT !.done = d, !.seenMixtures = S].nodes = s.nodes
              /\ [s EXCEPT !.done = d, !.seenMixtures = S].staged = s.staged
         /\ \A e \in Nat : /\ SameCursor(s, [s EXCEPT !.staged = e])
                           /\ [s EXCEPT !.staged = e].nodes = s.nodes
         /\ \A n \in Nat \ {0}, q \in Seq(Turfs) :
              /\ SameCursor(s, [s EXCEPT !.next = n, !.nodes = q])
              /\ [s EXCEPT !.next = n, !.nodes = q].done = s.done
<1>1. ASSUME NEW d \in Nat
      PROVE  /\ SameCursor(s, [s EXCEPT !.done = d]) /\ [s EXCEPT !.done = d].nodes = s.nodes
  BY DEF SameCursor, StageRecords
<1>2. ASSUME NEW d \in Nat, NEW S \in SUBSET Mixtures
      PROVE  /\ SameCursor(s, [s EXCEPT !.done = d, !.seenMixtures = S])
             /\ [s EXCEPT !.done = d, !.seenMixtures = S].nodes = s.nodes
             /\ [s EXCEPT !.done = d, !.seenMixtures = S].staged = s.staged
  BY DEF SameCursor, StageRecords
<1>3. ASSUME NEW e \in Nat
      PROVE  /\ SameCursor(s, [s EXCEPT !.staged = e]) /\ [s EXCEPT !.staged = e].nodes = s.nodes
  BY DEF SameCursor, StageRecords
<1>4. ASSUME NEW n \in Nat \ {0}, NEW q \in Seq(Turfs)
      PROVE  /\ SameCursor(s, [s EXCEPT !.next = n, !.nodes = q])
             /\ [s EXCEPT !.next = n, !.nodes = q].done = s.done
  BY DEF SameCursor, StageRecords
<1> QED
  BY <1>1, <1>2, <1>3, <1>4

LEMMA SameReady ==
  ASSUME NEW mm, NEW lg, NEW s, Ready(s, mm, lg), NEW s2, SameCursor(s, s2),
         s2.nodes = s.nodes \/ s.kind # "ProcessTurfs",
         s2.done = s.done \/ ~ComponentKind(s)
  PROVE  Ready(s2, mm, lg)
  BY ReadyCursor DEF SameCursor

\* A publication that ends the stage.
LEMMA PublishEnds ==
  ASSUME StageConstants, NEW s, Current(s), NEW m2 \in Memories, Ready(s, m2, log),
         Unused(m2, log, s.token), \A m \in Mixtures : Visible(m2, m) = Vis(m),
         s.kind # "React" =>
           \A n \in Relied(s) : n \in DOMAIN s.input /\ (Pending(s, m2) => Carries(m2, n, s.token)),
         NEW ev \in Nat, ~CommitFails(s, m2, ev), Publish(s, m2, ev)
  PROVE  /\ Shown(<<"stage", s.token>>) /\ mem' \in Memories /\ mem'.pend = m2.pend
         /\ Unused(mem', log', s.token) /\ LogOK' /\ VisibleOK' /\ events' \in 0..MaxEvents
<1>1. /\ mem' = Published(m2, s.token) /\ log' = Append(log, <<"stage", s.token>>)
      /\ events' = events + ev /\ events + ev <= MaxEvents /\ Pending(s, m2)
  <2>1. events + ev \in Nat
    BY DEF Current, Base, PoolOK, StageConstants
  <2> QED
    BY <2>1 DEF Publish, CommitFails, Publishable, Pending, StageConstants
<1>2. /\ Shown(<<"stage", s.token>>)
      /\ mem' \in Memories /\ mem'.pend = m2.pend /\ Unused(mem', log', s.token)
  <2>1. mem \in Memories /\ LogOK
    BY DEF Current, Base
  <2> QED
    BY <1>1, <2>1, PublishShows
<1>3. LogOK' /\ VisibleOK'
  BY <1>2, ShownKeeps DEF Current, Base, StageConstants
<1>4. events' \in 0..MaxEvents
  BY <1>1 DEF Current, Base, PoolOK, StageConstants
<1> QED
  BY <1>2, <1>3, <1>4

LEMMA DiffusionNodeKept ==
  ASSUME StageConstants, NEW s, Current(s), DiffusionNode(s)
  PROVE  StageInv' /\ StepOK
<1> DEFINE t == s.nodes[s.done + 1]
           m2 == IF Home[t] \in Immutable THEN mem
                   ELSE Staged(mem, [m \in {Home[t]} |-> Diffused(s, t)], s.token)
           s2 == [s EXCEPT !.done = @ + 1]
<1>0. /\ s \in StageRecords /\ Ready(s, mem, log) /\ mem \in Memories /\ s.kind = "ProcessTurfs"
      /\ s.done \in Nat /\ s.nodes \in Seq(Turfs)
  BY DEF Current, Base, Ready, StageRecords, DiffusionNode
<1>1. s.done + 1 \in DOMAIN s.nodes
  BY <1>0, LenProperties DEF DiffusionNode
<1>2. /\ m2 \in Memories /\ Ready(s, m2, log) /\ Unused(m2, log, s.token)
      /\ \A m \in Mixtures : Visible(m2, m) = Vis(m)
  <2>1. CASE Home[t] \in Immutable
    BY <1>0, <2>1, CurrentUnused DEF Vis
  <2>2. CASE Home[t] \notin Immutable
    <3>1. m2 = Staged(mem, [m \in {Home[t]} |-> Diffused(s, t)], s.token)
          /\ \E i \in DOMAIN s.nodes : t = s.nodes[i]
      BY <1>1, <2>2
    <3> HIDE DEF t, m2
    <3> QED
      BY <1>0, <2>2, <3>1, DiffusedReady
  <2> QED
    BY <2>1, <2>2
<1>3. CASE CommitDiffusion(s, m2)
  <2> HIDE DEF t, m2
  <2>1. CASE mem' = m2 /\ AbortStage(s)
    BY <1>2, <2>1, AbortKept DEF StepOK
  <2>2. CASE ~CommitFails(s, m2, 0) /\ Publish(s, m2, 0) /\ End(s) /\ UNCHANGED suspended
    <3>1. \A n \in Relied(s) : n \in DOMAIN s.input /\ (Pending(s, m2) => Carries(m2, n, s.token))
      BY <1>0, <1>2 DEF Relied, Ready, DiffusionReady
    <3>2. /\ Shown(<<"stage", s.token>>) /\ mem' \in Memories
          /\ Unused(mem', log', s.token) /\ LogOK' /\ VisibleOK' /\ events' \in 0..MaxEvents
      BY <1>2, <2>2, <3>1, PublishEnds
    <3>3. suspended' \in [Slots -> Mixtures \union {NoMixture}]
      BY <2>2 DEF Current, Base, PoolOK
    <3> QED
      BY <2>2, <3>2, <3>3, EndKept DEF StepOK
  <2> QED
    BY <1>3, <2>1, <2>2 DEF CommitDiffusion
<1>4. CASE Proceed(s2, m2)
  <2> HIDE DEF t, m2
  <2>1. s2 = [s EXCEPT !.done = s.done + 1] /\ s.done + 1 \in Nat
    BY <1>0
  <2>2. SameCursor(s, s2) /\ s2.nodes = s.nodes
    BY <1>0, <2>1, CursorFields
  <2> HIDE DEF s2
  <2>3. Ready(s2, m2, log) /\ s2.token = s.token /\ s2.kind = s.kind /\ s2.active = s.active
    BY <1>0, <1>2, <2>2, SameReady DEF ComponentKind, SameCursor
  <2> QED
    BY <1>2, <1>4, <2>3, ProceedKept DEF StepOK
<1> QED
  BY <1>3, <1>4 DEF DiffusionNode

(***************************************************************************)
(* React.                                                                  *)
(***************************************************************************)
LEMMA WalkKept ==
  ASSUME NEW s, Current(s), WalkReactions(s) \/ WalkComponents(s)
  PROVE  StageInv' /\ Quiet
<1> DEFINE q == Append(s.nodes, s.frontier[s.next])
           s2 == [s EXCEPT !.next = s.next + 1, !.nodes = q]
<1>0. /\ s \in StageRecords /\ Ready(s, mem, log) /\ mem \in Memories
      /\ s.next <= Len(s.frontier) /\ s.kind # "ProcessTurfs"
  BY DEF Current, Base, Ready, WalkReactions, WalkComponents, ComponentKind
<1>1. s.next \in Nat \ {0} /\ s.next + 1 \in Nat \ {0} /\ s.frontier \in Seq(Turfs)
      /\ s.nodes \in Seq(Turfs)
  BY <1>0 DEF StageRecords
<1>2. q \in Seq(Turfs)
  BY <1>0, <1>1, ElementOfSeq, AppendProperties
<1>3. Proceed(s2, mem)
  BY <1>0 DEF WalkReactions, WalkComponents, StageRecords
<1> HIDE DEF q
<1>4. SameCursor(s, s2) /\ s2.done = s.done
  BY <1>0, <1>1, <1>2, CursorFields
<1> HIDE DEF s2
<1>5. Ready(s2, mem, log) /\ s2.token = s.token /\ s2.kind = s.kind /\ s2.active = s.active
  BY <1>0, <1>4, SameReady DEF SameCursor
<1>6. Unused(mem, log, s2.token) /\ \A m \in Mixtures : Visible(mem, m) = Vis(m)
  BY <1>5, CurrentUnused DEF Vis
<1> QED
  BY <1>0, <1>3, <1>5, <1>6, ProceedKept

\* A target is done: the stage goes on, is published or is aborted.
LEMMA ReactionDoneKept ==
  ASSUME StageConstants, NEW s, Current(s), s.kind = "React", NEW s2, SameCursor(s, s2),
         NEW m2 \in Memories, Ready(s, m2, log), Unused(m2, log, s.token),
         \A m \in Mixtures : Visible(m2, m) = Vis(m),
         NEW pending \in SUBSET Mixtures, IsFiniteSet(pending), ReactionDone(s2, m2, pending)
  PROVE  StageInv' /\ StepOK
<1> DEFINE ev == s2.staged + Cardinality(pending)
<1>0. /\ s2.token = s.token /\ s2.kind = s.kind /\ s2.active = s.active /\ s2.staged \in Nat
  BY DEF SameCursor, StageRecords
<1>1. ev \in Nat
  BY <1>0, FS_CardinalityType
<1>2. CASE CommitReactions(s2, m2, pending)
  <2>1. CASE mem' = m2 /\ AbortStage(s2)
    <3>1. AbortStage(s)
      BY <1>0, <2>1 DEF AbortStage, End
    <3> QED
      BY <2>1, <3>1, AbortKept DEF StepOK
  <2>2. CASE /\ ~CommitFails(s2, m2, ev) /\ Publish(s2, m2, ev) /\ End(s2)
             /\ \/ pending = {} /\ UNCHANGED suspended
                \/ \E c \in FreeSlots, m \in pending : suspended' = [suspended EXCEPT ![c] = m]
    <3> HIDE DEF ev
    <3>1. ~CommitFails(s, m2, ev) /\ Publish(s, m2, ev) /\ End(s)
      BY <1>0, <2>2 DEF CommitFails, Publish, End
    <3>2. /\ Shown(<<"stage", s.token>>) /\ mem' \in Memories
          /\ Unused(mem', log', s.token) /\ LogOK' /\ VisibleOK' /\ events' \in 0..MaxEvents
      BY <1>1, <3>1, PublishEnds
    <3>3. suspended' \in [Slots -> Mixtures \union {NoMixture}]
      BY <2>2 DEF Current, Base, PoolOK, FreeSlots
    <3> QED
      BY <3>1, <3>2, <3>3, EndKept DEF StepOK
  <2> QED
    BY <1>2, <2>1, <2>2 DEF CommitReactions
<1>3. CASE Proceed(s2, m2)
  <2>1. Ready(s2, m2, log) /\ Unused(m2, log, s2.token)
    BY <1>0, SameReady DEF ComponentKind
  <2> QED
    BY <1>0, <1>3, <2>1, ProceedKept DEF StepOK
<1> QED
  BY <1>2, <1>3 DEF ReactionDone

\* The candidate of a reacted mixture is the visible contents and the stage's change.
LEMMA ReactedReady ==
  ASSUME StageConstants, NEW s, Current(s), s.kind = "React", NEW m \in Mixtures, m \notin s.active,
         Vis(m).rev # MaxRevision, NEW m2,
         m2 = Staged(mem, [x \in {m} |-> Reacted(m, <<"stage", s.token>>)], s.token)
  PROVE  /\ m2 \in Memories /\ Ready(s, m2, log) /\ Unused(m2, log, s.token)
         /\ \A n \in Mixtures : Visible(m2, n) = Vis(n)
<1> DEFINE v == Reacted(m, <<"stage", s.token>>)
<1>0. s \in StageRecords /\ Ready(s, mem, log) /\ s.token \in Nat /\ mem \in Memories
  BY DEF Current, Base, Ready, Tokens
<1>1. Vis(m) \in Value /\ Vis(m).rev \in 1..MaxRevision
  BY <1>0, MemoryFacts DEF Vis, Current, Base, VisibleOK
<1>2. /\ v \in Value /\ v.rev = Vis(m).rev + 1
      /\ v.made = Vis(m).made \union {<<"stage", s.token>>}
  <2> DEFINE made == Vis(m).made \union {<<"stage", s.token>>}
             r == Vis(m).rev + 1
  <2>1. v = [rev |-> r, made |-> made]
    BY DEF Reacted
  <2>2. r \in Nat /\ made \in SUBSET Changes
    BY <1>0, <1>1 DEF Changes, Value
  <2> HIDE DEF v, made, r
  <2>3. v \in Value /\ v.rev = r /\ v.made = made
    BY <2>1, <2>2, ValueFacts
  <2> QED
    BY <2>3 DEF made, r
<1> HIDE DEF v
<1>3. OneStaged(s, m, v, m2)
  BY <1>2, StageOne DEF v
<1>4. Justified(s, m2, m)
  <2>1. Visible(m2, m) = Vis(m) /\ m2.pend[m].value = v
    BY <1>3 DEF OneStaged
  <2>2. v.rev <= MaxRevision
    BY <1>1, <1>2 DEF StageConstants
  <2> QED
    BY <1>2, <2>1, <2>2 DEF Justified
<1>5. m \notin DOMAIN s.input
  BY <1>0 DEF Ready, ReactReady
<1>6. Ready(s, m2, log)
  BY <1>3, <1>4, <1>5, ReadyStaged DEF ComponentKind
<1> QED
  BY <1>3, <1>6 DEF OneStaged

LEMMA ReactTargetKept ==
  ASSUME StageConstants, NEW s, Current(s), ReactTarget(s)
  PROVE  StageInv' /\ StepOK
<1> DEFINE m == Home[s.nodes[s.done + 1]]
           s2 == [s EXCEPT !.done = @ + 1, !.seenMixtures = @ \union {m}]
<1>0. /\ s \in StageRecords /\ Ready(s, mem, log) /\ mem \in Memories /\ s.kind = "React"
      /\ s.done \in Nat /\ s.nodes \in Seq(Turfs) /\ s.seenMixtures \in SUBSET Mixtures
  BY DEF Current, Base, Ready, StageRecords, ReactTarget
<1>1. s.nodes[s.done + 1] \in Turfs
  BY <1>0, LenProperties, ElementOfSeq DEF ReactTarget
<1>2. m \in Mixtures
  BY <1>1 DEF StageConstants, Turfs
<1>3. SameCursor(s, s2)
  <2>1. s2 = [s EXCEPT !.done = s.done + 1, !.seenMixtures = s.seenMixtures \union {m}]
    OBVIOUS
  <2>2. s.done + 1 \in Nat /\ s.seenMixtures \union {m} \in SUBSET Mixtures
    BY <1>0, <1>2
  <2> HIDE DEF m
  <2> QED
    BY <1>0, <2>1, <2>2, CursorFields
<1>4. Unused(mem, log, s.token) /\ \A n \in Mixtures : Visible(mem, n) = Vis(n)
  BY CurrentUnused DEF Vis
<1>5. /\ s.kind = "React" /\ s.next > Len(s.frontier) /\ s.done < Len(s.nodes)
      /\ IF m \in s.seenMixtures \union s.active \union Immutable
           THEN ReactionDone(s2, mem, {})
           ELSE \E native \in 0..1, pending \in SUBSET {m} :
                  IF native = 1 /\ Vis(m).rev = MaxRevision
                    THEN UNCHANGED mem /\ AbortStage(s)
                    ELSE ReactionDone([s2 EXCEPT !.staged = @ + native],
                           IF native = 0 THEN mem
                             ELSE Staged(mem,
                                    [x \in {m} |-> Reacted(m, <<"stage", s.token>>)],
                                    s.token),
                           pending)
  BY DEF ReactTarget
<1> HIDE DEF m, s2
<1>6. CASE ReactionDone(s2, mem, {})
  <2>1. {} \in SUBSET Mixtures /\ IsFiniteSet({})
    BY FS_EmptySet
  <2> QED
    BY <1>0, <1>3, <1>4, <1>6, <2>1, ReactionDoneKept
<1>7. ASSUME m \notin s.active, NEW native \in 0..1, NEW pending \in SUBSET {m},
             IF native = 1 /\ Vis(m).rev = MaxRevision
               THEN UNCHANGED mem /\ AbortStage(s)
               ELSE ReactionDone([s2 EXCEPT !.staged = @ + native],
                      IF native = 0 THEN mem
                        ELSE Staged(mem,
                               [x \in {m} |-> Reacted(m, <<"stage", s.token>>)],
                               s.token),
                      pending)
      PROVE  StageInv' /\ StepOK
  <2> DEFINE s3 == [s2 EXCEPT !.staged = @ + native]
             m2 == IF native = 0 THEN mem
                     ELSE Staged(mem, [x \in {m} |-> Reacted(m, <<"stage", s.token>>)], s.token)
  <2>1. CASE UNCHANGED mem /\ AbortStage(s)
    <3>1. Unused(mem', log, s.token) /\ mem' \in Memories
          /\ \A n \in Mixtures : Visible(mem', n) = Vis(n)
      BY <1>0, <1>4, <2>1
    <3> QED
      BY <2>1, <3>1, AbortKept DEF StepOK
  <2>2. CASE ~(native = 1 /\ Vis(m).rev = MaxRevision) /\ ReactionDone(s3, m2, pending)
    <3>1. pending \in SUBSET Mixtures /\ IsFiniteSet(pending)
      <4>1. IsFiniteSet({m}) /\ pending \subseteq {m}
        BY FS_Singleton
      <4> QED
        BY <1>2, <4>1, FS_Subset
    <3>2. SameCursor(s, s3)
      <4>1. s2 \in StageRecords /\ s2.staged \in Nat
        BY <1>3 DEF SameCursor, StageRecords
      <4>2. s3 = [s2 EXCEPT !.staged = s2.staged + native] /\ s2.staged + native \in Nat
        BY <4>1
      <4>3. SameCursor(s2, s3)
        BY <4>1, <4>2, CursorFields
      <4> QED
        BY <1>3, <4>3 DEF SameCursor
    <3>3. /\ m2 \in Memories /\ Ready(s, m2, log) /\ Unused(m2, log, s.token)
          /\ \A n \in Mixtures : Visible(m2, n) = Vis(n)
      <4>1. CASE native = 0
        BY <1>0, <1>4, <4>1
      <4>2. CASE native = 1
        <5>1. m2 = Staged(mem, [x \in {m} |-> Reacted(m, <<"stage", s.token>>)], s.token)
          BY <4>2
        <5> HIDE DEF m2
        <5> QED
          BY <1>0, <1>2, <1>7, <2>2, <4>2, <5>1, ReactedReady
      <4> QED
        BY <4>1, <4>2
    <3> HIDE DEF m2, s3
    <3> QED
      BY <1>0, <2>2, <3>1, <3>2, <3>3, ReactionDoneKept
  <2> QED
    BY <1>7, <2>1, <2>2
<1> QED
  BY <1>5, <1>6, <1>7

(***************************************************************************)
(* Equalize and ExcitedGroups.                                             *)
(***************************************************************************)
\* A set of naturals that is not empty has a least element.
LEMMA LeastNatural ==
  ASSUME NEW T \in SUBSET Nat, T # {}
  PROVE  \E x \in T : \A y \in T : x <= y
<1> DEFINE R == {ss \in Nat \X Nat : ss[1] < ss[2]}
<1>1. IsWellFoundedOn(R, Nat)
  BY NatLessThanWellFounded DEF OpToRel
<1> HIDE DEF R
<1>2. PICK x \in T : \A y \in T : ~(<<y, x>> \in R)
  BY <1>1, WFMin
<1>3. \A y \in T : ~(y < x)
  BY <1>2 DEF R
<1> QED
  BY <1>3

LEMMA NothingCaptured == DOMAIN <<>> = {} /\ <<>> \in Inputs
<1>1. <<>> \in Seq(Value) /\ Len(<<>>) = 0
  BY EmptySeq
<1>2. DOMAIN <<>> = {}
  BY <1>1, LenProperties
<1>3. <<>> \in [{} -> Value]
  BY <1>2
<1> QED
  BY <1>2, <1>3 DEF Inputs

\* Before its computation a component has no entries and no candidates.
LEMMA UncomputedReady ==
  ASSUME NEW mm, NEW lg, NEW s, Ready(s, mm, lg), ComponentKind(s), ~s.computed,
         NEW s2 \in StageRecords, s2.kind = s.kind, s2.token = s.token,
         s2.computed = s.computed, s2.entries = s.entries, s2.entered = s.entered,
         TokensLeft(s2), InputsTold(s2, mm),
         \A i \in DOMAIN s2.queue : i <= s2.done => Home[s2.queue[i]] \in DOMAIN s2.input
  PROVE  Ready(s2, mm, lg)
<1>1. /\ Len(s.entries) = 0 /\ s.entered = 0 /\ ComponentKind(s2)
      /\ \A m \in Mixtures : ~Carries(mm, m, s.token)
  BY DEF Ready, ComponentReady, ComponentKind
<1>2. DOMAIN s2.entries = {}
  <2>1. s2.entries \in Seq(Entries)
    BY DEF StageRecords
  <2> QED
    BY <1>1, <2>1, LenProperties
<1>3. ComponentReady(s2, mm)
  BY <1>1, <1>2 DEF ComponentReady
<1>4. CarriersSound(s2, mm) /\ DiffusionReady(s2, mm) /\ ReactReady(s2, mm)
  BY <1>1 DEF CarriersSound, DiffusionReady, ReactReady, ComponentKind
<1> QED
  BY <1>3, <1>4 DEF Ready

WithComponent(s, visited, queue, in2) ==
  [s EXCEPT !.visited = visited, !.queue = queue, !.done = 0, !.input = in2]

LEMMA ComponentFields ==
  ASSUME NEW s \in StageRecords, NEW visited \in SUBSET Turfs, NEW queue \in Seq(Turfs),
         NEW in2 \in Inputs, NEW s2, s2 = WithComponent(s, visited, queue, in2)
  PROVE  /\ s2 \in StageRecords /\ s2.kind = s.kind /\ s2.active = s.active
         /\ s2.token = s.token /\ s2.computed = s.computed /\ s2.entries = s.entries
         /\ s2.entered = s.entered /\ s2.visited = visited /\ s2.queue = queue
         /\ s2.done = 0 /\ s2.input = in2
  BY DEF StageRecords, WithComponent

\* The first target that was not visited is found, and its component visits it.
LEMMA ComponentFacts ==
  ASSUME StageConstants, NEW s \in StageRecords, Unvisited(s) # {},
         NEW i, i = CHOOSE k \in DOMAIN s.nodes : /\ s.nodes[k] \in Unvisited(s)
                                                  /\ \A j \in 1..(k - 1) : s.nodes[j] \in s.visited,
         NEW C, C = ComponentOf(s, s.nodes[i])
  PROVE  C \subseteq Turfs /\ IsFiniteSet(C) /\ \E x \in C : x \notin s.visited
<1> DEFINE T == {j \in DOMAIN s.nodes : s.nodes[j] \in Unvisited(s)}
<1>1. s.nodes \in Seq(Turfs) /\ DOMAIN s.nodes = 1..Len(s.nodes) /\ Len(s.nodes) \in Nat
      /\ ToSet(s.nodes) \subseteq Turfs
  <2>1. s.nodes \in Seq(Turfs)
    BY DEF StageRecords
  <2>2. DOMAIN s.nodes = 1..Len(s.nodes) /\ Len(s.nodes) \in Nat
        /\ \A j \in DOMAIN s.nodes : s.nodes[j] \in Turfs
    BY <2>1, LenProperties, ElementOfSeq
  <2> QED
    BY <2>1, <2>2 DEF ToSet
<1>2. T \in SUBSET Nat /\ T # {}
  BY <1>1 DEF Unvisited, ToSet
<1>3. PICK x \in T : \A y \in T : x <= y
  BY <1>2, LeastNatural
<1>4. \A j \in 1..(x - 1) : s.nodes[j] \in s.visited
  <2> SUFFICES ASSUME NEW j \in 1..(x - 1), s.nodes[j] \notin s.visited PROVE FALSE
    OBVIOUS
  <2>1. j \in DOMAIN s.nodes
    BY <1>1, <1>3
  <2>2. j \in T
    BY <2>1 DEF Unvisited, ToSet
  <2> QED
    BY <1>1, <1>3, <2>2
<1>5. i \in DOMAIN s.nodes /\ s.nodes[i] \in Unvisited(s)
  BY <1>3, <1>4
<1>6. C \subseteq Turfs /\ s.nodes[i] \in C
  BY <1>1, <1>5 DEF ComponentOf, Unvisited
<1>7. IsFiniteSet(C)
  BY <1>6, FS_Subset DEF StageConstants, Turfs
<1> QED
  BY <1>5, <1>6, <1>7 DEF Unvisited

LEMMA DiscoverComponentKept ==
  ASSUME StageConstants, NEW s, Current(s), DiscoverComponent(s)
  PROVE  StageInv' /\ Quiet
<1> DEFINE i == CHOOSE k \in DOMAIN s.nodes : /\ s.nodes[k] \in Unvisited(s)
                                              /\ \A j \in 1..(k - 1) : s.nodes[j] \in s.visited
           C == ComponentOf(s, s.nodes[i])
           q == SetToSeq(C)
           visited == s.visited \union C
           s2 == WithComponent(s, visited, q, <<>>)
<1>0. /\ s \in StageRecords /\ Ready(s, mem, log) /\ mem \in Memories /\ ComponentKind(s)
      /\ s.queue = <<>> /\ Len(s.queue) = 0
  <2>1. Len(<<>>) = 0
    BY EmptySeq
  <2> QED
    BY <2>1 DEF Current, Base, Ready, DiscoverComponent
<1>1. Unused(mem, log, s.token) /\ \A n \in Mixtures : Visible(mem, n) = Vis(n)
  BY CurrentUnused DEF Vis
<1>2. CASE End(s) /\ UNCHANGED <<mem, suspended, events, log>>
  <2>1. /\ AbortStage(s) /\ mem' \in Memories /\ Unused(mem', log, s.token)
        /\ \A n \in Mixtures : Visible(mem', n) = Vis(n)
    BY <1>0, <1>1, <1>2 DEF AbortStage
  <2> QED
    BY <2>1, AbortKept
<1>3. CASE Unvisited(s) # {} /\ Proceed(s2, mem)
  <2>1. C \subseteq Turfs /\ IsFiniteSet(C) /\ \E x \in C : x \notin s.visited
    <3> HIDE DEF i, C
    <3>1. i = CHOOSE k \in DOMAIN s.nodes : /\ s.nodes[k] \in Unvisited(s)
                                            /\ \A j \in 1..(k - 1) : s.nodes[j] \in s.visited
      BY DEF i
    <3>2. C = ComponentOf(s, s.nodes[i])
      BY DEF C
    <3> QED
      BY <1>0, <1>3, <3>1, <3>2, ComponentFacts
  <2> HIDE DEF i, C
  <2>2. q \in Seq(C) /\ Len(q) = Cardinality(C)
    BY <2>1, SetToSeqFacts
  <2>3. q \in Seq(Turfs)
    BY <2>1, <2>2 DEF Seq
  <2>4. visited \in SUBSET Turfs /\ s.visited \in SUBSET Turfs
    BY <1>0, <2>1 DEF StageRecords
  <2> HIDE DEF q, s2
  <2>5. /\ s2 \in StageRecords /\ s2.kind = s.kind /\ s2.active = s.active
        /\ s2.token = s.token /\ s2.computed = s.computed /\ s2.entries = s.entries
        /\ s2.entered = s.entered /\ s2.visited = visited /\ s2.queue = q
        /\ s2.done = 0 /\ s2.input = <<>>
    <3> HIDE DEF visited
    <3>1. <<>> \in Inputs /\ s2 = WithComponent(s, visited, q, <<>>)
      BY NothingCaptured DEF s2
    <3> QED
      BY <1>0, <2>3, <2>4, <3>1, ComponentFields
  <2>6. ~s.computed
    BY <1>0 DEF Ready, ComponentReady
  <2>7. TokensLeft(s2)
    <3> DEFINE A == Turfs \ s.visited
               B == Turfs \ visited
    <3>1. IsFiniteSet(A) /\ B \in SUBSET A /\ A # B
      <4>1. IsFiniteSet(Turfs) /\ A \subseteq Turfs
        BY DEF StageConstants, Turfs
      <4>2. IsFiniteSet(A)
        BY <4>1, FS_Subset
      <4> QED
        BY <2>1, <2>4, <4>2
    <3> HIDE DEF A, B
    <3>2. /\ Cardinality(A) \in Nat /\ Cardinality(B) \in Nat
          /\ Cardinality(B) <= Cardinality(A) /\ Cardinality(B) # Cardinality(A)
      <4>1. IsFiniteSet(B) /\ Cardinality(B) <= Cardinality(A)
            /\ (Cardinality(A) = Cardinality(B) => A = B)
        BY <3>1, FS_Subset
      <4> QED
        BY <3>1, <4>1, FS_CardinalityType
    <3>3. s.token + Cardinality(A) <= MaxTokens /\ s.token \in Nat /\ MaxTokens \in Nat
      <4>1. s.token \in Nat /\ MaxTokens \in Nat
        BY <1>0 DEF StageRecords, StageConstants
      <4>2. s.token + Cardinality(A) + 0 <= MaxTokens
        BY <1>0 DEF Ready, TokensLeft, A
      <4> QED
        BY <3>2, <4>1, <4>2
    <3>4. \A e \in {0, 1} : s.token + Cardinality(B) + e <= MaxTokens
      BY <3>2, <3>3
    <3> QED
      BY <2>5, <3>4 DEF TokensLeft, B
  <2>8. InputsTold(s2, mem)
    BY <2>5, NothingCaptured DEF InputsTold
  <2>9. \A x \in DOMAIN s2.queue : x <= s2.done => Home[s2.queue[x]] \in DOMAIN s2.input
    BY <2>3, <2>5, LenProperties
  <2>10. Ready(s2, mem, log)
    BY <1>0, <2>5, <2>6, <2>7, <2>8, <2>9, UncomputedReady
  <2> QED
    BY <1>0, <1>1, <1>3, <2>5, <2>10, ProceedKept
<1> QED
  BY <1>0, <1>2, <1>3 DEF DiscoverComponent, WithComponent

WithInput(s, done, in2) == [s EXCEPT !.done = done, !.input = in2]

LEMMA InputFields ==
  ASSUME NEW s \in StageRecords, NEW done \in Nat, NEW in2 \in Inputs, NEW s2,
         s2 = WithInput(s, done, in2)
  PROVE  /\ s2 \in StageRecords /\ s2.kind = s.kind /\ s2.active = s.active
         /\ s2.token = s.token /\ s2.computed = s.computed /\ s2.entries = s.entries
         /\ s2.entered = s.entered /\ s2.visited = s.visited /\ s2.queue = s.queue
         /\ s2.done = done /\ s2.input = in2
  BY DEF StageRecords, WithInput

LEMMA CaptureTurfKept ==
  ASSUME StageConstants, NEW s, Current(s), CaptureTurf(s)
  PROVE  StageInv' /\ Quiet
<1> DEFINE m == Home[s.queue[s.done + 1]]
           in2 == [x \in DOMAIN s.input \union {m} |-> IF x = m THEN Vis(m) ELSE s.input[x]]
           s2 == WithInput(s, s.done + 1, in2)
<1>0. /\ s \in StageRecords /\ Ready(s, mem, log) /\ mem \in Memories /\ ComponentKind(s)
      /\ ~s.computed /\ s.done < Len(s.queue) /\ s.done \in Nat /\ s.queue \in Seq(Turfs)
  BY DEF Current, Base, Ready, CaptureTurf, StageRecords
<1>1. Unused(mem, log, s.token) /\ \A n \in Mixtures : Visible(mem, n) = Vis(n)
  BY CurrentUnused DEF Vis
<1>2. Proceed(s2, mem)
  BY <1>0 DEF CaptureTurf, WithInput, StageRecords
<1>3. m \in Mixtures /\ Vis(m) \in Value
  <2>1. s.queue[s.done + 1] \in Turfs
    BY <1>0, ElementOfSeq
  <2> QED
    BY <1>0, <2>1, MemoryFacts DEF StageConstants, Turfs, Vis
<1>4. DOMAIN s.input \subseteq Mixtures /\ \A x \in DOMAIN s.input : s.input[x] \in Value
  BY <1>0, InputFacts
<1>5. in2 \in Inputs
  <2>1. in2 \in [DOMAIN s.input \union {m} -> Value] /\ DOMAIN s.input \union {m} \in SUBSET Mixtures
    BY <1>3, <1>4
  <2> HIDE DEF in2
  <2> QED
    BY <2>1 DEF Inputs
<1>6. /\ DOMAIN in2 = DOMAIN s.input \union {m} /\ in2[m] = Vis(m)
      /\ \A x \in DOMAIN s.input : x # m => in2[x] = s.input[x]
  OBVIOUS
<1> HIDE DEF in2, s2
<1>7. /\ s2 \in StageRecords /\ s2.kind = s.kind /\ s2.active = s.active
      /\ s2.token = s.token /\ s2.computed = s.computed /\ s2.entries = s.entries
      /\ s2.entered = s.entered /\ s2.visited = s.visited /\ s2.queue = s.queue
      /\ s2.done = s.done + 1 /\ s2.input = in2
  BY <1>0, <1>5, InputFields DEF s2
<1>8. TokensLeft(s2)
  BY <1>0, <1>7 DEF Ready, TokensLeft, ComponentKind
<1>9. InputsTold(s2, mem)
  <2> HIDE DEF m
  <2> SUFFICES ASSUME NEW x \in DOMAIN in2
               PROVE  /\ in2[x].rev <= Visible(mem, x).rev
                      /\ in2[x].rev = Visible(mem, x).rev => in2[x] = Visible(mem, x)
    BY <1>7 DEF InputsTold
  <2>1. CASE x = m
    BY <1>3, <1>6, <2>1 DEF Vis, Value
  <2>2. CASE x # m
    BY <1>0, <1>6, <2>2 DEF Ready, InputsTold
  <2> QED
    BY <2>1, <2>2
<1>10. \A i \in DOMAIN s2.queue : i <= s2.done => Home[s2.queue[i]] \in DOMAIN s2.input
  <2> SUFFICES ASSUME NEW i \in DOMAIN s.queue, i <= s.done + 1
               PROVE  Home[s.queue[i]] \in DOMAIN in2
    BY <1>7
  <2>1. i = s.done + 1 \/ i <= s.done
    BY <1>0, LenProperties
  <2>2. i <= s.done => Home[s.queue[i]] \in DOMAIN s.input
    BY <1>0 DEF Ready, ComponentReady
  <2> QED
    BY <1>6, <2>1, <2>2
<1>11. Ready(s2, mem, log)
  BY <1>0, <1>7, <1>8, <1>9, <1>10, UncomputedReady
<1> QED
  BY <1>0, <1>1, <1>2, <1>7, <1>11, ProceedKept

(* The entries of a computation: one for each mixture of D, kept as it was *)
(* captured or made of captured mixtures of D.                             *)
EntriesFrom(s, D, es) ==
  /\ IsFiniteSet(es) /\ D \subseteq DOMAIN s.input
  /\ \A e \in es : /\ e \in Entries /\ e.m \in D /\ e.expected = s.input[e.m].rev
                   /\ \/ e.made = s.input[e.m].made
                      \/ \E S \in SUBSET D : e.m \in S /\ e.made = MadeOf(s, S)
  /\ \A m \in D : \E e \in es : e.m = m

LEMMA ComputationFacts ==
  ASSUME StageConstants, NEW s, Ready(s, mem, log), ComponentKind(s), s.done = Len(s.queue),
         NEW es \in Computations(s)
  PROVE  \E D : EntriesFrom(s, D, es)
<1> DEFINE mt == MutableTurfs(s)
           ms == {Home[t] : t \in mt}
<1>0. s \in StageRecords /\ s.queue \in Seq(Turfs) /\ s.token \in Nat
  BY DEF Ready, StageRecords
<1>1. \A t \in mt : t \in Turfs /\ Home[t] \in DOMAIN s.input
  <2> SUFFICES ASSUME NEW t \in mt PROVE t \in Turfs /\ Home[t] \in DOMAIN s.input
    OBVIOUS
  <2>1. PICK i \in DOMAIN s.queue : s.queue[i] = t
    BY DEF MutableTurfs, ToSet
  <2>2. i \in 1..Len(s.queue) /\ Len(s.queue) \in Nat
    BY <1>0, LenProperties
  <2>3. i <= s.done /\ t \in Turfs
    BY <1>0, <2>1, <2>2, ElementOfSeq
  <2> QED
    BY <2>1, <2>3 DEF Ready, ComponentReady
<1>2. IsFiniteSet(ms) /\ ms \subseteq DOMAIN s.input
  <2> DEFINE f == [t \in mt |-> Home[t]]
  <2>1. IsFiniteSet(Turfs) /\ mt \subseteq Turfs
    BY <1>1 DEF StageConstants, Turfs
  <2>2. IsFiniteSet(mt)
    BY <2>1, FS_Subset
  <2>3. f \in Surjection(mt, ms)
    BY DEF Surjection
  <2> HIDE DEF f, mt
  <2>4. IsFiniteSet(ms)
    BY <2>2, <2>3, FS_Surjection
  <2> QED
    BY <1>1, <2>4 DEF mt
<1>3. /\ DOMAIN s.input \subseteq Mixtures
      /\ \A m \in DOMAIN s.input : s.input[m].rev \in Nat /\ s.input[m].made \in SUBSET Changes
  BY <1>0, InputFacts
<1> HIDE DEF ms, mt
<1>4. ASSUME NEW D \in SUBSET ms, NEW S \in SUBSET D, NEW m \in S
      PROVE  /\ MixedFrom(s, m, S) \in Entries /\ MixedFrom(s, m, S).m = m
             /\ MixedFrom(s, m, S).expected = s.input[m].rev
             /\ MixedFrom(s, m, S).made = MadeOf(s, S)
  <2>1. MixedFrom(s, m, S) = [m |-> m, expected |-> s.input[m].rev, made |-> MadeOf(s, S)]
    BY DEF MixedFrom, MadeOf
  <2>2. m \in Mixtures /\ s.input[m].rev \in Nat
    BY <1>2, <1>3
  <2>3. MadeOf(s, S) \in SUBSET Changes
    BY <1>0, <1>2, <1>3 DEF MadeOf, Changes
  <2> QED
    BY <2>1, <2>2, <2>3 DEF Entries
<1>5. ASSUME NEW m \in ms
      PROVE  /\ KeptFrom(s, m) \in Entries /\ KeptFrom(s, m).m = m
             /\ KeptFrom(s, m).expected = s.input[m].rev
             /\ KeptFrom(s, m).made = s.input[m].made
  <2>1. m \in Mixtures /\ s.input[m].rev \in Nat /\ s.input[m].made \in SUBSET Changes
    BY <1>2, <1>3
  <2> QED
    BY <2>1 DEF Entries, KeptFrom
<1>6. CASE es = {}
  <2>1. EntriesFrom(s, {}, es)
    BY <1>6, FS_EmptySet DEF EntriesFrom
  <2> QED
    BY <2>1
<1>7. ASSUME NEW changed \in SUBSET ms,
             es = {IF m \in changed THEN MixedFrom(s, m, ms) ELSE KeptFrom(s, m) : m \in ms}
      PROVE  EntriesFrom(s, ms, es)
  <2> DEFINE f == [m \in ms |-> IF m \in changed THEN MixedFrom(s, m, ms) ELSE KeptFrom(s, m)]
  <2>1. f \in Surjection(ms, es)
    BY <1>7 DEF Surjection
  <2>2. IsFiniteSet(es)
    <3> HIDE DEF f
    <3> QED
      BY <1>2, <2>1, FS_Surjection
  <2>3. \A m \in ms : /\ f[m] \in Entries /\ f[m].m = m /\ f[m].expected = s.input[m].rev
                      /\ f[m].made = s.input[m].made \/ f[m].made = MadeOf(s, ms)
    BY <1>4, <1>5
  <2>4. (\A m \in ms : f[m] \in es) /\ \A e \in es : \E m \in ms : e = f[m]
    BY <1>7
  <2> HIDE DEF f
  <2>5. ASSUME NEW e \in es
        PROVE  /\ e \in Entries /\ e.m \in ms /\ e.expected = s.input[e.m].rev
               /\ \/ e.made = s.input[e.m].made
                  \/ \E S \in SUBSET ms : e.m \in S /\ e.made = MadeOf(s, S)
    <3>1. PICK m \in ms : e = f[m]
      BY <2>4
    <3>2. e \in Entries /\ e.m = m /\ e.expected = s.input[m].rev
          /\ (e.made = s.input[m].made \/ e.made = MadeOf(s, ms))
      BY <2>3, <3>1
    <3> QED
      BY <3>2
  <2> QED
    BY <1>2, <2>2, <2>3, <2>4, <2>5 DEF EntriesFrom
<1>8. ASSUME NEW D \in SUBSET ms, NEW lead \in [D -> D],
             es = {MixedFrom(s, m, {n \in D : lead[n] = lead[m]}) : m \in D}
      PROVE  EntriesFrom(s, D, es)
  <2> DEFINE group(m) == {n \in D : lead[n] = lead[m]}
             f == [m \in D |-> MixedFrom(s, m, group(m))]
  <2>1. f \in Surjection(D, es)
    BY <1>8 DEF Surjection
  <2>2. IsFiniteSet(es)
    <3> HIDE DEF f
    <3>1. IsFiniteSet(D)
      BY <1>2, FS_Subset
    <3> QED
      BY <2>1, <3>1, FS_Surjection
  <2>3. \A m \in D : m \in group(m) /\ group(m) \in SUBSET D
    OBVIOUS
  <2>a. (\A m \in D : f[m] = MixedFrom(s, m, group(m)) /\ f[m] \in es)
        /\ \A e \in es : \E m \in D : e = f[m]
    BY <1>8
  <2> HIDE DEF f, group
  <2>4. \A m \in D : /\ f[m] \in Entries /\ f[m].m = m /\ f[m].expected = s.input[m].rev
                     /\ f[m].made = MadeOf(s, group(m))
    <3> SUFFICES ASSUME NEW m \in D
                 PROVE  /\ f[m] \in Entries /\ f[m].m = m /\ f[m].expected = s.input[m].rev
                        /\ f[m].made = MadeOf(s, group(m))
      OBVIOUS
    <3>1. PICK S \in SUBSET D : S = group(m) /\ m \in S
      BY <2>3
    <3>2. f[m] = MixedFrom(s, m, S)
      BY <2>a, <3>1
    <3> QED
      BY <1>4, <3>1, <3>2
  <2>5. ASSUME NEW e \in es
        PROVE  /\ e \in Entries /\ e.m \in D /\ e.expected = s.input[e.m].rev
               /\ \E S \in SUBSET D : e.m \in S /\ e.made = MadeOf(s, S)
    <3>1. PICK m \in D : e = f[m]
      BY <2>a
    <3> QED
      BY <2>3, <2>4, <3>1
  <2> QED
    BY <1>2, <2>2, <2>4, <2>5, <2>a DEF EntriesFrom
<1>9. CASE s.kind = "Equalize"
  BY <1>6, <1>7, <1>9 DEF Computations, ms, mt
<1>10. CASE s.kind # "Equalize"
  <2>a. PICK lead \in UNION {[S -> S] : S \in SUBSET ms} :
          es = {MixedFrom(s, m, {n \in DOMAIN lead : lead[n] = lead[m]}) : m \in DOMAIN lead}
    BY <1>10 DEF Computations, ms, mt
  <2>1. PICK D \in SUBSET ms : lead \in [D -> D]
    OBVIOUS
  <2>2. DOMAIN lead = D
    BY <2>1
  <2>3. es = {MixedFrom(s, m, {n \in D : lead[n] = lead[m]}) : m \in D}
    BY <2>a, <2>2
  <2> QED
    BY <1>8, <2>1, <2>3
<1> QED
  BY <1>9, <1>10

(* The cursor when the kernel has ended, after one more entry, and after   *)
(* the publication of a component.                                         *)
WithEntries(s, q, emitted) == [s EXCEPT !.computed = TRUE, !.entries = q, !.staged = emitted]

WithEntered(s, n, P) == [s EXCEPT !.entered = n, !.publishedMixtures = P]

WithNext(s, token, q, entries, in2) ==
  [s EXCEPT !.token = token, !.staged = 0, !.queue = q, !.computed = FALSE,
            !.entries = entries, !.entered = 0, !.input = in2]

(* Two cursors at the same component that differ in its entries. *)
SameComponent(s, s2, computed, entries, entered) ==
  /\ s2 \in StageRecords /\ s2.kind = s.kind /\ s2.active = s.active
  /\ s2.token = s.token /\ s2.computed = computed /\ s2.entries = entries
  /\ s2.entered = entered /\ s2.visited = s.visited /\ s2.queue = s.queue
  /\ s2.done = s.done /\ s2.input = s.input

LEMMA EntriesFields ==
  ASSUME NEW s \in StageRecords, NEW q \in Seq(Entries), NEW emitted \in Nat, NEW s2,
         s2 = WithEntries(s, q, emitted)
  PROVE  SameComponent(s, s2, TRUE, q, s.entered)
  BY DEF StageRecords, WithEntries, SameComponent

LEMMA EnteredFields ==
  ASSUME NEW s \in StageRecords, NEW n \in Nat, NEW P \in SUBSET Mixtures, NEW s2,
         s2 = WithEntered(s, n, P)
  PROVE  SameComponent(s, s2, s.computed, s.entries, n)
  BY DEF StageRecords, WithEntered, SameComponent

(* The cursor before its next component. *)
AtNext(s, s2, token, q, entries, in2) ==
  /\ s2 \in StageRecords /\ s2.kind = s.kind /\ s2.active = s.active
  /\ s2.token = token /\ s2.computed = FALSE /\ s2.entries = entries
  /\ s2.entered = 0 /\ s2.visited = s.visited /\ s2.queue = q
  /\ s2.input = in2

LEMMA NextFields ==
  ASSUME NEW s \in StageRecords, NEW token \in Nat, NEW q \in Seq(Turfs),
         NEW entries \in Seq(Entries), NEW in2 \in Inputs, NEW s2,
         s2 = WithNext(s, token, q, entries, in2)
  PROVE  AtNext(s, s2, token, q, entries, in2)
  BY DEF StageRecords, WithNext, AtNext

\* The computed entries are sound, and none of them has a candidate yet.
LEMMA ComputedReady ==
  ASSUME StageConstants, NEW s, Ready(s, mem, log), ComponentKind(s), s.queue # <<>>,
         ~s.computed, NEW D, NEW es, EntriesFrom(s, D, es), NEW emitted \in Nat, NEW s2,
         s2 = WithEntries(s, SetToSeq(es), emitted)
  PROVE  /\ Ready(s2, mem, log) /\ ComponentKind(s2) /\ s2.computed
         /\ s2.token = s.token /\ s2.kind = s.kind /\ s2.active = s.active
<1> DEFINE q == SetToSeq(es)
<1>0. /\ s \in StageRecords /\ s.queue \in Seq(Turfs) /\ s.entered = 0
      /\ \A m \in Mixtures : ~Carries(mem, m, s.token)
  BY DEF Ready, StageRecords, ComponentReady
<1>1. /\ q \in Seq(es) /\ \A i \in DOMAIN q : q[i] \in es
      /\ \A e \in es : \E i \in DOMAIN q : q[i] = e
  BY SetToSeqFacts DEF EntriesFrom
<1>2. q \in Seq(Entries)
  BY <1>1 DEF EntriesFrom, Seq
<1>a. s2 = WithEntries(s, q, emitted)
  OBVIOUS
<1> HIDE DEF q
<1>3. /\ s2 \in StageRecords /\ s2.kind = s.kind /\ s2.active = s.active
      /\ s2.token = s.token /\ s2.computed = TRUE /\ s2.entries = q
      /\ s2.entered = s.entered /\ s2.visited = s.visited /\ s2.queue = s.queue
      /\ s2.done = s.done /\ s2.input = s.input
  <2>1. SameComponent(s, s2, TRUE, q, s.entered)
    BY <1>0, <1>2, <1>a, EntriesFields
  <2> QED
    BY <2>1 DEF SameComponent
<1>4. ComponentKind(s2) /\ s2.kind # "ProcessTurfs"
  BY <1>3 DEF ComponentKind
<1>5. D = Relied(s2) /\ \A S : MadeOf(s2, S) = MadeOf(s, S)
  <2>1. Relied(s2) = {q[i].m : i \in DOMAIN q}
    BY <1>3, <1>4 DEF Relied
  <2>2. \A i \in DOMAIN q : q[i].m \in D
    BY <1>1 DEF EntriesFrom
  <2>3. \A m \in D : \E i \in DOMAIN q : q[i].m = m
    BY <1>1 DEF EntriesFrom
  <2>4. \A S : MadeOf(s2, S) = MadeOf(s, S)
    BY <1>3 DEF MadeOf
  <2> QED
    BY <2>1, <2>2, <2>3, <2>4
<1>6. \A i \in DOMAIN s2.entries : EntrySound(s2, s2.entries[i])
  <2> SUFFICES ASSUME NEW i \in DOMAIN q PROVE EntrySound(s2, q[i])
    BY <1>3
  <2>1. PICK e \in es : e = q[i]
    BY <1>1
  <2>2. /\ e.m \in D /\ D \subseteq DOMAIN s.input /\ e.expected = s.input[e.m].rev
        /\ \/ e.made = s.input[e.m].made
           \/ \E S \in SUBSET D : e.m \in S /\ e.made = MadeOf(s, S)
    BY DEF EntriesFrom
  <2> QED
    BY <1>3, <1>5, <2>1, <2>2 DEF EntrySound
<1>7. ComponentReady(s2, mem)
  <2>1. Len(s2.queue) > 0
    BY <1>0, <1>3, EmptySeq
  <2>2. \A i \in DOMAIN s2.entries : ~(i <= s2.entered)
    BY <1>0, <1>2, <1>3, LenProperties
  <2>3. \A i \in DOMAIN s2.queue : i <= s2.done => Home[s2.queue[i]] \in DOMAIN s2.input
    BY <1>3 DEF Ready, ComponentReady
  <2> QED
    BY <1>3, <1>6, <2>1, <2>2, <2>3 DEF ComponentReady
<1>8. CarriersSound(s2, mem) /\ DiffusionReady(s2, mem) /\ ReactReady(s2, mem)
  BY <1>0, <1>3, <1>4 DEF CarriersSound, DiffusionReady, ReactReady, ComponentKind
<1>9. InputsTold(s2, mem) /\ TokensLeft(s2)
  BY <1>3, <1>4 DEF Ready, InputsTold, TokensLeft
<1>10. Ready(s2, mem, log)
  BY <1>3, <1>7, <1>8, <1>9 DEF Ready
<1> QED
  BY <1>3, <1>4, <1>10

\* One more entry carries its candidate.
LEMMA EnteredReady ==
  ASSUME NEW mm, NEW lg, NEW s, Ready(s, mm, lg), ComponentKind(s), s.computed,
         s.entered < Len(s.entries), Carries(mm, s.entries[s.entered + 1].m, s.token),
         NEW s2 \in StageRecords, s2.kind = s.kind, s2.active = s.active,
         s2.token = s.token, s2.computed = s.computed, s2.entries = s.entries,
         s2.entered = s.entered + 1, s2.visited = s.visited, s2.queue = s.queue,
         s2.done = s.done, s2.input = s.input
  PROVE  Ready(s2, mm, lg)
<1>0. s \in StageRecords /\ s.entered \in Nat /\ s.entered + 1 \in Nat /\ s.entries \in Seq(Entries)
  BY DEF Ready, StageRecords
<1>2. ComponentKind(s2) /\ TokensLeft(s2) /\ InputsTold(s2, mm)
  BY DEF Ready, TokensLeft, InputsTold, ComponentKind
<1>3. Relied(s2) = Relied(s) /\ \A S : MadeOf(s2, S) = MadeOf(s, S)
  BY DEF Relied, MadeOf
<1>4. Pending(s2, mm) => CarriersSound(s2, mm)
  <2>1. \A m \in Mixtures : Justified(s, mm, m) => Justified(s2, mm, m)
    BY <1>3 DEF Justified
  <2> QED
    BY <2>1 DEF Ready, CarriersSound, Pending
<1>5. \A e : EntrySound(s, e) => EntrySound(s2, e)
  BY <1>3 DEF EntrySound
<1>6. \A i \in DOMAIN s.entries : i <= s.entered + 1 => i <= s.entered \/ i = s.entered + 1
  BY <1>0, LenProperties
<1>7. ComponentReady(s2, mm)
  BY <1>2, <1>5, <1>6 DEF Ready, ComponentReady, Pending
<1>8. DiffusionReady(s2, mm) /\ ReactReady(s2, mm)
  BY <1>2 DEF DiffusionReady, ReactReady, ComponentKind
<1> QED
  BY <1>2, <1>4, <1>7, <1>8 DEF Ready

\* An entry whose revision is still the captured one is staged over what it captured.
LEMMA StageEntryKept ==
  ASSUME StageConstants, NEW s, Current(s), ComponentKind(s), s.computed,
         s.entered < Len(s.entries), StageEntry(s)
  PROVE  StageInv' /\ Quiet
<1> DEFINE e == s.entries[s.entered + 1]
           m == e.m
           v == EntryCandidate(e)
           m2 == Staged(mem, [x \in {m} |-> v], s.token)
           P == s.publishedMixtures \union {m}
           s2 == WithEntered(s, s.entered + 1, P)
<1>0. /\ s \in StageRecords /\ Ready(s, mem, log) /\ mem \in Memories
      /\ s.entered \in Nat /\ s.entries \in Seq(Entries) /\ s.publishedMixtures \in SUBSET Mixtures
  BY DEF Current, Base, Ready, StageRecords
<1>1. s.entered + 1 \in DOMAIN s.entries /\ e \in Entries
  BY <1>0, LenProperties, ElementOfSeq
<1>2. m \in Mixtures /\ e.expected \in Nat /\ e.made \in SUBSET Changes
  BY <1>1 DEF Entries
<1>3. CASE UNCHANGED mem /\ AbortStage(s)
  <2>1. /\ mem' \in Memories /\ Unused(mem', log, s.token)
        /\ \A n \in Mixtures : Visible(mem', n) = Vis(n)
    BY <1>0, <1>3, CurrentUnused DEF Vis
  <2> QED
    BY <1>3, <2>1, AbortKept
<1>4. CASE ~EntryFails(s, e) /\ Proceed(s2, m2)
  <2>1. Vis(m) \in Value /\ Vis(m).rev \in 1..MaxRevision
    BY <1>0, <1>2, MemoryFacts DEF Vis, Current, Base, VisibleOK
  <2>2. /\ Vis(m).rev = e.expected
        /\ e.made # Vis(m).made => Vis(m).rev # MaxRevision
    BY <1>4 DEF EntryFails
  <2>3. EntrySound(s, e)
    BY <1>0, <1>1 DEF Ready, ComponentReady
  <2>4. m \in DOMAIN s.input /\ s.input[m] = Vis(m)
    BY <1>0, <2>2, <2>3 DEF EntrySound, Ready, InputsTold, Vis
  <2> HIDE DEF e, m
  <2> DEFINE r == IF e.made = Vis(m).made THEN Vis(m).rev ELSE Vis(m).rev + 1
  <2>5. v = [rev |-> r, made |-> e.made] /\ r \in Nat
    BY <2>1 DEF EntryCandidate, m
  <2> HIDE DEF v
  <2>6. v \in Value /\ v.rev = r /\ v.made = e.made
    <3> HIDE DEF r
    <3> QED
      BY <1>2, <2>5, ValueFacts
  <2>7. OneStaged(s, m, v, m2)
    BY <1>2, <2>6, StageOne
  <2> HIDE DEF m2
  <2>8. Visible(m2, m) = Vis(m) /\ m2.pend[m].value = v
    BY <1>2, <2>7 DEF OneStaged
  <2>9. Justified(s, m2, m)
    <3>1. CASE e.made = Vis(m).made
      <4>1. v = [rev |-> Vis(m).rev, made |-> Vis(m).made]
        BY <2>5, <3>1
      <4>2. v = Vis(m)
        BY <2>1, <4>1 DEF Value
      <4> QED
        BY <2>8, <4>2 DEF Justified
    <3>2. CASE e.made # Vis(m).made
      <4>1. PICK S \in SUBSET Relied(s) : m \in S /\ e.made = MadeOf(s, S)
        BY <2>3, <2>4, <3>2 DEF EntrySound, m
      <4>2. v.rev = Vis(m).rev + 1 /\ v.rev <= MaxRevision
        BY <2>1, <2>2, <2>6, <3>2 DEF StageConstants
      <4> QED
        BY <2>6, <2>8, <4>1, <4>2 DEF Justified, ComponentKind
    <3> QED
      BY <3>1, <3>2
  <2>10. Ready(s, m2, log)
    BY <1>2, <2>4, <2>7, <2>9, ReadyStaged DEF ComponentKind
  <2>11. P \in SUBSET Mixtures /\ Carries(m2, s.entries[s.entered + 1].m, s.token)
    BY <1>0, <1>2, <2>7 DEF OneStaged, m, e
  <2>12. /\ s2 \in StageRecords /\ s2.kind = s.kind /\ s2.active = s.active
         /\ s2.token = s.token /\ s2.computed = s.computed /\ s2.entries = s.entries
         /\ s2.entered = s.entered + 1 /\ s2.visited = s.visited /\ s2.queue = s.queue
         /\ s2.done = s.done /\ s2.input = s.input
    <3> DEFINE n == s.entered + 1
    <3>1. n \in Nat /\ s2 = WithEntered(s, n, P)
      BY <1>0
    <3> HIDE DEF P, s2, n
    <3>2. SameComponent(s, s2, s.computed, s.entries, n)
      BY <1>0, <2>11, <3>1, EnteredFields
    <3> QED
      BY <3>2 DEF n, SameComponent
  <2> HIDE DEF P, s2
  <2>15. Ready(s2, m2, log)
    BY <2>10, <2>11, <2>12, EnteredReady
  <2>13. m2 \in Memories /\ Unused(m2, log, s2.token) /\ \A n \in Mixtures : Visible(m2, n) = Vis(n)
    BY <2>7, <2>12 DEF OneStaged
  <2>14. Proceed(s2, m2)
    BY <1>4
  <2> QED
    BY <2>12, <2>13, <2>14, <2>15, ProceedKept
<1> QED
  BY <1>3, <1>4 DEF StageEntry, WithEntered

\* After a publication the next component has a token nobody used.
LEMMA NextReady ==
  ASSUME StageConstants, NEW s, Ready(s, mem, log), ComponentKind(s), s.computed,
         mem' \in Memories, LogOK', Unused(mem', log', s.token), NEW s2,
         s2 = WithNext(s, s.token + 1, <<>>, <<>>, <<>>)
  PROVE  /\ Ready(s2, mem', log') /\ Unused(mem', log', s2.token)
         /\ s2.kind = s.kind /\ s2.active = s.active
<1> DEFINE k == s.token + 1
<1>0. /\ s \in StageRecords /\ s.token \in Tokens /\ s.token \in Nat /\ Len(s.queue) > 0
      /\ MaxTokens \in Nat
  BY DEF Ready, Tokens, ComponentReady, StageConstants
<1>1. /\ s2 \in StageRecords /\ s2.kind = s.kind /\ s2.active = s.active
      /\ s2.token = k /\ s2.computed = FALSE /\ s2.entries = <<>>
      /\ s2.entered = 0 /\ s2.visited = s.visited /\ s2.queue = <<>>
      /\ s2.input = <<>>
  <2>1. k \in Nat /\ <<>> \in Seq(Turfs) /\ <<>> \in Seq(Entries) /\ <<>> \in Inputs
    BY <1>0, EmptySeq, NothingCaptured
  <2>2. s2 = WithNext(s, k, <<>>, <<>>, <<>>)
    OBVIOUS
  <2> HIDE DEF k
  <2>3. AtNext(s, s2, k, <<>>, <<>>, <<>>)
    BY <1>0, <2>1, <2>2, NextFields
  <2> QED
    BY <2>3 DEF AtNext
<1>2. Cardinality(Turfs \ s.visited) \in Nat
  <2>1. IsFiniteSet(Turfs) /\ Turfs \ s.visited \subseteq Turfs
    BY DEF StageConstants, Turfs
  <2>2. IsFiniteSet(Turfs \ s.visited)
    BY <2>1, FS_Subset
  <2> QED
    BY <2>2, FS_CardinalityType
<1>3. k + Cardinality(Turfs \ s.visited) <= MaxTokens
  <2>1. s.token + Cardinality(Turfs \ s.visited) + 1 <= MaxTokens
    BY <1>0 DEF Ready, TokensLeft
  <2> QED
    BY <1>0, <1>2, <2>1
<1>4. k \in Tokens /\ k > s.token /\ k \in Nat
  BY <1>0, <1>2, <1>3 DEF Tokens
<1>5. Len(<<>>) = 0 /\ DOMAIN <<>> = {}
  BY EmptySeq, NothingCaptured
<1> HIDE DEF k
<1>6. TokensLeft(s2)
  <2>1. k + Cardinality(Turfs \ s.visited) + 0 <= MaxTokens
    BY <1>2, <1>3, <1>4
  <2> QED
    BY <1>1, <1>5, <2>1 DEF TokensLeft
<1>7. mem'.tok[k] = "PENDING"
  BY <1>4 DEF Unused
<1>8. \A m \in Mixtures : ~Carries(mem', m, k) /\ mem'.pend[m].token <= k
  <2> SUFFICES ASSUME NEW m \in Mixtures PROVE ~Carries(mem', m, k) /\ mem'.pend[m].token <= k
    OBVIOUS
  <2>1. mem'.pend[m].token \in Nat
    BY MemoryFacts DEF Tokens
  <2>2. mem'.pend[m].token <= s.token
    BY DEF Unused
  <2> QED
    BY <1>0, <1>4, <2>1, <2>2 DEF Carries
<1>9. \A i \in DOMAIN log' : log'[i] # <<"stage", k>> /\ (log'[i][1] = "stage" => log'[i][2] <= k)
  <2> SUFFICES ASSUME NEW i \in DOMAIN log'
               PROVE  log'[i] # <<"stage", k>> /\ (log'[i][1] = "stage" => log'[i][2] <= k)
    OBVIOUS
  <2>1. log'[i] \in Changes
    BY ElementOfSeq, LenProperties DEF LogOK
  <2>2. log'[i][2] \in Nat
    BY <2>1 DEF Changes
  <2>3. log'[i][1] = "stage" => log'[i][2] <= s.token
    BY DEF Unused
  <2> QED
    BY <1>0, <1>4, <2>2, <2>3
<1>10. Unused(mem', log', k)
  <2>1. \A j \in Tokens : j > k => mem'.tok[j] = "PENDING"
    BY <1>0, <1>4 DEF Unused, Tokens
  <2> QED
    BY <1>8, <1>9, <2>1 DEF Unused
<1>11. ComponentKind(s2) /\ InputsTold(s2, mem') /\ CarriersSound(s2, mem')
  BY <1>1, <1>5, <1>8 DEF ComponentKind, InputsTold, CarriersSound
<1>12. ComponentReady(s2, mem') /\ DiffusionReady(s2, mem') /\ ReactReady(s2, mem')
  BY <1>1, <1>5, <1>8, <1>11 DEF ComponentReady, DiffusionReady, ReactReady, ComponentKind
<1>13. Ready(s2, mem', log')
  BY <1>1, <1>4, <1>6, <1>7, <1>9, <1>11, <1>12 DEF Ready
<1> QED
  BY <1>1, <1>10, <1>13

LEMMA PublishComponentKept ==
  ASSUME StageConstants, NEW s, Current(s), ComponentKind(s), s.computed,
         ~(s.entered < Len(s.entries)), PublishComponent(s)
  PROVE  StageInv' /\ StepOK
<1> DEFINE s2 == WithNext(s, s.token + 1, <<>>, <<>>, <<>>)
           ev == s.staged
<1>0. /\ s \in StageRecords /\ Ready(s, mem, log) /\ mem \in Memories /\ ev \in Nat
      /\ s.entered \in Nat /\ s.entries \in Seq(Entries)
      /\ Unused(mem, log, s.token) /\ \A n \in Mixtures : Visible(mem, n) = Vis(n)
  BY CurrentUnused DEF Current, Base, Ready, StageRecords, Vis
<1>1. CASE UNCHANGED mem /\ AbortStage(s)
  <2>1. /\ mem' \in Memories /\ Unused(mem', log, s.token)
        /\ \A n \in Mixtures : Visible(mem', n) = Vis(n)
    BY <1>0, <1>1
  <2> QED
    BY <1>1, <2>1, AbortKept DEF StepOK
<1>2. CASE /\ ~CommitFails(s, mem, ev) /\ Publish(s, mem, ev) /\ Continue(s2)
           /\ UNCHANGED suspended
  <2> HIDE DEF ev, s2
  <2>1. \A n \in Relied(s) : n \in DOMAIN s.input /\ (Pending(s, mem) => Carries(mem, n, s.token))
    <3> SUFFICES ASSUME NEW i \in DOMAIN s.entries
                 PROVE  /\ s.entries[i].m \in DOMAIN s.input
                        /\ Pending(s, mem) => Carries(mem, s.entries[i].m, s.token)
      BY DEF Relied, ComponentKind
    <3>1. i <= s.entered
      BY <1>0, LenProperties
    <3> QED
      BY <1>0, <3>1 DEF Ready, ComponentReady, EntrySound
  <2>2. /\ Shown(<<"stage", s.token>>) /\ mem' \in Memories
        /\ Unused(mem', log', s.token) /\ LogOK' /\ VisibleOK' /\ events' \in 0..MaxEvents
    BY <1>0, <1>2, <2>1, PublishEnds
  <2>3. /\ Ready(s2, mem', log') /\ Unused(mem', log', s2.token)
        /\ s2.kind = s.kind /\ s2.active = s.active
    BY <1>0, <2>2, NextReady DEF s2
  <2> QED
    BY <1>2, <2>2, <2>3, ContinueKept DEF StepOK
<1> QED
  BY <1>0, <1>1, <1>2 DEF PublishComponent, WithNext, StageRecords

LEMMA EntryOrPublishKept ==
  ASSUME StageConstants, NEW s, Current(s), ComponentKind(s), s.computed, EntryOrPublish(s)
  PROVE  StageInv' /\ StepOK
  BY StageEntryKept, PublishComponentKept DEF EntryOrPublish, StepOK

LEMMA ComputeComponentKept ==
  ASSUME StageConstants, NEW s, Current(s), ComputeComponent(s)
  PROVE  StageInv' /\ StepOK
<1>0. /\ s \in StageRecords /\ Ready(s, mem, log) /\ mem \in Memories /\ ComponentKind(s)
      /\ s.queue # <<>> /\ ~s.computed /\ s.done = Len(s.queue)
      /\ Unused(mem, log, s.token) /\ \A n \in Mixtures : Visible(mem, n) = Vis(n)
  BY CurrentUnused DEF Current, Base, Ready, Vis, ComputeComponent
<1>1. CASE UNCHANGED mem /\ AbortStage(s)
  <2>1. /\ mem' \in Memories /\ Unused(mem', log, s.token)
        /\ \A n \in Mixtures : Visible(mem', n) = Vis(n)
    BY <1>0, <1>1
  <2> QED
    BY <1>1, <2>1, AbortKept DEF StepOK
<1>2. ASSUME NEW es \in Computations(s), NEW emitted \in 0..1,
             EntryOrPublish(WithEntries(s, SetToSeq(es), emitted))
      PROVE  StageInv' /\ StepOK
  <2> DEFINE s2 == WithEntries(s, SetToSeq(es), emitted)
  <2>1. PICK D : EntriesFrom(s, D, es)
    BY <1>0, ComputationFacts
  <2>2. emitted \in Nat /\ EntryOrPublish(s2)
    BY <1>2
  <2> HIDE DEF s2
  <2>3. /\ Ready(s2, mem, log) /\ ComponentKind(s2) /\ s2.computed
        /\ s2.token = s.token /\ s2.kind = s.kind /\ s2.active = s.active
    BY <1>0, <2>1, <2>2, ComputedReady DEF s2
  <2>4. Current(s2)
    BY <2>3 DEF Current, ComponentKind
  <2> QED
    BY <2>2, <2>3, <2>4, EntryOrPublishKept
<1> QED
  BY <1>1, <1>2 DEF ComputeComponent, WithEntries

LEMMA ItemKept ==
  ASSUME StageConstants, NEW s, Current(s), Item(s)
  PROVE  StageInv' /\ StepOK
<1>1. CASE WalkDiffusion(s)
  BY <1>1, WalkDiffusionKept DEF StepOK
<1>2. CASE DiffusionNode(s)
  BY <1>2, DiffusionNodeKept
<1>3. CASE WalkReactions(s) \/ WalkComponents(s)
  BY <1>3, WalkKept DEF StepOK
<1>4. CASE ReactTarget(s)
  BY <1>4, ReactTargetKept
<1>5. CASE DiscoverComponent(s)
  BY <1>5, DiscoverComponentKept DEF StepOK
<1>6. CASE CaptureTurf(s)
  BY <1>6, CaptureTurfKept DEF StepOK
<1>7. CASE ComputeComponent(s)
  BY <1>7, ComputeComponentKept
<1>8. CASE PublishEntry(s)
  BY <1>8, EntryOrPublishKept DEF PublishEntry
<1> QED
  BY <1>1, <1>2, <1>3, <1>4, <1>5, <1>6, <1>7, <1>8 DEF Item

(***************************************************************************)
(* A new stage.                                                            *)
(***************************************************************************)
NewCursor(kind, f, token, q, entries, in2, active) ==
  [kind |-> kind, frontier |-> f, token |-> token, next |-> 1, nodes |-> q, done |-> 0,
   input |-> in2, seenMixtures |-> {}, staged |-> 0, active |-> active, visited |-> {},
   queue |-> q, computed |-> FALSE, entries |-> entries, entered |-> 0,
   publishedMixtures |-> {}]

AtStart(s, kind, token, q, entries, in2, active) ==
  /\ s \in StageRecords /\ s.kind = kind /\ s.token = token /\ s.nodes = q /\ s.queue = q
  /\ s.entries = entries /\ s.input = in2 /\ s.active = active /\ s.visited = {}
  /\ s.computed = FALSE /\ s.entered = 0

LEMMA NewFields ==
  ASSUME NEW kind \in {"ProcessTurfs", "React", "Equalize", "ExcitedGroups"},
         NEW f \in Seq(Turfs), NEW token \in Nat, NEW q \in Seq(Turfs),
         NEW entries \in Seq(Entries), NEW in2 \in Inputs, NEW active \in SUBSET Mixtures,
         NEW s, s = NewCursor(kind, f, token, q, entries, in2, active)
  PROVE  AtStart(s, kind, token, q, entries, in2, active)
  BY DEF StageRecords, NewCursor, AtStart

LEMMA BeginStageKept ==
  ASSUME StageConstants, StageInv, BeginStage
  PROVE  StageInv' /\ StepOK
<1>1. PICK kind \in Kinds, f \in Frontiers :
        /\ used + (IF ComponentKind(NewStage(kind, f)) THEN Cardinality(Turfs) ELSE 0) < MaxTokens
        /\ Item(NewStage(kind, f))
  BY DEF BeginStage
<1> DEFINE s == NewStage(kind, f)
           k == used + 1
           active == IF kind = "React" THEN Suspended ELSE {}
<1>2. Cardinality(Turfs) \in Nat /\ used \in Nat /\ MaxTokens \in Nat /\ used \in 0..MaxTokens
  BY FS_CardinalityType DEF StageConstants, Turfs, StageInv
<1>3. AtStart(s, kind, k, <<>>, <<>>, <<>>, active)
  <2>1. s = NewCursor(kind, f, k, <<>>, <<>>, <<>>, active)
    BY DEF NewStage, NewCursor
  <2>2. <<>> \in Seq(Turfs) /\ <<>> \in Seq(Entries) /\ <<>> \in Inputs
    BY EmptySeq, NothingCaptured
  <2>3. /\ kind \in {"ProcessTurfs", "React", "Equalize", "ExcitedGroups"}
        /\ f \in Seq(Turfs) /\ k \in Nat /\ active \in SUBSET Mixtures
    BY <1>2 DEF StageConstants, Turfs, Suspended
  <2> HIDE DEF s, k, active
  <2> QED
    BY <2>1, <2>2, <2>3, NewFields
<1> HIDE DEF s
<1>4. /\ s \in StageRecords /\ s.kind = kind /\ s.token = k /\ s.nodes = <<>> /\ s.queue = <<>>
      /\ s.entries = <<>> /\ s.input = <<>> /\ s.active = active /\ s.visited = {}
      /\ s.computed = FALSE /\ s.entered = 0
  <2> HIDE DEF k, active
  <2> QED
    BY <1>3 DEF AtStart
<1>5. Len(<<>>) = 0 /\ DOMAIN <<>> = {}
  BY EmptySeq, NothingCaptured
<1>6. k \in Tokens /\ k > used /\ k \in Nat /\ (ComponentKind(s) => k + Cardinality(Turfs) <= MaxTokens)
  <2>1. used + (IF ComponentKind(s) THEN Cardinality(Turfs) ELSE 0) < MaxTokens
    BY <1>1 DEF s
  <2> QED
    BY <1>2, <2>1 DEF Tokens
<1> HIDE DEF k
<1>7. TokensLeft(s)
  <2>1. Turfs \ {} = Turfs
    OBVIOUS
  <2>2. ComponentKind(s) => k + Cardinality(Turfs \ {}) + 0 <= MaxTokens
    BY <1>2, <1>6, <2>1
  <2> QED
    BY <1>4, <1>5, <2>2 DEF TokensLeft
<1>8. mem.tok[k] = "PENDING" /\ mem \in Memories /\ LogOK /\ Unused(mem, log, used)
  BY <1>6 DEF StageInv, Unused
<1>9. \A m \in Mixtures : ~Carries(mem, m, k)
  <2> SUFFICES ASSUME NEW m \in Mixtures PROVE ~Carries(mem, m, k)
    OBVIOUS
  <2>1. mem.pend[m].token \in Nat /\ mem.pend[m].token <= used
    BY <1>8, MemoryFacts DEF Tokens, Unused
  <2> QED
    BY <1>2, <1>6, <2>1 DEF Carries
<1>10. \A i \in DOMAIN log : log[i] # <<"stage", k>>
  <2> SUFFICES ASSUME NEW i \in DOMAIN log PROVE log[i] # <<"stage", k>>
    OBVIOUS
  <2>1. log[i][2] \in Nat
    BY <1>8, LogFacts DEF Changes
  <2>2. log[i][1] = "stage" => log[i][2] <= used
    BY <1>8 DEF Unused
  <2> QED
    BY <1>2, <1>6, <2>1, <2>2
<1>11. InputsTold(s, mem) /\ CarriersSound(s, mem)
  BY <1>4, <1>5, <1>9 DEF InputsTold, CarriersSound
<1>12. DiffusionReady(s, mem) /\ ReactReady(s, mem) /\ ComponentReady(s, mem)
  <2>1. active \subseteq Mixtures
    BY DEF Suspended
  <2> HIDE DEF active
  <2> QED
    BY <1>4, <1>5, <1>9, <2>1 DEF DiffusionReady, ReactReady, ComponentReady
<1>13. Ready(s, mem, log)
  BY <1>4, <1>6, <1>7, <1>8, <1>10, <1>11, <1>12 DEF Ready
<1>14. Current(s)
  <2>1. s.kind = "React" => s.active = Suspended
    BY <1>4
  <2>2. stage = NoStage
    BY DEF BeginStage
  <2> HIDE DEF active
  <2>3. used <= s.token
    BY <1>2, <1>4, <1>6
  <2> QED
    BY <1>13, <2>1, <2>2, <2>3 DEF Current, Base, StageInv
<1>15. Item(s)
  BY <1>1 DEF s
<1> QED
  BY <1>14, <1>15, ItemKept

LEMMA ActiveCurrent ==
  ASSUME StageInv, stage # NoStage
  PROVE  Current(stage)
<1>1. Ready(stage, mem, log) /\ used = stage.token
      /\ (stage.kind = "React" => held \subseteq stage.active)
  BY DEF StageInv, StageOK
<1>2. used \in Nat
  BY DEF StageInv
<1> QED
  BY <1>1, <1>2 DEF Current, Base, StageInv

(***************************************************************************)
(* Commands between two chunks.                                            *)
(***************************************************************************)
(* Record m was taken for writing and shows what it did or a later value. *)
Wrote(m, m2) ==
  /\ m2 \in Memories
  /\ \A n \in Mixtures : n # m => Visible(m2, n) = Vis(n)
  /\ Visible(m2, m) = Vis(m) \/ Vis(m).rev < Visible(m2, m).rev
  /\ \A n \in Mixtures : m2.pend[n] = IF n = m THEN NoCandidate ELSE mem.pend[n]
  /\ \A k \in Tokens : m2.tok[k] = mem.tok[k]
                       \/ (mem.tok[k] = "PENDING" /\ m2.tok[k] = "CONFLICTED")
  /\ \A k \in Tokens : Carries(mem, m, k) /\ mem.tok[k] = "PENDING" => m2.tok[k] = "CONFLICTED"
  /\ \A k \in Tokens : ~Carries(mem, m, k) => m2.tok[k] = mem.tok[k]

LEMMA WroteKept ==
  ASSUME StageInv, NEW m \in Mixtures, Wrote(m, mem'), LogOK', VisibleOK',
         \A i \in DOMAIN log' : log'[i][1] = "stage" => \E j \in DOMAIN log : log[j] = log'[i],
         UNCHANGED <<used, stage, suspended, events, held>>
  PROVE  StageInv'
<1>0. mem \in Memories /\ mem' \in Memories /\ used \in Nat /\ Unused(mem, log, used)
  BY DEF StageInv, Wrote
<1>1. Unused(mem', log', used')
  <2>1. ASSUME NEW k \in Tokens, k > used
        PROVE  mem'.tok[k] = "PENDING"
    <3>1. mem.pend[m].token \in Nat /\ mem.pend[m].token <= used
      BY <1>0, MemoryFacts DEF Tokens, Unused
    <3>2. ~Carries(mem, m, k)
      BY <1>0, <2>1, <3>1 DEF Carries, Tokens
    <3> QED
      BY <1>0, <2>1, <3>2 DEF Wrote, Unused
  <2>2. \A n \in Mixtures : mem'.pend[n].token <= used
    BY <1>0 DEF Wrote, Unused, NoCandidate
  <2>3. \A i \in DOMAIN log' : log'[i][1] = "stage" => log'[i][2] <= used
    BY <1>0 DEF Unused
  <2> QED
    BY <2>1, <2>2, <2>3 DEF Unused
<1>2. PoolOK'
  BY DEF StageInv, PoolOK, Suspended
<1>3. StageOK'
  <2>1. CASE stage = NoStage
    BY <2>1 DEF StageOK
  <2>2. CASE stage # NoStage
    <3> DEFINE s == stage
               m2 == mem'
    <3>1. Ready(s, mem, log) /\ used = s.token
          /\ (s.kind = "React" => held \subseteq s.active)
      BY <2>2 DEF StageInv, StageOK
    <3>2. s.token \in Tokens /\ mem.tok[s.token] # "PUBLISHED"
      BY <3>1 DEF Ready
    <3>3. \A n \in Mixtures : m2.pend[n] = mem.pend[n] \/ m2.pend[n] = NoCandidate
      BY DEF Wrote
    <3>4. m2.tok[s.token] = mem.tok[s.token] \/ m2.tok[s.token] = "CONFLICTED"
      BY <3>2 DEF Wrote
    <3>5. m2.tok[s.token] = "PENDING" => \A n \in Mixtures : Carries(mem, n, s.token) =>
            m2.pend[n] = mem.pend[n] /\ Visible(m2, n) = Visible(mem, n)
      BY <3>2 DEF Wrote, Vis
    <3>6. \A n \in Mixtures : Visible(m2, n) = Visible(mem, n)
                              \/ Visible(mem, n).rev < Visible(m2, n).rev
      BY DEF Wrote, Vis
    <3>7. \A i \in DOMAIN log' : log'[i] # <<"stage", s.token>>
      <4> SUFFICES ASSUME NEW i \in DOMAIN log', log'[i] = <<"stage", s.token>> PROVE FALSE
        OBVIOUS
      <4>1. \E j \in DOMAIN log : log[j] = <<"stage", s.token>>
        OBVIOUS
      <4> QED
        BY <3>1, <4>1 DEF Ready
    <3> HIDE DEF s, m2
    <3>8. Ready(s, m2, log')
      <4>1. m2 \in Memories
        BY <1>0 DEF m2
      <4> QED
        BY <1>0, <3>1, <3>3, <3>4, <3>5, <3>6, <3>7, <4>1, ReadyAfterWrite
    <3> QED
      BY <3>1, <3>8 DEF StageOK, s, m2
  <2> QED
    BY <2>1, <2>2
<1> QED
  BY <1>0, <1>1, <1>2, <1>3 DEF StageInv

LEMMA WriteMixtureKept ==
  ASSUME StageConstants, StageInv, NEW m \in Mixtures, WriteMixture(m)
  PROVE  StageInv' /\ StepOK
<1> DEFINE c == <<"command", Commands + 1>>
           v == Reacted(m, c)
<1>0. /\ mem \in Memories /\ LogOK /\ VisibleOK /\ Commands \in Nat
      /\ Vis(m) \in Value /\ Vis(m).rev \in Nat /\ Vis(m).rev < MaxRevision
  BY LogFacts, MemoryFacts DEF StageInv, Vis, Value, WriteMixture
<1>1. c \in Changes /\ c[1] = "command" /\ c[2] = Commands + 1
  BY <1>0 DEF Changes
<1>2. \A i \in DOMAIN log : log[i] # c
  BY <1>0, CommandFresh
<1>a. mem' = Written(mem, m, v) /\ log' = Append(log, c)
      /\ UNCHANGED <<used, stage, suspended, events, held>>
  BY DEF WriteMixture
<1> HIDE DEF c
<1>3. v \in Value /\ v.rev = Vis(m).rev + 1 /\ v.made = Vis(m).made \union {c}
  <2> DEFINE made == Vis(m).made \union {c}
             r == Vis(m).rev + 1
  <2>1. v = [rev |-> r, made |-> made]
    BY DEF Reacted
  <2>2. r \in Nat /\ made \in SUBSET Changes
    BY <1>0, <1>1 DEF Value
  <2> HIDE DEF v, made, r
  <2>3. v \in Value /\ v.rev = r /\ v.made = made
    BY <2>1, <2>2, ValueFacts
  <2> QED
    BY <2>3 DEF made, r
<1> HIDE DEF v
<1>4. /\ mem' \in Memories /\ Visible(mem', m) = v
      /\ \A n \in Mixtures : n # m => Visible(mem', n) = Visible(mem, n)
      /\ \A n \in Mixtures : mem'.pend[n] = IF n = m THEN NoCandidate ELSE mem.pend[n]
      /\ \A k \in Tokens : mem'.tok[k] = mem.tok[k]
                           \/ (mem.tok[k] = "PENDING" /\ mem'.tok[k] = "CONFLICTED")
      /\ \A k \in Tokens : Carries(mem, m, k) /\ mem.tok[k] = "PENDING" => mem'.tok[k] = "CONFLICTED"
      /\ \A k \in Tokens : ~Carries(mem, m, k) => mem'.tok[k] = mem.tok[k]
  BY <1>0, <1>3, <1>a, WrittenFacts
<1>5. Shown(c)
  <2>1. Vis(m)' = v /\ \A n \in Mixtures : n # m => Vis(n)' = Vis(n)
    BY <1>4 DEF Vis
  <2>2. Vis(m)'.rev = Vis(m).rev + 1 /\ Vis(m)'.rev <= MaxRevision
    BY <1>0, <1>3, <2>1 DEF StageConstants
  <2>3. Vis(m)'.made = {c} \union UNION {Vis(n).made : n \in {} \union {m}}
    BY <1>3, <2>1
  <2> QED
    BY <1>1, <1>2, <1>a, <2>1, <2>2, <2>3 DEF Shown
<1>6. LogOK' /\ VisibleOK'
  BY <1>0, <1>5, ShownKeeps DEF StageConstants
<1>7. Wrote(m, mem')
  <2>1. Vis(m).rev < v.rev
    BY <1>0, <1>3
  <2> QED
    BY <1>4, <2>1 DEF Wrote, Vis
<1>8. \A i \in DOMAIN log' : log'[i][1] = "stage" => \E j \in DOMAIN log : log[j] = log'[i]
  <2>1. /\ DOMAIN log' = DOMAIN log \union {Len(log) + 1}
        /\ \A i \in DOMAIN log : log'[i] = log[i]
        /\ log'[Len(log) + 1] = c
    BY <1>0, <1>1, <1>2, <1>a, LogGrows
  <2> QED
    BY <1>1, <2>1
<1>9. StageInv'
  BY <1>6, <1>7, <1>8, <1>a, WroteKept
<1> QED
  BY <1>5, <1>9 DEF StepOK

LEMMA TouchMixtureKept ==
  ASSUME StageInv, NEW m \in Mixtures, TouchMixture(m)
  PROVE  StageInv' /\ Quiet
<1>0. mem \in Memories /\ {m} \in SUBSET Mixtures /\ LogOK /\ VisibleOK
  BY DEF StageInv
<1>1. mem' = TakenForWriting(mem, {m}) /\ UNCHANGED <<used, stage, suspended, events, log, held>>
  BY DEF TouchMixture
<1>2. /\ mem' \in Memories
      /\ \A n \in Mixtures : Visible(mem', n) = Visible(mem, n)
      /\ \A n \in Mixtures : mem'.pend[n] = IF n \in {m} THEN NoCandidate ELSE mem.pend[n]
      /\ \A k \in Tokens : mem'.tok[k] = mem.tok[k]
                           \/ (mem.tok[k] = "PENDING" /\ mem'.tok[k] = "CONFLICTED")
      /\ \A k \in Tokens : (\A n \in {m} : ~Carries(mem, n, k)) => mem'.tok[k] = mem.tok[k]
      /\ \A k \in Tokens, n \in {m} :
           Carries(mem, n, k) /\ mem.tok[k] = "PENDING" => mem'.tok[k] = "CONFLICTED"
  BY <1>0, <1>1, TakenFacts
<1>3. Quiet
  BY <1>1, <1>2 DEF Quiet, Vis
<1>4. LogOK' /\ VisibleOK'
  BY <1>0, <1>3, QuietKeeps
<1>5. Wrote(m, mem')
  BY <1>2 DEF Wrote, Vis
<1>6. \A i \in DOMAIN log' : log'[i][1] = "stage" => \E j \in DOMAIN log : log[j] = log'[i]
  BY <1>1
<1>7. StageInv'
  BY <1>1, <1>4, <1>5, <1>6, WroteKept
<1> QED
  BY <1>3, <1>7

\* Steps of the continuation pool and of the event buffer leave the records alone.
LEMMA PoolKept ==
  ASSUME StageInv, UNCHANGED <<mem, used, stage, log>>, PoolOK', held' \subseteq held
  PROVE  StageInv' /\ Quiet
<1>1. Quiet
  BY DEF Quiet, Vis
<1>2. LogOK' /\ VisibleOK'
  BY <1>1, QuietKeeps DEF StageInv
<1>3. StageOK'
  BY DEF StageInv, StageOK
<1> QED
  BY <1>1, <1>2, <1>3 DEF StageInv

LEMMA SuspendReactionKept ==
  ASSUME StageConstants, StageInv, NEW m \in Mixtures, SuspendReaction(m)
  PROVE  StageInv' /\ Quiet
<1>1. PICK c \in FreeSlots : suspended' = [suspended EXCEPT ![c] = m]
  BY DEF SuspendReaction
<1>2. c \in Slots /\ suspended[c] = NoMixture /\ NoMixture \notin Mixtures
  BY DEF FreeSlots, StageConstants
<1>3. suspended \in [Slots -> Mixtures \union {NoMixture}] /\ held \subseteq Suspended
      /\ events \in 0..MaxEvents
  BY DEF StageInv, PoolOK
<1>4. suspended' \in [Slots -> Mixtures \union {NoMixture}]
  BY <1>1, <1>3
<1>5. Suspended \subseteq Suspended'
  BY <1>1, <1>2, <1>3 DEF Suspended
<1>6. events' \in 0..MaxEvents
  BY <1>3 DEF SuspendReaction, StageConstants
<1>7. PoolOK' /\ held' \subseteq held /\ UNCHANGED <<mem, used, stage, log>>
  BY <1>3, <1>4, <1>5, <1>6 DEF PoolOK, SuspendReaction
<1> QED
  BY <1>7, PoolKept

LEMMA EndReactionKept ==
  ASSUME StageConstants, StageInv, NEW c \in Slots, EndReaction(c)
  PROVE  StageInv' /\ Quiet
<1>1. suspended' \in [Slots -> Mixtures \union {NoMixture}] /\ events' \in 0..MaxEvents
  BY DEF StageInv, PoolOK, EndReaction
<1>2. PoolOK' /\ held' \subseteq held /\ UNCHANGED <<mem, used, stage, log>>
  BY <1>1 DEF PoolOK, EndReaction
<1> QED
  BY <1>2, PoolKept

LEMMA DrainEventsKept ==
  ASSUME StageConstants, StageInv, DrainEvents
  PROVE  StageInv' /\ Quiet
<1>1. events' \in 0..MaxEvents /\ Suspended' = Suspended
  BY DEF DrainEvents, Suspended, StageConstants
<1>2. PoolOK' /\ held' \subseteq held /\ UNCHANGED <<mem, used, stage, log>>
  BY <1>1 DEF PoolOK, DrainEvents, StageInv
<1> QED
  BY <1>2, PoolKept

LEMMA InitKept ==
  ASSUME StageConstants, Init
  PROVE  StageInv
<1> DEFINE v == [rev |-> 1, made |-> {}]
<1>1. /\ mem.cur = [m \in Mixtures |-> v] /\ mem.pend = [m \in Mixtures |-> NoCandidate]
      /\ mem.tok = [k \in Tokens |-> "PENDING"]
      /\ mem = [cur |-> mem.cur, pend |-> mem.pend, tok |-> mem.tok]
  BY DEF Init, NewMemory
<1>2. v \in Value /\ v.rev = 1 /\ v.made = {}
  BY DEF Value
<1> HIDE DEF v
<1>3. mem.cur \in [Mixtures -> Value] /\ mem.pend \in [Mixtures -> Candidates]
      /\ mem.tok \in [Tokens -> TokenStates]
  BY <1>1, <1>2 DEF Candidates, TokenStates
<1>4. mem \in Memories
  BY <1>1, <1>3 DEF Memories
<1>5. log = <<>> /\ <<>> \in Seq(Changes) /\ DOMAIN <<>> = {}
  BY EmptySeq, NothingCaptured DEF Init
<1>6. LogOK
  BY <1>5 DEF LogOK
<1>7. VisibleOK
  <2>1. \A m \in Mixtures : Vis(m) = v
    BY <1>1, <1>4, VisibleFacts DEF Vis
  <2> QED
    BY <1>2, <2>1 DEF VisibleOK, StageConstants
<1>8. Unused(mem, log, used)
  <2>1. used = 0 /\ \A m \in Mixtures : mem.pend[m].token = 0
    BY <1>1 DEF NoCandidate, Init
  <2>2. \A k \in Tokens : mem.tok[k] = "PENDING"
    BY <1>1
  <2> QED
    BY <1>5, <2>1, <2>2 DEF Unused
<1>9. PoolOK /\ StageOK /\ used \in 0..MaxTokens
  BY DEF PoolOK, StageOK, Init, StageConstants
<1> QED
  BY <1>4, <1>6, <1>7, <1>8, <1>9 DEF StageInv

LEMMA NextKept ==
  ASSUME StageConstants, StageInv, [Next]_vars
  PROVE  StageInv' /\ StepOK
<1>1. CASE BeginStage
  BY <1>1, BeginStageKept
<1>2. CASE StageItem
  <2>1. Current(stage) /\ Item(stage)
    BY <1>2, ActiveCurrent DEF StageItem
  <2> QED
    BY <2>1, ItemKept
<1>3. CASE FailChunk
  <2>1. Current(stage) /\ AbortStage(stage) /\ mem' = mem
    BY <1>3, ActiveCurrent DEF FailChunk
  <2>2. /\ mem' \in Memories /\ Unused(mem', log, stage.token)
        /\ \A n \in Mixtures : Visible(mem', n) = Vis(n)
    BY <2>1, CurrentUnused DEF Current, Base, Vis
  <2> QED
    BY <2>1, <2>2, AbortKept DEF StepOK
<1>4. CASE DrainEvents
  BY <1>4, DrainEventsKept DEF StepOK
<1>5. ASSUME NEW m \in Mixtures, WriteMixture(m) \/ TouchMixture(m) \/ SuspendReaction(m)
      PROVE  StageInv' /\ StepOK
  BY <1>5, WriteMixtureKept, TouchMixtureKept, SuspendReactionKept DEF StepOK
<1>6. ASSUME NEW c \in Slots, EndReaction(c)
      PROVE  StageInv' /\ StepOK
  BY <1>6, EndReactionKept DEF StepOK
<1>7. CASE UNCHANGED vars
  <2>1. PoolOK' /\ held' \subseteq held /\ UNCHANGED <<mem, used, stage, log>>
    BY <1>7 DEF vars, StageInv, PoolOK, Suspended
  <2> QED
    BY <2>1, PoolKept DEF StepOK
<1> QED
  BY <1>1, <1>2, <1>3, <1>4, <1>5, <1>6, <1>7 DEF Next

(***************************************************************************)
(* The theorems.                                                           *)
(***************************************************************************)
\* In every reachable state, whatever the interleaving of work items and commands: the
\* tokens after the last used one are untouched, the log holds each change once, what is
\* visible is made of logged changes, and while a stage is active its captured inputs,
\* its entries and its candidates fit each other and the visible records (world.rs,
\* world/versioned.rs).
THEOREM StageInvariant ==
  ASSUME StageConstants
  PROVE  Spec => []StageInv
<1>1. Init => StageInv
  BY InitKept
<1>2. StageInv /\ [Next]_vars => StageInv'
  BY NextKept
<1> QED
  BY <1>1, <1>2, PTL DEF Spec

\* A gas stage stages only over records that nobody wrote since it captured them, while
\* its publication can still succeed, and a React stage never stages a mixture whose
\* reaction was suspended when the stage began and still is.
THEOREM GasStagesTheorem ==
  ASSUME StageConstants
  PROVE  Spec => []GasStagesSound
<1>1. StageInv => GasStagesSound
  <2> SUFFICES ASSUME StageInv PROVE TypeOK /\ CapturedFresh /\ SuspendedLeftAlone
    BY DEF GasStagesSound
  <2>1. TypeOK
    <3>1. \A m \in Mixtures : mem.pend[m].token \in 0..MaxTokens
      BY MemoryFacts DEF StageInv, Tokens, StageConstants
    <3>2. mem.tok \in [Tokens -> TokenStates]
      BY DEF StageInv, Memories
    <3> QED
      BY <3>1, <3>2 DEF StageInv, TypeOK, VisibleOK, PoolOK
  <2>2. CapturedFresh
    <3> SUFFICES ASSUME stage # NoStage, Publishable(mem, stage.token), NEW m \in StagedInputs
                 PROVE  stage.input[m] = Vis(m)
      BY DEF CapturedFresh
    <3>1. Ready(stage, mem, log) /\ Pending(stage, mem) /\ stage \in StageRecords
      BY DEF StageInv, StageOK, Ready, Publishable, Pending
    <3>2. m \in DOMAIN stage.input /\ Carries(mem, m, stage.token)
      BY DEF StagedInputs
    <3>3. m \in Mixtures
      BY <3>1, <3>2, InputFacts
    <3> QED
      BY <3>1, <3>2, <3>3 DEF Ready, CarriersSound, Vis
  <2>3. SuspendedLeftAlone
    BY DEF StageInv, StageOK, Ready, ReactReady, SuspendedLeftAlone
  <2> QED
    BY <2>1, <2>2, <2>3
<1> QED
  BY <1>1, StageInvariant, PTL

\* Whenever the visible contents of a mixture change, its revision grows: equal revisions
\* mean equal contents, on which the check before an entry is staged relies.
THEOREM RevisionTheorem ==
  ASSUME StageConstants
  PROVE  Spec => RevisionTellsContents
<1> DEFINE A == \A m \in Mixtures :
                  Vis(m)' # Vis(m) => /\ Vis(m).rev < Vis(m)'.rev
                                      /\ Vis(m)'.made # Vis(m).made
<1>1. StageInv /\ [Next]_vars => [A]_vars
  <2> SUFFICES ASSUME StageInv, [Next]_vars, NEW m \in Mixtures, Vis(m)' # Vis(m)
               PROVE  Vis(m).rev < Vis(m)'.rev /\ Vis(m)'.made # Vis(m).made
    OBVIOUS
  <2>1. PICK c : Shown(c)
    BY NextKept DEF StepOK, Quiet
  <2>2. Vis(m)'.rev = Vis(m).rev + 1 /\ c \in Vis(m)'.made
    BY <2>1 DEF Shown
  <2>3. Vis(m).rev \in Nat /\ c \notin Vis(m).made
    BY <2>1 DEF Shown, StageInv, VisibleOK
  <2> QED
    BY <2>2, <2>3
<1> QED
  BY <1>1, StageInvariant, PTL DEF Spec, RevisionTellsContents

\* The place of a change in the log, and where it stays.
LEMMA PositionFacts ==
  ASSUME LogOK, NEW i \in DOMAIN log
  PROVE  Position(log[i]) = i
<1>1. log[i] \in ToSet(log)
  BY DEF ToSet
<1>2. \A j \in DOMAIN log : log[j] = log[i] => j = i
  BY DEF LogOK
<1> QED
  BY <1>1, <1>2 DEF Position

LEMMA PositionStays ==
  ASSUME LogOK, LogOK', NEW n, DOMAIN log' = DOMAIN log \union {n},
         \A i \in DOMAIN log : log'[i] = log[i], NEW CONSTANT x
  PROVE  /\ (\E i \in DOMAIN log : x = log[i]) => Position(x)' = Position(x)
         /\ x = log'[n] => Position(x)' = n
<1>1. ASSUME NEW i \in DOMAIN log', x = log'[i]
      PROVE  Position(x)' = i
  <2>1. x \in ToSet(log')
    BY <1>1 DEF ToSet
  <2>2. \A j \in DOMAIN log' : log'[j] = x => j = i
    BY <1>1 DEF LogOK
  <2> QED
    BY <1>1, <2>1, <2>2 DEF Position
<1>2. n \in DOMAIN log'
  OBVIOUS
<1>3. ASSUME NEW i \in DOMAIN log, x = log[i]
      PROVE  Position(x)' = Position(x)
  <2>1. i \in DOMAIN log' /\ x = log'[i]
    BY <1>3
  <2> QED
    BY <1>1, <1>3, <2>1, PositionFacts
<1> QED
  BY <1>1, <1>2, <1>3

(* The contents as the abstract specification numbers them. *)
Contents == [m \in Mixtures |-> {Position(c) : c \in Vis(m).made}]

LEMMA ShownIsChange ==
  ASSUME StageConstants, StageInv, StageInv', NEW c, Shown(c)
  PROVE  /\ Len(log') = Len(log) + 1
         /\ \A m \in Mixtures :
              \/ Contents'[m] = Contents[m]
              \/ \E reads \in SUBSET Mixtures :
                   Contents'[m] = {Len(log')} \union UNION {Contents[n] : n \in reads \union {m}}
<1> DEFINE p == Len(log) + 1
<1>1. LogOK /\ LogOK' /\ VisibleOK /\ mem \in Memories
  BY DEF StageInv
<1>2. /\ Len(log') = p /\ DOMAIN log' = DOMAIN log \union {p}
      /\ \A i \in DOMAIN log : log'[i] = log[i]
      /\ log'[p] = c
  BY <1>1, LogGrows DEF Shown
<1> HIDE DEF p
<1>3. \A m \in Mixtures : \A x \in Vis(m).made : Position(x)' = Position(x)
  <2> SUFFICES ASSUME NEW m \in Mixtures, NEW x \in Vis(m).made
               PROVE  Position(x)' = Position(x)
    OBVIOUS
  <2>1. \E i \in DOMAIN log : x = log[i]
    BY <1>1 DEF VisibleOK
  <2> QED
    BY <1>1, <1>2, <2>1, PositionStays
<1>4. Position(c)' = p
  BY <1>1, <1>2, PositionStays
<1>5. \A m \in Mixtures : /\ Contents'[m] = {Position(x)' : x \in Vis(m)'.made}
                          /\ Contents[m] = {Position(x) : x \in Vis(m).made}
  BY DEF Contents
<1>6. ASSUME NEW m \in Mixtures, Vis(m)' = Vis(m)
      PROVE  Contents'[m] = Contents[m]
  BY <1>3, <1>5, <1>6
<1>7. ASSUME NEW m \in Mixtures, NEW S \in SUBSET Mixtures,
             Vis(m)'.made = {c} \union UNION {Vis(n).made : n \in S \union {m}}
      PROVE  Contents'[m] = {p} \union UNION {Contents[n] : n \in S \union {m}}
  <2>1. ASSUME NEW y \in Contents'[m]
        PROVE  y \in {p} \union UNION {Contents[n] : n \in S \union {m}}
    <3>1. PICK x \in Vis(m)'.made : y = Position(x)'
      BY <1>5, <2>1
    <3>2. CASE x = c
      BY <1>4, <3>1, <3>2
    <3>3. ASSUME NEW n \in S \union {m}, x \in Vis(n).made
          PROVE  y \in Contents[n]
      BY <1>3, <1>5, <3>1, <3>3
    <3> QED
      BY <1>7, <3>2, <3>3
  <2>2. ASSUME NEW y \in {p} \union UNION {Contents[n] : n \in S \union {m}}
        PROVE  y \in Contents'[m]
    <3>1. CASE y = p
      BY <1>4, <1>5, <1>7, <3>1
    <3>2. ASSUME NEW n \in S \union {m}, y \in Contents[n]
          PROVE  y \in Contents'[m]
      <4>1. PICK x \in Vis(n).made : y = Position(x)
        BY <1>5, <3>2
      <4>2. x \in Vis(m)'.made /\ y = Position(x)'
        BY <1>3, <1>7, <4>1
      <4> QED
        BY <1>5, <4>2
    <3> QED
      BY <2>2, <3>1, <3>2
  <2> QED
    BY <2>1, <2>2
<1>8. ASSUME NEW m \in Mixtures
      PROVE  \/ Contents'[m] = Contents[m]
             \/ \E reads \in SUBSET Mixtures :
                  Contents'[m] = {Len(log')} \union UNION {Contents[n] : n \in reads \union {m}}
  <2>1. CASE Vis(m)' = Vis(m)
    BY <1>6, <2>1
  <2>2. CASE Vis(m)' # Vis(m)
    <3>1. PICK S \in SUBSET Mixtures :
            Vis(m)'.made = {c} \union UNION {Vis(n).made : n \in S \union {m}}
      BY <2>2 DEF Shown
    <3> QED
      BY <1>2, <1>7, <3>1
  <2> QED
    BY <2>1, <2>2
<1> QED
  BY <1>2, <1>8 DEF p

\* A gas stage, or a component of a component stage, takes effect in one step, computed
\* from the contents visible at that very step, and no command's change is lost: what
\* readers see of the records is the abstract specification AtomicStages.
THEOREM AtomicTheorem ==
  ASSUME StageConstants
  PROVE  Spec => AtomicSpec
<1>1. StageInv /\ Init => Atomic!Init
  <2> SUFFICES ASSUME StageInv, Init PROVE Atomic!Init
    OBVIOUS
  <2>1. log = <<>> /\ Len(<<>>) = 0 /\ DOMAIN <<>> = {}
    BY EmptySeq, NothingCaptured DEF Init
  <2>2. \A m \in Mixtures : Vis(m).made = {}
    BY <2>1 DEF StageInv, VisibleOK
  <2> QED
    BY <2>1, <2>2 DEF Atomic!Init
<1>2. StageInv /\ StageInv' /\ [Next]_vars => [Atomic!Next]_<<Contents, Len(log)>>
  <2> SUFFICES ASSUME StageInv, StageInv', [Next]_vars
               PROVE  Atomic!Next \/ (Contents' = Contents /\ Len(log') = Len(log))
    OBVIOUS
  <2>1. CASE Quiet
    <3>1. log' = log /\ \A x : Position(x)' = Position(x)
      BY <2>1 DEF Quiet, Position
    <3> QED
      BY <2>1, <3>1 DEF Quiet, Contents
  <2>2. ASSUME NEW c, Shown(c)
        PROVE  Atomic!Next
    <3>1. /\ Len(log') = Len(log) + 1
          /\ \A m \in Mixtures :
               \/ Contents'[m] = Contents[m]
               \/ \E reads \in SUBSET Mixtures :
                    Contents'[m] = {Len(log')} \union UNION {Contents[n] : n \in reads \union {m}}
      BY <2>2, ShownIsChange
    <3>2. DOMAIN Contents' = Mixtures
      BY DEF Contents
    <3> QED
      BY <3>1, <3>2 DEF Atomic!Next, Atomic!Change, Contents
  <2> QED
    BY <2>1, <2>2, NextKept DEF StepOK
<1>3. [Atomic!Next]_<<Contents, Len(log)>>
        => [Atomic!Next]_<<[m \in Mixtures |-> {Position(c) : c \in Vis(m).made}], Len(log)>>
  BY DEF Contents
<1> QED
  BY <1>1, <1>2, <1>3, StageInvariant, PTL DEF Spec, AtomicSpec, Atomic!Spec
=============================================================================
