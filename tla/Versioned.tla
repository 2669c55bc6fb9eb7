------------------------------ MODULE Versioned ------------------------------
(***************************************************************************)
(* Versioned records and publication tokens (world/versioned.rs).          *)
(*                                                                         *)
(* A record keeps an authoritative value and at most one tentative value   *)
(* that belongs to a publication token.  Publishing the token makes every  *)
(* tentative value that carries it visible at once; taking a record for    *)
(* writing while it carries an unpublished one marks the token conflicted, *)
(* and a conflicted token can never be published.                          *)
(*                                                                         *)
(* The operators work on a memory                                          *)
(*   [cur : [Records -> Value], pend : [Records -> candidate],             *)
(*    tok : [Tokens -> token state]]                                       *)
(* and take sets of records: what the code does to one record after        *)
(* another commutes, because records only share their tokens.              *)
(***************************************************************************)

(* A record without a tentative value. *)
NoCandidate == [token |-> 0, value |-> 0]

(* The token states PENDING, PUBLISHED and CONFLICTED. *)
TokenStates == {"PENDING", "PUBLISHED", "CONFLICTED"}

(* Versioned::new for every record, Publication::new for every token. *)
NewMemory(values, tokens) ==
  [cur |-> values,
   pend |-> [r \in DOMAIN values |-> NoCandidate],
   tok |-> [k \in tokens |-> "PENDING"]]

(* Does r carry a candidate of token k (Arc::ptr_eq on the token)? *)
Carries(mem, r, k) == mem.pend[r].token = k

(* Publication::visible of the candidate r carries. *)
CandidateVisible(mem, r) ==
  /\ mem.pend[r] # NoCandidate
  /\ mem.tok[mem.pend[r].token] = "PUBLISHED"

(* Versioned::as_ref: what every reader of record r sees. *)
Visible(mem, r) ==
  IF CandidateVisible(mem, r) THEN mem.pend[r].value ELSE mem.cur[r]

(* Versioned::as_mut on every record of R: a visible candidate is folded   *)
(* into the authoritative value, an unpublished one is dropped and its     *)
(* token can no longer be published (Publication::invalidate).             *)
TakenForWriting(mem, R) ==
  [cur  |-> [r \in DOMAIN mem.cur |->
               IF r \in R THEN Visible(mem, r) ELSE mem.cur[r]],
   pend |-> [r \in DOMAIN mem.pend |->
               IF r \in R THEN NoCandidate ELSE mem.pend[r]],
   tok  |-> [k \in DOMAIN mem.tok |->
               IF mem.tok[k] = "PENDING" /\ \E r \in R : Carries(mem, r, k)
                 THEN "CONFLICTED" ELSE mem.tok[k]]]

(* A write to record r through as_mut. *)
Written(mem, r, value) ==
  [TakenForWriting(mem, {r}) EXCEPT !.cur[r] = value]

(* Versioned::stage of the values of f under token k: a candidate of the   *)
(* same token is replaced, any other record is first taken for writing.    *)
Staged(mem, f, k) ==
  LET others == {r \in DOMAIN f : ~Carries(mem, r, k)}
      taken  == TakenForWriting(mem, others)
  IN  [taken EXCEPT !.pend = [r \in DOMAIN mem.pend |->
         IF r \in DOMAIN f THEN [token |-> k, value |-> f[r]] ELSE @[r]]]

(* Versioned::prepare of the records R under token k: the visible value    *)
(* becomes the candidate, unless the record has one of k already.          *)
Prepared(mem, R, k) ==
  Staged(mem, [r \in {x \in R : ~Carries(mem, x, k)} |-> Visible(mem, r)], k)

(* Publication::publish: succeeds only from PENDING. *)
Publishable(mem, k) == mem.tok[k] = "PENDING"

Published(mem, k) == [mem EXCEPT !.tok[k] = "PUBLISHED"]
=============================================================================
