----------------------------- MODULE Reduction -----------------------------
(***************************************************************************)
(* What a Reducer promises: division with remainder.  As long as the sum   *)
(* has terms, its leading term goes to the result, when no element of the  *)
(* basis may reduce it, or is cancelled by a multiple of one that may.     *)
(***************************************************************************)
EXTENDS Polynomials, Naturals, Sequences, Functions

CONSTANTS
  Basis,   \* the elements [lead, poly, sig], all monic
  Calls    \* the sequences of reductions that clients ask of a Reducer

VARIABLES
  jobs,        \* the reductions still to do
  active,      \* whether the first of them has begun
  sum,         \* what is left to divide
  result,      \* the remainder so far
  reducedOut   \* the finished reductions [job, poly]

vars == <<jobs, active, sum, result, reducedOut>>

(* Whether basis element g may reduce the monomial m.  Within a regular    *)
(* reduction the signature of its multiple has to be less than that of the *)
(* polynomial that is being reduced.                                       *)
Reduces(g, m, job) ==
  /\ Basis[g].lead <= m
  /\ job.op = "regularReduce" =>
       Basis[g].sig + (m - Basis[g].lead)
         < Basis[job.element].sig + job.multiple

Reducers(m, job) == {g \in DOMAIN Basis : Reduces(g, m, job)}

(* A regular reduction begins by cancelling the leading term, which some   *)
(* element has to do; an S-polynomial cancels the two leading terms.       *)
Cancelled(g, h, m) ==
  Plus(Times(1, m - Basis[g].lead, Basis[g].poly),
       Times(P - 1, m - Basis[h].lead, Basis[h].poly))

StartSums(job) ==
  CASE job.op = "classicReducePolySet" -> {job.poly}
    [] job.op = "classicTailReduce" ->
         {Only(job.poly, Monos \ {Lead(job.poly)})}
    [] job.op = "classicReduceSPolySet" ->
         {Cancelled(job.a, job.b, Max({Basis[job.a].lead, Basis[job.b].lead}))}
    [] job.op = "regularReduce" ->
         LET product == Basis[job.element].lead + job.multiple
         IN  {Cancelled(job.element, g, product) : g \in Reducers(product, job)}

(* Zero is no result of a reduction of a set. *)
Report(job, f) ==
  reducedOut' =
    IF f = Nil /\ job.op \in {"classicReducePolySet", "classicReduceSPolySet"}
      THEN reducedOut
      ELSE Append(reducedOut, [job |-> job, poly |-> f])

----------------------------------------------------------------------------
Init ==
  /\ jobs \in Calls
  /\ active = FALSE
  /\ sum = Nil
  /\ result = Nil
  /\ reducedOut = <<>>

Start ==
  /\ ~active /\ jobs # <<>>
  /\ sum' \in StartSums(Head(jobs))
  /\ active' = TRUE
  /\ result' = IF Head(jobs).op = "classicTailReduce"
                 THEN Only(Head(jobs).poly, {Lead(Head(jobs).poly)})
                 ELSE Nil
  /\ UNCHANGED <<jobs, reducedOut>>

(* A regular reduction without a regular reducer of the leading term *)
Refuse ==
  /\ ~active /\ jobs # <<>>
  /\ StartSums(Head(jobs)) = {}
  /\ jobs' = Tail(jobs)
  /\ UNCHANGED <<active, sum, result, reducedOut>>

Keep ==
  /\ active /\ sum # Nil
  /\ Reducers(Lead(sum), Head(jobs)) = {}
  /\ result' = Plus(result, Only(sum, {Lead(sum)}))
  /\ sum' = Only(sum, Monos \ {Lead(sum)})
  /\ UNCHANGED <<jobs, active, reducedOut>>

Cancel ==
  /\ active /\ sum # Nil
  /\ \E g \in Reducers(Lead(sum), Head(jobs)) :
       sum' = Plus(sum, Times(P - sum[Lead(sum)],
                              Lead(sum) - Basis[g].lead, Basis[g].poly))
  /\ UNCHANGED <<jobs, active, result, reducedOut>>

Finish ==
  /\ active /\ sum = Nil
  /\ Report(Head(jobs), Monic(result))
  /\ jobs' = Tail(jobs)
  /\ active' = FALSE
  /\ result' = Nil
  /\ UNCHANGED sum

Next == Start \/ Refuse \/ Keep \/ Cancel \/ Finish

Spec == Init /\ [][Next]_vars
=============================================================================
