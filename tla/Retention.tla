------------------------------ MODULE Retention ------------------------------
(***************************************************************************)
(* The retention planner of versioning/retention.ts: which versions of a   *)
(* share a prune pass removes.  Pure, as the source is.                    *)
(*                                                                         *)
(* A version is a record with id, path, created and pinned.                *)
(***************************************************************************)
EXTENDS Integers, FiniteSets, SequencesExt

(* Newest first; two versions of the same second are ordered by id.        *)
Newer(v, w) == v.created > w.created \/ (v.created = w.created /\ v.id > w.id)

Protected(v, referenced) == v.pinned \/ v.id \in referenced
TooOld(v, policy, now) == policy.keepDays > 0 /\ v.created < now - policy.keepDays

(* Mutant: a pinned version takes one of the keepCount places. *)
ConsiderCountsPins(plan, v, policy, referenced, now) ==
    IF Protected(v, referenced) THEN [plan EXCEPT !.survivors = @ + 1]
    ELSE IF ~plan.newestKept
      THEN [plan EXCEPT !.newestKept = TRUE, !.survivors = @ + 1]
    ELSE IF plan.survivors >= policy.keepCount \/ TooOld(v, policy, now)
      THEN [plan EXCEPT !.prune = @ \cup {v}]
    ELSE [plan EXCEPT !.survivors = @ + 1]

(* One turn of the loop over the versions of a path.                       *)
Consider(plan, v, policy, referenced, now) ==
    IF Protected(v, referenced) THEN plan
    ELSE IF ~plan.newestKept
      THEN [plan EXCEPT !.newestKept = TRUE, !.survivors = @ + 1]
    ELSE IF plan.survivors >= policy.keepCount \/ TooOld(v, policy, now)
      THEN [plan EXCEPT !.prune = @ \cup {v}]
    ELSE [plan EXCEPT !.survivors = @ + 1]

(* The k-th version of a path, newest first.                               *)
Nth(bucket, k) == CHOOSE v \in bucket : Cardinality({w \in bucket : Newer(w, v)}) = k - 1

NothingSeen == [survivors |-> 0, newestKept |-> FALSE, prune |-> {}]
PrunedOfPath(bucket, policy, referenced, now) ==
    LET plan[k \in 0..Cardinality(bucket)] ==
            IF k = 0 THEN NothingSeen
            ELSE Consider(plan[k - 1], Nth(bucket, k), policy, referenced, now)
    IN  plan[Cardinality(bucket)].prune

PlanRetention(versions, policy, referenced, now) ==
    UNION {PrunedOfPath({v \in versions : v.path = p}, policy, referenced, now) :
           p \in {v.path : v \in versions}}

(* The policy the source documents, without its loop: of the versions of a *)
(* path that are neither pinned nor referenced the newest stays, and of    *)
(* the others those that are too many or too old go.                       *)
Rank(v, versions, referenced) ==
    Cardinality({w \in versions : w.path = v.path /\ Newer(w, v)
                                  /\ ~Protected(w, referenced)})
DocumentedPlan(versions, policy, referenced, now) ==
    {v \in versions : /\ ~Protected(v, referenced)
                      /\ Rank(v, versions, referenced) > 0
                      /\ \/ Rank(v, versions, referenced) >= policy.keepCount
                         \/ TooOld(v, policy, now)}
=============================================================================
