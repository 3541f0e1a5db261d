---------------------------- MODULE MCAtomicSync ----------------------------
(* Instances of AtomicSync: short histories from two empty sides, and the  *)
(* whole decision table, each entry of it a state in which nothing moves.  *)
EXTENDS AtomicSync

VARIABLE question   \* which of the two this behaviour is about: never changes

Conditions(modes, flags, extras) ==
    { [mode |-> m, tolerance |-> 1, maxFileSize |-> 4,
       protectDeletes |-> p, locked |-> l, serverOffline |-> o, readOnly |-> r,
       excluded |-> x = "excluded", caseCollision |-> x = "collision"] :
      m \in modes, p \in BOOLEAN, l \in flags, o \in flags, r \in flags,
      x \in extras }

\* The table: sizes below and above the limit, three mtimes of which two tie
\* within the tolerance, hashed and unhashed contents.
TableSides == SidesOf({1, 9}, {0, 1, 3}, {NoHash, "h1", "h2"})
TableConfigs ==
    Conditions(ConflictModes, BOOLEAN, {"neither"})
      \cup Conditions({"last_write_wins"}, {FALSE}, {"excluded", "collision"})
TableSkew == {1}

\* The histories: nothing at first, then edits on either side.
NoSides == {NoSide}
OpenConfigs == Conditions(ConflictModes, {FALSE}, {"neither"})
HistorySkew == {1, -5}

TableInit ==
    /\ question = "table"
    /\ local \in TableSides /\ remote \in TableSides /\ base \in TableSides
    /\ config \in TableConfigs
    /\ captures = {} /\ vault = {} /\ missed = {}
    /\ live = Present(local) \cup Present(remote)
    /\ edits = MaxEdits /\ changes = MaxChanges
MCInit == TableInit \/ (question = "history" /\ Init)
MCNext ==
    /\ UNCHANGED question
    /\ \/ question = "history" /\ Next
       \/ question = "table" /\ UNCHANGED vars
MCSpec == MCInit /\ [][MCNext]_<<vars, question>>
            /\ WF_vars(question = "history" /\ Reconcile)

-----------------------------------------------------------------------------
(* Every history that ends with the share open ends with the sides agreed. *)
HistoriesSettle == question = "history" => Settles

=============================================================================
