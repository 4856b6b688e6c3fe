---------------------------- MODULE MCLifecycle ----------------------------
(* Lifecycle on small instances. *)
EXTENDS Lifecycle

Plain ==
    [excludeHead |-> FALSE, wal |-> FALSE, spfresh |-> FALSE, limit |-> 2, allowZeroReplica |-> FALSE,
     refineAbove |-> 9, merge |-> 0, base |-> 8, built |-> 0..1, headsOf |-> {0},
     adds |-> 1, deletable |-> {1}, splits |-> 1, saves |-> 1, checkpoints |-> 0, crashes |-> 1]

\* A log, checkpoints and crashes, with a split that changes the heads.
Recovering == [Plain EXCEPT !.wal = TRUE, !.spfresh = TRUE, !.checkpoints = 1, !.crashes = 2]

\* A longer log, replayed more than once.
Replaying == [Recovering EXCEPT !.limit = 9, !.adds = 2]

\* Saves that compact: two vectors of four are deleted.
Compacting == [Plain EXCEPT !.built = 0..3, !.headsOf = {0, 3}, !.adds = 1, !.deletable = {0, 1},
                            !.refineAbove = 1]
CompactingHeads == [Compacting EXCEPT !.excludeHead = TRUE, !.limit = 1, !.splits = 1, !.deletable = {1, 2}, !.merge = 1, !.saves = 2]

\* Splits that delete more than two fifths of the heads before a checkpoint.
Renumbering == [Plain EXCEPT !.spfresh = TRUE, !.limit = 1, !.adds = 2, !.deletable = {}, !.splits = 3,
                             !.saves = 0, !.checkpoints = 1, !.crashes = 0]

\* A log of more records than one byte of a key counts.
LongLog == [Replaying EXCEPT !.base = 2, !.saves = 1, !.deletable = {1, 3}]

LongLogSettings == {LongLog}
RenumberSettings == {Renumbering}
PlainSettings == {Plain}
LogSettings == {Recovering}
MCSettings == {Recovering, Replaying, Compacting, CompactingHeads}
=============================================================================
