SPECIFICATION Spec
CONSTANTS
 None=None
 NoRow=NoRow
 Ids={1,2}
 Managed=1
 CatchupGrace=1
 MaxTime=6
 MaxEdits=0
 MaxRuns=2
 MaxStarts=2
INVARIANT NoOverlap
CHECK_DEADLOCK FALSE
