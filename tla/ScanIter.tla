------------------------------ MODULE ScanIter ------------------------------
(***************************************************************************)
(* The push iterator Scan of pkg/dtreesync/iter.go over a Scanner: the     *)
(* range loop receives and yields records; the loop body may break, which  *)
(* cancels the scan and drains outChan; the caller's own context may be    *)
(* cancelled or reach its deadline.                                        *)
(***************************************************************************)
EXTENDS Scanner

VARIABLES
    loop,     \* "range", "drain" after a break, "over" when Scan returned
    yielded,  \* records handed to the loop body
    cause,    \* what closed ctx.Done, or the break that ended the loop
    failure   \* the loop body was handed an error

iterVars == <<loop, yielded, cause, failure>>
allVars == <<vars, iterVars>>

IterInit ==
    /\ Init
    /\ loop = "range"
    /\ yielded = 0
    /\ cause = "none"
    /\ failure = FALSE

\* The loop body takes the record and asks for the next one.
Yield ==
    /\ loop = "range"
    /\ Receive
    /\ yielded' = yielded + 1
    /\ UNCHANGED <<loop, cause, failure>>

\* The loop body takes the record and breaks: cancel, then drain.
Break ==
    /\ loop = "range"
    /\ rcvd < Len(sent)
    /\ rcvd' = rcvd + 1
    /\ yielded' = yielded + 1
    /\ ctxDone' = TRUE
    /\ cause' = "break"
    /\ loop' = "drain"
    /\ UNCHANGED <<stream, poolVars, sent, walkVars, failure>>

\* Mutant: the break cancels but leaves the channel as it is.
DrainNothing ==
    /\ loop = "drain"
    /\ Returned /\ rcvd < Len(sent)
    /\ UNCHANGED allVars

Drain ==
    /\ loop = "drain"
    /\ Receive
    /\ UNCHANGED iterVars

\* Mutant: the break returns without waiting for outChan to close.
DrainEndsEarly ==
    /\ loop = "drain"
    /\ loop' = "over"
    /\ UNCHANGED <<vars, yielded, cause, failure>>

DrainEnds ==
    /\ loop = "drain"
    /\ Returned /\ rcvd = Len(sent)
    /\ loop' = "over"
    /\ UNCHANGED <<vars, yielded, cause, failure>>

\* Mutant: every error of Stream is swallowed.
RangeEndsSilently ==
    /\ loop = "range"
    /\ Returned /\ rcvd = Len(sent)
    /\ ctxDone' = TRUE
    /\ cause' = IF ctxDone THEN cause ELSE "return"
    /\ loop' = "over"
    /\ UNCHANGED <<stream, poolVars, sent, rcvd, walkVars, yielded, failure>>

\* outChan is closed and empty: the error of Stream is yielded, unless it is
\* context.Canceled; the deferred cancel ends the scan's own context.
RangeEnds ==
    /\ loop = "range"
    /\ Returned /\ rcvd = Len(sent)
    /\ failure' = (stream = "rootErr" \/ (stream = "ctxErr" /\ cause = "deadline"))
    /\ ctxDone' = TRUE
    /\ cause' = IF ctxDone THEN cause ELSE "return"
    /\ loop' = "over"
    /\ UNCHANGED <<stream, poolVars, sent, rcvd, walkVars, yielded>>

\* The caller cancels its context, or its deadline passes.
CallerCancels ==
    /\ Cancel
    /\ cause' \in {"cancel"} \cup (IF Deadline THEN {"deadline"} ELSE {})
    /\ UNCHANGED <<loop, yielded, failure>>

Over ==
    /\ loop = "over"
    /\ UNCHANGED allVars

LoopStep == Yield \/ Break \/ Drain \/ DrainEnds \/ RangeEnds

IterNext ==
    \/ ScanStep /\ UNCHANGED iterVars
    \/ LoopStep
    \/ CallerCancels
    \/ Over

\* The goroutines are scheduled, and the loop body always comes back.
IterSpec ==
    /\ IterInit /\ [][IterNext]_allVars
    /\ WF_allVars(StreamStep /\ UNCHANGED iterVars)
    /\ \A w \in Workers : WF_allVars(WorkerStep(w) /\ UNCHANGED iterVars)
    /\ WF_allVars(CoordStep /\ UNCHANGED iterVars)
    /\ WF_allVars(AllTasksDone /\ UNCHANGED iterVars)
    /\ WF_allVars(LoopStep)

----------------------------------------------------------------------------
\* A loop that ran to its end without an error was handed every record of the
\* scan, and these leave out no directory but what lies below one that could
\* not be read, or not before the deadline.  The one other silent end of a
\* partial scan is that of a caller that cancelled the context itself: a
\* deadline that cuts the walk short, or a root that fails, is always reported.
SilentEndIsComplete ==
    loop = "over" /\ ~failure /\ cause # "break" =>
        /\ yielded = Len(sent)
        /\ Whole \/ (stream = "ctxErr" /\ cause = "cancel")

\* When Scan is over, however it ended, no worker and no coordinator is left
\* and every record was taken off the channel.
BreakStopsThePool ==
    loop = "over" =>
        /\ coord \in {"off", "gone"}
        /\ \A w \in Workers : pc[w] \in {"off", "gone"}
        /\ rcvd = Len(sent)

\* The range statement always comes to an end: a break never waits for a
\* worker that waits for a receiver.
LoopEnds == <>(loop = "over")

============================================================================
