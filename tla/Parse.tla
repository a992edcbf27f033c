-------------------------------- MODULE Parse --------------------------------
(***************************************************************************)
(* What Parser_TryParseRequest promises the reader thread about a context: *)
(* a call settles the request or leaves it open and need not return, but a *)
(* settled request stays settled, and a call on one returns at once.       *)
(***************************************************************************)
VARIABLES busy,      \* a call is in progress
          settled    \* the request was completed or refused

\* What may become of a context by the time a call returns.
Outcomes(before) == {after \in BOOLEAN : before => after}

\* What a call may never return from.
MayLoop(before) == ~before

Init == busy = FALSE /\ settled = FALSE

Call == /\ ~busy /\ MayLoop(settled)
        /\ busy' = TRUE
        /\ UNCHANGED settled

Settle == busy /\ settled' \in Outcomes(settled) /\ UNCHANGED busy

Return == busy /\ busy' = FALSE /\ settled' \in Outcomes(settled)

Spec == Init /\ [][Call \/ Settle \/ Return]_<<busy, settled>>
=============================================================================
