---------------------------- MODULE FetchDelivery ----------------------------
(***************************************************************************)
(* What a message fetch promises the Data tab, whatever way the messages   *)
(* take: it is shown the messages that were fetched, in the order they     *)
(* were fetched, and once the fetch has answered it has been shown all of  *)
(* them.  Only when the task that streams them has died may it be shown    *)
(* the ones it already has once more.                                      *)
(***************************************************************************)
EXTENDS Naturals, Sequences

VARIABLES fetched,    \* the messages read from the broker so far
          shown,      \* the messages that have crossed to the tab
          outcome     \* "open", then "complete" or "failed"

vars == <<fetched, shown, outcome>>

Init ==
    /\ fetched = <<>>
    /\ shown = <<>>
    /\ outcome = "open"

Fetch ==
    /\ outcome = "open"
    /\ fetched' = Append(fetched, Len(fetched) + 1)
    /\ UNCHANGED <<shown, outcome>>

\* A batch: the next messages the tab has not been shown.
Show ==
    /\ outcome = "open"
    /\ \E n \in Len(shown) + 1 .. Len(fetched) :
          shown' = SubSeq(fetched, 1, n)
    /\ UNCHANGED <<fetched, outcome>>

Complete ==
    /\ outcome = "open"
    /\ outcome' = "complete"
    /\ shown' \in {fetched, shown \o fetched}
    /\ UNCHANGED fetched

Fail ==
    /\ outcome = "open"
    /\ outcome' = "failed"
    /\ UNCHANGED <<fetched, shown>>

Next == Fetch \/ Show \/ Complete \/ Fail

Spec == Init /\ [][Next]_vars
=============================================================================
