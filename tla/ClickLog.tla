------------------------------- MODULE ClickLog -------------------------------
(***************************************************************************)
(* What the click collector promises, whatever channel, batches and ticker *)
(* it is made of: clicks are handed to the database once each, in the      *)
(* order in which they were accepted, a batch at a time, and only while    *)
(* the process lives.  What has been accepted and not been handed over     *)
(* when it ends is lost.                                                   *)
(***************************************************************************)
EXTENDS Integers, Sequences

CONSTANTS
  Clicks,    \* the clicks that there may be
  BatchSize  \* the most that one INSERT carries

ASSUME ClickLogAssumption == BatchSize \in Nat \ {0}

VARIABLES
  accepted,  \* clicks that a handler got rid of, in order
  handed,    \* clicks that the database was called with, in order
  phase      \* of the process: "serving", then "stopping", then "ended"

logVars == <<accepted, handed, phase>>

LogInit == accepted = <<>> /\ handed = <<>> /\ phase = "serving"

\* A click is accepted at most once.
Accept(c) ==
  /\ phase # "ended"
  /\ \A k \in 1..Len(accepted) : accepted[k] # c
  /\ accepted' = Append(accepted, c)
  /\ UNCHANGED <<handed, phase>>

\* The clicks that come next in line, n of them.
NextInLine(n) == SubSeq(accepted, Len(handed) + 1, Len(handed) + n)

HandOver(n) ==
  /\ phase # "ended"
  /\ Len(handed) + n <= Len(accepted)
  /\ handed' = handed \o NextInLine(n)
  /\ UNCHANGED <<accepted, phase>>

Stop == phase = "serving" /\ phase' = "stopping" /\ UNCHANGED <<accepted, handed>>
End == phase # "ended" /\ phase' = "ended" /\ UNCHANGED <<accepted, handed>>

LogNext ==
  \/ \E c \in Clicks : Accept(c)
  \/ \E n \in 1..BatchSize : HandOver(n)
  \/ Stop \/ End

\* As long as the process serves, what was accepted is handed over; once it stops, it ends.
LogFairness ==
  /\ WF_logVars(phase = "serving" /\ \E n \in 1..BatchSize : HandOver(n))
  /\ WF_logVars(phase = "stopping" /\ End)

LogSpec == LogInit /\ [][LogNext]_logVars /\ LogFairness

=============================================================================
