----------------------------- MODULE OrderFlow ------------------------------
(***************************************************************************)
(* What a client expects of the way from acceptOrder to the matching       *)
(* engine: orders are matched in the order they were accepted in, each of  *)
(* them once, none is left out, and none waits forever.                    *)
(***************************************************************************)
EXTENDS Sequences, Naturals

CONSTANT Messages

VARIABLES
  accepted,  \* the messages accepted, in order
  delivered  \* the messages matched, in order

flow == <<accepted, delivered>>

StartsWith(t, s) == Len(s) <= Len(t) /\ s = SubSeq(t, 1, Len(s))

FlowInit ==
  /\ accepted = <<>>
  /\ delivered = <<>>

\* One message is accepted, or none; some of those accepted before are delivered.
FlowNext ==
  /\ UNCHANGED accepted \/ \E m \in Messages : accepted' = Append(accepted, m)
  /\ StartsWith(delivered', delivered)
  /\ StartsWith(accepted', delivered')

DeliverAll ==
  /\ delivered # accepted
  /\ delivered' = accepted
  /\ UNCHANGED accepted

FlowSafety == FlowInit /\ [][FlowNext]_flow

FlowSpec == FlowSafety /\ WF_flow(DeliverAll)
=============================================================================
