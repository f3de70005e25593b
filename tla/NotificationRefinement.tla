----------------------- MODULE NotificationRefinement -----------------------
(***************************************************************************)
(* To a client of its, a notification service is an OrderFlow: what is     *)
(* pushed for the client is accepted, what getNotification was called with *)
(* is delivered.  Services and clients are alike, so one of each is looked *)
(* at.                                                                     *)
(***************************************************************************)
EXTENDS Notification

TheService == CHOOSE s \in Services : TRUE
TheClient == CHOOSE c \in Clients : TRUE

\* The events addressed to client c.
For(c, events) ==
  LET upTo[i \in 0..Len(events)] ==
        IF i = 0 THEN <<>>
        ELSE IF events[i].user = c THEN Append(upTo[i - 1], events[i]) ELSE upTo[i - 1]
  IN  upTo[Len(events)]

Channel == INSTANCE OrderFlow WITH
  Messages <- [n: 1..MaxEvents, user: {TheClient}],
  accepted <- For(TheClient, pushed[TheService]),
  delivered <- inbox[TheService][TheClient]

\* A client gets every event addressed to it, once, in order, and eventually,
\* whether the processing thread or stop() hands it over.
ImplementsChannel == Channel!FlowSpec
=============================================================================
