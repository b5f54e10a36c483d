--------------------------- MODULE ConsoleTickets ---------------------------
(***************************************************************************)
(* What a console is promised to be, with neither clock, store nor         *)
(* sockets: a ticket opens one console or lapses, and a console goes one   *)
(* way.  It pipes only after both ends are there and only until one of     *)
(* them leaves, which is the end of it; what may be left behind is a       *)
(* connection to Proxmox that was established after its client left.       *)
(* ConsoleSessions implements it.                                          *)
(***************************************************************************)

CONSTANTS Tickets, Consoles, NoTicket

VARIABLES
    ticket,     \* [Tickets -> "unissued", "valid" or "void"]
    console     \* [Consoles -> its ticket and its phase]

vars == <<ticket, console>>

Init ==
    /\ ticket = [t \in Tickets |-> "unissued"]
    /\ console = [c \in Consoles |-> [ticket |-> NoTicket, phase |-> "none"]]

Issue(t) ==
    /\ ticket[t] = "unissued"
    /\ ticket' = [ticket EXCEPT ![t] = "valid"]
    /\ UNCHANGED console

\* Tickets expire, together if they were issued together, or are spent on a
\* connect that comes to nothing.
Lapse(lapsing) ==
    /\ \A t \in lapsing : ticket[t] = "valid"
    /\ ticket' = [t \in Tickets |->
                    IF t \in lapsing THEN "void" ELSE ticket[t]]
    /\ UNCHANGED console

Open(c, t) ==
    /\ ticket[t] = "valid"
    /\ console[c].phase = "none"
    /\ ticket' = [ticket EXCEPT ![t] = "void"]
    /\ console' = [console EXCEPT ![c] = [ticket |-> t, phase |-> "dialing"]]

\* The client leaves a console that is dialing: it is abandoned, and an orphan
\* once upstream answers.
Moves ==
    {<<"dialing", "piping">>, <<"dialing", "abandoned">>, <<"dialing", "over">>,
     <<"abandoned", "orphan">>, <<"abandoned", "over">>,
     <<"piping", "over">>, <<"orphan", "over">>}

Move(c, phase) ==
    /\ <<console[c].phase, phase>> \in Moves
    /\ console' = [console EXCEPT ![c].phase = phase]
    /\ UNCHANGED ticket

Next ==
    \/ \E t \in Tickets : Issue(t)
    \/ \E lapsing \in SUBSET Tickets : Lapse(lapsing)
    \/ \E c \in Consoles, t \in Tickets : Open(c, t)
    \/ \E c \in Consoles, phase \in {"piping", "abandoned", "orphan", "over"} :
          Move(c, phase)

Spec == Init /\ [][Next]_vars

=============================================================================
