--------------------------- MODULE ConsoleSessions ---------------------------
(***************************************************************************)
(* Console sessions: the token store of src/src/vncSessions.js with its    *)
(* sweeper, and the pairs of websockets that src/src/wsConsoleProxy.js     *)
(* pipes into each other.                                                  *)
(*                                                                         *)
(* Every action is one turn of the event loop: a route that stores a       *)
(* session, the sweeper, the server's upgrade event, or an event of one of *)
(* the two sockets.  The sockets' own states follow the ws library: close  *)
(* leads through "closing" to "closed", and the close event comes last.    *)
(* The frames that are piped are left out.                                 *)
(***************************************************************************)
EXTENDS Integers

CONSTANTS
    Tokens,         \* the UUIDs that createSession will draw
    Connections,    \* the upgrades that will succeed, one slot each
    Nothing,        \* no token
    TTL,            \* VNC_TOKEN_TTL_SECONDS in units of time
    SweepPeriod     \* the sweeper's interval in units of time

ASSUME SessionAssumption ==
    /\ Nothing \notin Tokens
    /\ TTL \in Nat
    /\ SweepPeriod \in Nat \ {0}

VARIABLES
    sessions,       \* the keys of the Map
    expiresIn,      \* [Tokens -> expiresAt - Date.now(), negative once past]
    sweepIn,        \* units until the sweeper runs
    issued,         \* the tokens drawn so far
    conn            \* [Connections -> the two sockets of a console]

vars == <<sessions, expiresIn, sweepIn, issued, conn>>

\* early: history, whether the client left while upstream was connecting.
Console ==
    [token : Tokens \cup {Nothing},
     client : {"none", "open", "closing", "closed"},
     upstream : {"none", "connecting", "open", "closing", "closed"},
     early : BOOLEAN]

NoConsole == [token |-> Nothing, client |-> "none", upstream |-> "none",
              early |-> FALSE]

TypeOK ==
    /\ sessions \subseteq issued
    /\ issued \subseteq Tokens
    /\ expiresIn \in [Tokens -> Int]
    /\ \A t \in Tokens : expiresIn[t] <= TTL
    /\ sweepIn \in 0 .. SweepPeriod
    /\ conn \in [Connections -> Console]

Init ==
    /\ sessions = {}
    /\ expiresIn = [t \in Tokens |-> 0]
    /\ sweepIn = SweepPeriod
    /\ issued = {}
    /\ conn = [c \in Connections |-> NoConsole]

-----------------------------------------------------------------------------
(* The store.                                                              *)

Expired(t) == expiresIn[t] < 0

\* A plausible bug: the expiry is a unit late.
CreateSessionTooLong(t) ==
    /\ t \notin issued
    /\ issued' = issued \cup {t}
    /\ sessions' = sessions \cup {t}
    /\ expiresIn' = [expiresIn EXCEPT ![t] = TTL + 1]
    /\ UNCHANGED <<sweepIn, conn>>

\* A console route stores the ticket it has just been given.
CreateSession(t) ==
    /\ t \notin issued
    /\ issued' = issued \cup {t}
    /\ sessions' = sessions \cup {t}
    /\ expiresIn' = [expiresIn EXCEPT ![t] = TTL]
    /\ UNCHANGED <<sweepIn, conn>>

\* A plausible bug: the sweep stops at the first session that is still good.
SweepStopsEarly ==
    /\ sweepIn = 0
    /\ sweepIn' = SweepPeriod
    /\ sessions' = IF \A t \in sessions : Expired(t) THEN {} ELSE sessions
    /\ UNCHANGED <<expiresIn, issued, conn>>

\* The interval's callback.
Sweep ==
    /\ sweepIn = 0
    /\ sweepIn' = SweepPeriod
    /\ sessions' = {t \in sessions : ~Expired(t)}
    /\ UNCHANGED <<expiresIn, issued, conn>>

\* Time passes, but not past a sweep that is due.  Only the expiry of stored
\* sessions matters.
Tick ==
    /\ sweepIn > 0
    /\ sweepIn' = sweepIn - 1
    /\ expiresIn' = [t \in Tokens |->
                        IF t \in sessions THEN expiresIn[t] - 1 ELSE 0]
    /\ UNCHANGED <<sessions, issued, conn>>

\* A plausible bug: a token works until it expires.
TakeSessionAgain(t) ==
    /\ t \in sessions
    /\ UNCHANGED sessions

\* takeSession for a token that is known: it is consumed, expired or not.
TakeSession(t) ==
    /\ t \in sessions
    /\ sessions' = sessions \ {t}

-----------------------------------------------------------------------------
(* The consoles.                                                           *)

\* A plausible bug: the expiry is left to the sweeper.
UpgradeUnexpired(c, t) ==
    /\ TakeSession(t)
    /\ conn[c].client = "none"
    /\ conn' = [conn EXCEPT ![c] =
                    [token |-> t, client |-> "open", upstream |-> "connecting",
                     early |-> FALSE]]
    /\ UNCHANGED <<expiresIn, sweepIn, issued>>

\* handleConsoleUpgrade for a token that was issued: refused if the store
\* does not have it or it has expired; otherwise the client's handshake is
\* completed, in the same turn, and a socket to Proxmox is on its way.
Upgrade(c, t) ==
    /\ t \in issued
    /\ \/ /\ t \notin sessions
          /\ UNCHANGED <<sessions, conn>>
       \/ /\ TakeSession(t)
          /\ Expired(t)
          /\ UNCHANGED conn
       \/ /\ TakeSession(t)
          /\ ~Expired(t)
          /\ conn[c].client = "none"
          /\ conn' = [conn EXCEPT ![c] =
                        [token |-> t, client |-> "open",
                         upstream |-> "connecting",
                         early |-> FALSE]]
    /\ UNCHANGED <<expiresIn, sweepIn, issued>>

\* handleUpgrade refuses a client whose handshake is malformed: the session
\* was taken before it looked.
UpgradeMalformed(t) ==
    /\ TakeSession(t)
    /\ UNCHANGED <<expiresIn, sweepIn, issued, conn>>

\* A plausible bug: the socket to Proxmox is forgotten.
CloseBothForgetsUpstream(console) ==
    [console EXCEPT !.client = IF @ = "open" THEN "closing" ELSE @]

\* closeBoth: it closes what is open, so a socket that is connecting stays.
CloseBoth(console) ==
    [console EXCEPT
        !.client = IF @ = "open" THEN "closing" ELSE @,
        !.upstream = IF @ = "open" THEN "closing" ELSE @]

Becomes(c, console) ==
    /\ conn' = [conn EXCEPT ![c] = console]
    /\ UNCHANGED <<sessions, expiresIn, sweepIn, issued>>

\* The open event, which starts the piping, whoever is left at the other end.
UpstreamOpens(c) ==
    /\ conn[c].upstream = "connecting"
    /\ Becomes(c, [conn[c] EXCEPT !.upstream = "open"])

\* A plausible bug: a failed connection is only logged.
UpstreamFailsUnnoticed(c) ==
    /\ conn[c].upstream = "connecting"
    /\ Becomes(c, [conn[c] EXCEPT !.upstream = "closed"])

\* Proxmox cannot be reached, or refuses: the error event, then close.
UpstreamFails(c) ==
    /\ conn[c].upstream = "connecting"
    /\ Becomes(c, CloseBoth([conn[c] EXCEPT !.upstream = "closed"]))

\* The close event, after Proxmox or closeBoth began to close the socket.
UpstreamCloses(c) ==
    /\ conn[c].upstream \in {"open", "closing"}
    /\ Becomes(c, CloseBoth([conn[c] EXCEPT !.upstream = "closed"]))

\* An error on an established connection; the library closes it itself.
UpstreamErrs(c) ==
    /\ conn[c].upstream = "open"
    /\ Becomes(c, CloseBoth([conn[c] EXCEPT !.upstream = "closing"]))

Leaves(c, state) ==
    CloseBoth([conn[c] EXCEPT
        !.client = state,
        !.early = @ \/ conn[c].upstream = "connecting"])

ClientCloses(c) ==
    /\ conn[c].client \in {"open", "closing"}
    /\ Becomes(c, Leaves(c, "closed"))

ClientErrs(c) ==
    /\ conn[c].client = "open"
    /\ Becomes(c, Leaves(c, "closing"))

-----------------------------------------------------------------------------

SocketEvent(c) ==
    \/ UpstreamOpens(c)
    \/ UpstreamFails(c)
    \/ UpstreamCloses(c)
    \/ UpstreamErrs(c)
    \/ ClientCloses(c)
    \/ ClientErrs(c)

Next ==
    \/ \E t \in Tokens : CreateSession(t)
    \/ Sweep
    \/ Tick
    \/ \E c \in Connections, t \in Tokens : Upgrade(c, t)
    \/ \E t \in Tokens : UpgradeMalformed(t)
    \/ \E c \in Connections : SocketEvent(c)

Spec == Init /\ [][Next]_vars

(***************************************************************************)
(* A socket that is closing closes: the library destroys it after its      *)
(* close timeout.  Nothing is assumed about sockets that are connecting    *)
(* (the code sets no handshakeTimeout) or open.                            *)
(***************************************************************************)
Fairness ==
    \A c \in Connections :
        /\ WF_vars(conn[c].upstream = "closing" /\ UpstreamCloses(c))
        /\ WF_vars(conn[c].client = "closing" /\ ClientCloses(c))

FairSpec == Spec /\ Fairness

-----------------------------------------------------------------------------

\* "A token is valid for exactly one websocket connect": whatever upgrades
\* race, expire or are refused, no two consoles were opened with one token,
\* and no token that opened one is still in the store.
SingleUse ==
    \A c \in Connections :
        conn[c].token # Nothing =>
            /\ conn[c].token \notin sessions
            /\ \A d \in Connections \ {c} : conn[d].token # conn[c].token

\* The store does not keep what nobody fetches: an expired session is gone
\* after at most one more period of the sweeper.
StoreForgets == \A t \in sessions : expiresIn[t] >= -SweepPeriod

\* A connection to Proxmox stays open without its client only if the client
\* left before it was established, when closeBoth finds nothing to close.
OrphansLeftEarly ==
    \A c \in Connections :
        conn[c].client = "closed" /\ conn[c].upstream = "open" => conn[c].early

\* When Proxmox ends or refuses a console, its client is disconnected.
ClientFollowsUpstream ==
    \A c \in Connections :
        conn[c].upstream = "closed" ~> conn[c].client = "closed"

\* When a client leaves an established console, the connection to Proxmox is
\* closed, whichever side's events come first.
UpstreamFollowsClient ==
    \A c \in Connections :
        conn[c].client = "closed" /\ ~conn[c].early
            ~> conn[c].upstream = "closed"

-----------------------------------------------------------------------------
(* The promise: tokens and sockets are the tickets of ConsoleTickets.      *)

TicketOf(t) ==
    IF t \notin issued THEN "unissued"
    ELSE IF t \in sessions /\ ~Expired(t) THEN "valid" ELSE "void"

PhaseOf(console) ==
    IF console.client = "none" THEN "none"
    ELSE IF console.upstream = "connecting"
         THEN IF console.client = "open" THEN "dialing" ELSE "abandoned"
    ELSE IF console.upstream = "open"
         THEN IF console.client = "open" THEN "piping" ELSE "orphan"
    ELSE "over"

TicketBooth == INSTANCE ConsoleTickets
    WITH Tickets <- Tokens,
         Consoles <- Connections,
         NoTicket <- Nothing,
         ticket <- [t \in Tokens |-> TicketOf(t)],
         console <- [c \in Connections |->
                        [ticket |-> conn[c].token, phase |-> PhaseOf(conn[c])]]

\* Whatever expires, is swept, raced or refused, and in whatever order the
\* events of the two sockets come: a token opens one console while it is
\* fresh, no console comes back once an end of it has left, and only one that
\* the client had left while it was dialing leaves a connection behind.
ImplementsConsoleTickets == TicketBooth!Spec

=============================================================================
