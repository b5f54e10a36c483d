------------------------ MODULE ConsoleSessionsProofs ------------------------
(***************************************************************************)
(* The invariants of ConsoleSessions, for any number of tokens and         *)
(* consoles and any TTL and sweep period.                                  *)
(*                                                                         *)
(* Each invariant is strengthened by what its argument leans on: that a    *)
(* token in use is known to have been drawn, so that it is not drawn       *)
(* again; that the age of an expired session is that of the last sweep;    *)
(* and that a client that left while upstream was on its way is remembered *)
(* to have left early before upstream opens.                               *)
(***************************************************************************)
EXTENDS ConsoleSessions, TLAPS

\* A token that opened a console is drawn and spent.
SpentInv ==
    \A c \in Connections :
        conn[c].token # Nothing => conn[c].token \in issued \ sessions

OneConsoleInv ==
    \A c, d \in Connections :
        conn[c].token # Nothing /\ conn[c].token = conn[d].token => c = d

\* A session's expiry is no longer past than the last sweep.
SweptInv == \A t \in sessions : expiresIn[t] >= sweepIn - SweepPeriod

EarlyConsole(console) ==
    /\ console.client \in {"closing", "closed"}
    /\ console.upstream \in {"connecting", "open"}
    => console.early

EarlyInv == \A c \in Connections : EarlyConsole(conn[c])

IInv ==
    /\ TypeOK
    /\ SpentInv
    /\ OneConsoleInv
    /\ SweptInv
    /\ EarlyInv

LEMMA InitIInv == Init => IInv
<1> SUFFICES ASSUME Init PROVE IInv
  OBVIOUS
<1>1. NoConsole \in Console
  BY DEF NoConsole, Console
<1>2. \A c \in Connections :
        /\ conn[c] = NoConsole
        /\ NoConsole.token = Nothing
        /\ NoConsole.client = "none"
  BY DEF Init, NoConsole
<1>3. TypeOK
  BY <1>1, SessionAssumption DEF Init, TypeOK
<1>4. SpentInv /\ OneConsoleInv /\ EarlyInv
  BY <1>2 DEF SpentInv, OneConsoleInv, EarlyInv, EarlyConsole
<1>5. SweptInv
  BY DEF Init, SweptInv
<1> QED BY <1>3, <1>4, <1>5 DEF IInv

-----------------------------------------------------------------------------
(* Steps of the store.                                                     *)

LEMMA CreateSessionKeepsIInv ==
    ASSUME IInv, NEW t \in Tokens, CreateSession(t)
    PROVE  IInv'
<1>1. /\ TypeOK /\ conn' = conn /\ sweepIn' = sweepIn
      /\ issued' = issued \cup {t} /\ sessions' = sessions \cup {t}
      /\ expiresIn' = [expiresIn EXCEPT ![t] = TTL] /\ t \notin issued
  BY DEF IInv, CreateSession
<1>2. TypeOK'
  BY <1>1, SessionAssumption DEF TypeOK
<1>3. SpentInv' /\ OneConsoleInv' /\ EarlyInv'
  BY <1>1 DEF IInv, SpentInv, OneConsoleInv, EarlyInv,
              EarlyConsole
<1>4. SweptInv'
  BY <1>1, SessionAssumption DEF IInv, SweptInv, TypeOK
<1> QED BY <1>2, <1>3, <1>4 DEF IInv

LEMMA SweepKeepsIInv ==
    ASSUME IInv, Sweep
    PROVE  IInv'
<1>1. /\ TypeOK /\ conn' = conn /\ sweepIn' = SweepPeriod
      /\ issued' = issued /\ sessions' = {t \in sessions : ~Expired(t)}
      /\ expiresIn' = expiresIn
  BY DEF IInv, Sweep
<1>2. TypeOK'
  BY <1>1, SessionAssumption DEF TypeOK
<1>3. SpentInv' /\ OneConsoleInv' /\ EarlyInv'
  BY <1>1 DEF IInv, SpentInv, OneConsoleInv, EarlyInv,
              EarlyConsole
<1>4. SweptInv'
  BY <1>1, SessionAssumption DEF SweptInv, TypeOK, Expired
<1> QED BY <1>2, <1>3, <1>4 DEF IInv

LEMMA TickKeepsIInv ==
    ASSUME IInv, Tick
    PROVE  IInv'
<1>1. /\ TypeOK /\ conn' = conn /\ sweepIn > 0 /\ sweepIn' = sweepIn - 1
      /\ issued' = issued /\ sessions' = sessions
      /\ expiresIn' = [t \in Tokens |->
                         IF t \in sessions THEN expiresIn[t] - 1 ELSE 0]
  BY DEF IInv, Tick
<1>2. TypeOK'
  BY <1>1, SessionAssumption DEF TypeOK
<1>3. SpentInv' /\ OneConsoleInv' /\ EarlyInv'
  BY <1>1 DEF IInv, SpentInv, OneConsoleInv, EarlyInv,
              EarlyConsole
<1>4. SweptInv'
  BY <1>1, SessionAssumption DEF IInv, SweptInv, TypeOK
<1> QED BY <1>2, <1>3, <1>4 DEF IInv

\* A session that is taken and opens nothing.
LEMMA TakeSessionKeepsIInv ==
    ASSUME IInv, NEW t \in Tokens, TakeSession(t),
           UNCHANGED <<expiresIn, sweepIn, issued, conn>>
    PROVE  IInv'
<1>1. TypeOK'
  BY DEF IInv, TypeOK, TakeSession
<1>2. SpentInv' /\ OneConsoleInv' /\ EarlyInv'
  BY DEF IInv, SpentInv, OneConsoleInv, EarlyInv,
         EarlyConsole, TakeSession
<1>3. SweptInv'
  BY DEF IInv, SweptInv, TakeSession
<1> QED BY <1>1, <1>2, <1>3 DEF IInv

-----------------------------------------------------------------------------
(* Steps of the consoles.                                                  *)

LEMMA UpgradeKeepsIInv ==
    ASSUME IInv, NEW c \in Connections, NEW t \in Tokens, Upgrade(c, t)
    PROVE  IInv'
<1> DEFINE K == [token |-> t, client |-> "open", upstream |-> "connecting",
                 early |-> FALSE]
<1>1. CASE UNCHANGED <<sessions, conn>>
  BY <1>1 DEF Upgrade, IInv, TypeOK, SpentInv, OneConsoleInv,
              SweptInv, EarlyInv, EarlyConsole
<1>2. CASE TakeSession(t) /\ UNCHANGED conn
  BY <1>2, TakeSessionKeepsIInv DEF Upgrade
<1>3. CASE /\ TakeSession(t) /\ ~Expired(t)
           /\ conn' = [conn EXCEPT ![c] = K]
  <2>1. /\ TypeOK /\ issued' = issued /\ sweepIn' = sweepIn
        /\ expiresIn' = expiresIn /\ sessions' = sessions \ {t}
        /\ t \in sessions /\ t \in issued /\ expiresIn[t] \in Int
        /\ expiresIn[t] >= 0
    BY <1>3 DEF IInv, TypeOK, Upgrade, TakeSession, Expired
  <2>2. K \in Console /\ K.token = t /\ EarlyConsole(K)
    BY <2>1 DEF Console, EarlyConsole
  <2> HIDE DEF K
  <2>3. conn'[c] = K /\ \A d \in Connections \ {c} : conn'[d] = conn[d]
    BY <1>3, <2>1 DEF TypeOK
  <2>4. TypeOK'
    BY <1>3, <2>1, <2>2 DEF TypeOK
  <2>5. SpentInv'
    BY <2>1, <2>2, <2>3 DEF IInv, SpentInv
  <2>6. OneConsoleInv'
    BY <2>1, <2>2, <2>3 DEF IInv, SpentInv, OneConsoleInv
  <2>7. SweptInv'
    BY <2>1 DEF IInv, SweptInv
  <2>8. EarlyInv'
    BY <2>2, <2>3 DEF IInv, EarlyInv, EarlyConsole
  <2> QED BY <2>4, <2>5, <2>6, <2>7, <2>8 DEF IInv
<1> QED BY <1>1, <1>2, <1>3 DEF Upgrade

LEMMA CloseBothEffect ==
    ASSUME NEW K \in Console
    PROVE  /\ CloseBoth(K) \in Console
           /\ CloseBoth(K).token = K.token
           /\ CloseBoth(K).early = K.early
           /\ CloseBoth(K).client =
                 IF K.client = "open" THEN "closing" ELSE K.client
           /\ CloseBoth(K).upstream =
                 IF K.upstream = "open" THEN "closing" ELSE K.upstream
  BY DEF Console, CloseBoth

\* A step that keeps the token of a console.
LEMMA SameSession ==
    ASSUME IInv, NEW c \in Connections, NEW K \in Console, Becomes(c, K),
           K.token = conn[c].token, EarlyConsole(K)
    PROVE  IInv'
<1>1. /\ TypeOK /\ issued' = issued /\ sweepIn' = sweepIn
      /\ expiresIn' = expiresIn /\ sessions' = sessions
      /\ conn' = [conn EXCEPT ![c] = K]
  BY DEF IInv, Becomes
<1>2. conn'[c] = K /\ \A d \in Connections \ {c} : conn'[d] = conn[d]
  BY <1>1 DEF TypeOK
<1>3. \A d \in Connections :
        conn'[d].token = conn[d].token
  BY <1>2
<1>4. TypeOK'
  BY <1>1 DEF TypeOK
<1>5. SpentInv' /\ OneConsoleInv'
  BY <1>1, <1>3 DEF IInv, SpentInv, OneConsoleInv
<1>6. SweptInv'
  BY <1>1 DEF IInv, SweptInv
<1>7. EarlyInv'
  BY <1>2 DEF IInv, EarlyInv, EarlyConsole
<1> QED BY <1>4, <1>5, <1>6, <1>7 DEF IInv

LEMMA SocketEventKeepsIInv ==
    ASSUME IInv, NEW c \in Connections, SocketEvent(c)
    PROVE  IInv'
<1>1. conn[c] \in Console /\ EarlyConsole(conn[c])
  BY DEF IInv, TypeOK, EarlyInv
<1>2. CASE UpstreamOpens(c)
  <2> DEFINE K == [conn[c] EXCEPT !.upstream = "open"]
  <2>1. /\ K \in Console /\ K.token = conn[c].token
        /\ EarlyConsole(K)
    BY <1>1, <1>2 DEF Console, EarlyConsole, UpstreamOpens
  <2> QED BY <1>2, <2>1, SameSession DEF UpstreamOpens
<1>3. CASE UpstreamFails(c) \/ UpstreamCloses(c)
  <2> DEFINE K == [conn[c] EXCEPT !.upstream = "closed"]
  <2>1. /\ K \in Console /\ K.token = conn[c].token
        /\ K.upstream = "closed"
    BY <1>1 DEF Console
  <2>2. Becomes(c, CloseBoth(K))
    BY <1>3 DEF UpstreamFails, UpstreamCloses
  <2> HIDE DEF K
  <2>3. EarlyConsole(CloseBoth(K))
    BY <2>1, CloseBothEffect DEF EarlyConsole
  <2> QED BY <2>1, <2>2, <2>3, CloseBothEffect, SameSession
<1>4. CASE UpstreamErrs(c)
  <2> DEFINE K == [conn[c] EXCEPT !.upstream = "closing"]
  <2>1. /\ K \in Console /\ K.token = conn[c].token
        /\ K.upstream = "closing"
    BY <1>1 DEF Console
  <2>2. Becomes(c, CloseBoth(K))
    BY <1>4 DEF UpstreamErrs
  <2> HIDE DEF K
  <2>3. EarlyConsole(CloseBoth(K))
    BY <2>1, CloseBothEffect DEF EarlyConsole
  <2> QED BY <2>1, <2>2, <2>3, CloseBothEffect, SameSession
<1>5. ASSUME NEW state \in {"closing", "closed"}, Becomes(c, Leaves(c, state))
      PROVE  IInv'
  <2> DEFINE K == [conn[c] EXCEPT
                     !.client = state,
                     !.early = @ \/ conn[c].upstream = "connecting"]
  <2>1. /\ K \in Console /\ K.token = conn[c].token
        /\ K.client = state /\ K.upstream = conn[c].upstream
    BY <1>1 DEF Console
  <2>2. conn[c].upstream = "connecting" => K.early
    BY <1>1 DEF Console
  <2>3. Becomes(c, CloseBoth(K))
    BY <1>5 DEF Leaves
  <2> HIDE DEF K
  <2>4. EarlyConsole(CloseBoth(K))
    BY <2>1, <2>2, CloseBothEffect DEF EarlyConsole
  <2> QED BY <2>1, <2>3, <2>4, CloseBothEffect, SameSession
<1> QED
  BY <1>2, <1>3, <1>4, <1>5 DEF SocketEvent, ClientCloses, ClientErrs

-----------------------------------------------------------------------------

LEMMA SpecIInv == Spec => []IInv
<1>1. IInv /\ [Next]_vars => IInv'
  <2> SUFFICES ASSUME IInv, [Next]_vars PROVE IInv'
    OBVIOUS
  <2>1. CASE \E t \in Tokens : CreateSession(t)
    BY <2>1, CreateSessionKeepsIInv
  <2>2. CASE Sweep
    BY <2>2, SweepKeepsIInv
  <2>3. CASE Tick
    BY <2>3, TickKeepsIInv
  <2>4. CASE \E c \in Connections, t \in Tokens : Upgrade(c, t)
    BY <2>4, UpgradeKeepsIInv
  <2>5. CASE \E t \in Tokens : UpgradeMalformed(t)
    BY <2>5, TakeSessionKeepsIInv DEF UpgradeMalformed
  <2>6. CASE \E c \in Connections : SocketEvent(c)
    BY <2>6, SocketEventKeepsIInv
  <2>7. CASE UNCHANGED vars
    BY <2>7 DEF vars, IInv, TypeOK, SpentInv, OneConsoleInv,
                SweptInv, EarlyInv, EarlyConsole
  <2> QED BY <2>1, <2>2, <2>3, <2>4, <2>5, <2>6, <2>7 DEF Next
<1> QED BY <1>1, InitIInv, PTL DEF Spec

\* The store and the sockets have their types: what the store keeps was drawn,
\* and no expiry is further off than the TTL.
THEOREM ConsoleTypeOK == Spec => []TypeOK
<1>1. IInv => TypeOK
  BY DEF IInv
<1> QED BY <1>1, SpecIInv, PTL

\* takeSession's promise: no two consoles were opened with one token, and the
\* token of a console is no longer in the store, however many upgrades race.
THEOREM TokensAreSingleUse == Spec => []SingleUse
<1>1. IInv => SingleUse
  BY DEF IInv, SpentInv, OneConsoleInv, SingleUse
<1> QED BY <1>1, SpecIInv, PTL

\* The sweeper's promise: an expired session is gone after at most one more
\* period, whatever the TTL and the period are.
THEOREM StoreIsSwept == Spec => []StoreForgets
<1>1. IInv => StoreForgets
  <2> SUFFICES ASSUME IInv, NEW t \in sessions
               PROVE  expiresIn[t] >= -SweepPeriod
    BY DEF StoreForgets
  <2>1. expiresIn[t] \in Int /\ sweepIn \in Nat /\ SweepPeriod \in Nat
    BY SessionAssumption DEF IInv, TypeOK
  <2>2. expiresIn[t] >= sweepIn - SweepPeriod
    BY DEF IInv, SweptInv
  <2> QED BY <2>1, <2>2
<1> QED BY <1>1, SpecIInv, PTL

\* closeBoth leaves a connection to Proxmox without a client only if the
\* client left before that connection was established.
THEOREM OnlyEarlyLeaversOrphan == Spec => []OrphansLeftEarly
<1>1. IInv => OrphansLeftEarly
  BY DEF IInv, EarlyInv, EarlyConsole, OrphansLeftEarly
<1> QED BY <1>1, SpecIInv, PTL

-----------------------------------------------------------------------------
(* Tokens and sockets are the tickets and consoles of ConsoleTickets.      *)

\* The two sockets of a console come into being together.
Paired(console) == console.client = "none" <=> console.upstream = "none"

TInv == IInv /\ \A c \in Connections : Paired(conn[c])

Booth == [t \in Tokens |-> TicketOf(t)]
Consoles == [c \in Connections |->
                [ticket |-> conn[c].token, phase |-> PhaseOf(conn[c])]]

\* A step that keeps a console's token and takes its phase one move further.
Advances(old, new) ==
    /\ new \in Console
    /\ new.token = old.token
    /\ Paired(new)
    /\ \/ PhaseOf(new) = PhaseOf(old)
       \/ /\ <<PhaseOf(old), PhaseOf(new)>> \in TicketBooth!Moves
          /\ PhaseOf(new) \in {"piping", "abandoned", "orphan", "over"}

\* An end of the console is closing or closed, so it stays over.
LEMMA EndsIt ==
    ASSUME NEW old \in Console, NEW new \in Console,
           old.client # "none", Paired(old),
           new.token = old.token, new.client # "none",
           new.upstream \in {"closing", "closed"}
    PROVE  Advances(old, new)
<1>1. PhaseOf(new) = "over"
  BY DEF PhaseOf
<1>2. PhaseOf(old) \in {"dialing", "abandoned", "piping", "orphan", "over"}
  BY DEF PhaseOf
<1>3. PhaseOf(old) = "over" \/ <<PhaseOf(old), "over">> \in TicketBooth!Moves
  BY <1>2 DEF TicketBooth!Moves
<1> QED BY <1>1, <1>3 DEF Advances, Paired

\* Whichever event of whichever socket comes first.
LEMMA SocketEventAdvances ==
    ASSUME TInv, NEW c \in Connections, SocketEvent(c)
    PROVE  \E K \in Console : Becomes(c, K) /\ Advances(conn[c], K)
<1>1. conn[c] \in Console /\ Paired(conn[c])
  BY DEF TInv, IInv, TypeOK
<1>2. conn[c].client # "none"
  BY <1>1 DEF SocketEvent, UpstreamOpens, UpstreamFails, UpstreamCloses,
              UpstreamErrs, ClientCloses, ClientErrs, Paired
<1>3. CASE UpstreamOpens(c)
  <2> DEFINE K == [conn[c] EXCEPT !.upstream = "open"]
  <2>1. /\ K \in Console /\ K.token = conn[c].token
        /\ K.client = conn[c].client /\ K.upstream = "open"
        /\ Becomes(c, K) /\ conn[c].upstream = "connecting"
    BY <1>1, <1>3 DEF Console, UpstreamOpens
  <2> HIDE DEF K
  <2>2. CASE conn[c].client = "open"
    <3>1. PhaseOf(conn[c]) = "dialing" /\ PhaseOf(K) = "piping"
      BY <2>1, <2>2 DEF PhaseOf
    <3> QED BY <1>2, <2>1, <3>1 DEF Advances, Paired, TicketBooth!Moves
  <2>3. CASE conn[c].client # "open"
    <3>1. PhaseOf(conn[c]) = "abandoned" /\ PhaseOf(K) = "orphan"
      BY <1>2, <2>1, <2>3 DEF PhaseOf
    <3> QED BY <1>2, <2>1, <3>1 DEF Advances, Paired, TicketBooth!Moves
  <2> QED BY <2>2, <2>3
<1>4. ASSUME NEW s \in {"closing", "closed"},
             Becomes(c, CloseBoth([conn[c] EXCEPT !.upstream = s]))
      PROVE  \E K \in Console : Becomes(c, K) /\ Advances(conn[c], K)
  <2> DEFINE K == [conn[c] EXCEPT !.upstream = s]
  <2>1. /\ K \in Console /\ K.token = conn[c].token
        /\ K.client = conn[c].client /\ K.upstream = s
    BY <1>1 DEF Console
  <2>2. Becomes(c, CloseBoth(K))
    BY <1>4
  <2> HIDE DEF K
  <2>3. /\ CloseBoth(K) \in Console /\ CloseBoth(K).token = conn[c].token
        /\ CloseBoth(K).client # "none"
        /\ CloseBoth(K).upstream \in {"closing", "closed"}
    BY <1>2, <2>1, CloseBothEffect
  <2>4. Advances(conn[c], CloseBoth(K))
    BY <1>1, <1>2, <2>3, EndsIt
  <2> QED BY <2>2, <2>3, <2>4
<1>5. ASSUME NEW state \in {"closing", "closed"}, Becomes(c, Leaves(c, state))
      PROVE  \E K \in Console : Becomes(c, K) /\ Advances(conn[c], K)
  <2> DEFINE K == [conn[c] EXCEPT
                     !.client = state,
                     !.early = @ \/ conn[c].upstream = "connecting"]
  <2>1. /\ K \in Console /\ K.token = conn[c].token
        /\ K.client = state /\ K.upstream = conn[c].upstream
    BY <1>1 DEF Console
  <2>2. Becomes(c, CloseBoth(K))
    BY <1>5 DEF Leaves
  <2> HIDE DEF K
  <2>3. /\ CloseBoth(K) \in Console /\ CloseBoth(K).token = conn[c].token
        /\ CloseBoth(K).client = state
        /\ CloseBoth(K).upstream = IF conn[c].upstream = "open"
                                   THEN "closing" ELSE conn[c].upstream
    BY <2>1, CloseBothEffect
  <2>4. CASE conn[c].upstream = "connecting"
    <3>1. PhaseOf(CloseBoth(K)) = "abandoned"
      BY <2>3, <2>4 DEF PhaseOf
    <3>2. PhaseOf(conn[c]) \in {"dialing", "abandoned"}
      BY <1>2, <2>4 DEF PhaseOf
    <3>3. Advances(conn[c], CloseBoth(K))
      BY <2>3, <2>4, <3>1, <3>2 DEF Advances, Paired, TicketBooth!Moves
    <3> QED BY <2>2, <2>3, <3>3
  <2>5. CASE conn[c].upstream # "connecting"
    <3>1. CloseBoth(K).upstream \in {"closing", "closed"}
      BY <1>1, <1>2, <2>3, <2>5 DEF Console, Paired
    <3>2. Advances(conn[c], CloseBoth(K))
      BY <1>1, <1>2, <2>3, <3>1, EndsIt
    <3> QED BY <2>2, <2>3, <3>2
  <2> QED BY <2>4, <2>5
<1> QED
  BY <1>3, <1>4, <1>5 DEF SocketEvent, UpstreamFails, UpstreamCloses,
                          UpstreamErrs, ClientCloses, ClientErrs

LEMMA SpecTInv == Spec => []TInv
<1>1. Init => TInv
  BY InitIInv DEF Init, TInv, Paired, NoConsole
<1>2. TInv /\ IInv' /\ [Next]_vars => TInv'
  <2> SUFFICES ASSUME TInv, IInv', [Next]_vars
               PROVE  \A d \in Connections : Paired(conn'[d])
    BY DEF TInv
  <2>1. CASE conn' = conn
    BY <2>1 DEF TInv
  <2>2. ASSUME NEW c \in Connections, NEW K \in Console, Paired(K),
               conn' = [conn EXCEPT ![c] = K]
        PROVE  \A d \in Connections : Paired(conn'[d])
    BY <2>2 DEF TInv, IInv, TypeOK
  <2>3. ASSUME NEW c \in Connections, SocketEvent(c)
        PROVE  \A d \in Connections : Paired(conn'[d])
    BY <2>2, <2>3, SocketEventAdvances DEF Becomes, Advances
  <2>4. ASSUME NEW c \in Connections, NEW t \in Tokens, Upgrade(c, t)
        PROVE  \A d \in Connections : Paired(conn'[d])
    <3> DEFINE K == [token |-> t, client |-> "open", upstream |-> "connecting",
                     early |-> FALSE]
    <3>1. K \in Console /\ Paired(K)
      BY DEF TInv, IInv, TypeOK, Console, Paired
    <3>2. UNCHANGED conn \/ conn' = [conn EXCEPT ![c] = K]
      BY <2>4 DEF Upgrade
    <3> HIDE DEF K
    <3> QED BY <2>1, <2>2, <3>1, <3>2
  <2> QED
    BY <2>1, <2>3, <2>4 DEF Next, CreateSession, Sweep, Tick, UpgradeMalformed,
                            vars
<1>3. Spec => []IInv
  BY SpecIInv
<1> QED BY <1>1, <1>2, <1>3, PTL DEF Spec

-----------------------------------------------------------------------------
(* Each step is a step of the booth or none.                               *)

LEMMA ConsolesKept == ASSUME conn' = conn PROVE Consoles' = Consoles
BY DEF Consoles

\* Tokens that are taken, or whose time is up.
LEMMA LapsesOnly ==
    ASSUME issued' = issued, conn' = conn, sessions' \subseteq sessions,
           \A t \in sessions' : Expired(t) => Expired(t)'
    PROVE  [TicketBooth!Next]_(TicketBooth!vars)
<1> DEFINE S == {t \in Tokens : TicketOf(t) = "valid" /\ TicketOf(t)' # "valid"}
<1>1. \A t \in Tokens : TicketOf(t)' =
          IF t \in S THEN "void" ELSE TicketOf(t)
  BY DEF TicketOf
<1>2. S \in SUBSET Tokens /\ \A t \in S : Booth[t] = "valid"
  BY DEF Booth
<1> HIDE DEF S
<1>3. Booth' = [t \in Tokens |-> IF t \in S THEN "void" ELSE Booth[t]]
  BY <1>1 DEF Booth
<1>4. TicketBooth!Lapse(S)
  BY <1>2, <1>3, ConsolesKept DEF TicketBooth!Lapse, Booth, Consoles
<1> QED BY <1>2, <1>4 DEF TicketBooth!Next

LEMMA CreateSessionIssues ==
    ASSUME TInv, NEW t \in Tokens, CreateSession(t)
    PROVE  TicketBooth!Issue(t)
<1>1. /\ t \notin issued /\ issued' = issued \cup {t}
      /\ sessions' = sessions \cup {t} /\ expiresIn' = [expiresIn EXCEPT ![t] = TTL]
      /\ conn' = conn /\ expiresIn \in [Tokens -> Int] /\ TTL >= 0
  BY SessionAssumption DEF TInv, IInv, TypeOK, CreateSession
<1>2. TicketOf(t) = "unissued" /\ TicketOf(t)' = "valid"
  BY <1>1, SessionAssumption DEF TicketOf, Expired
<1>3. \A u \in Tokens \ {t} : TicketOf(u)' = TicketOf(u)
  BY <1>1 DEF TicketOf, Expired
<1>4. Booth' = [Booth EXCEPT ![t] = "valid"] /\ Booth[t] = "unissued"
  BY <1>2, <1>3 DEF Booth
<1> QED BY <1>1, <1>4, ConsolesKept DEF TicketBooth!Issue, Booth, Consoles

LEMMA UpgradeOpens ==
    ASSUME TInv, NEW c \in Connections, NEW t \in Tokens, Upgrade(c, t)
    PROVE  [TicketBooth!Next]_(TicketBooth!vars)
<1> DEFINE K == [token |-> t, client |-> "open", upstream |-> "connecting",
                 early |-> FALSE]
<1>1. CASE conn' = conn
  BY <1>1, LapsesOnly DEF Upgrade, TakeSession, Expired
<1>2. CASE /\ TakeSession(t) /\ ~Expired(t) /\ conn[c].client = "none"
           /\ conn' = [conn EXCEPT ![c] = K]
  <2>1. /\ issued' = issued /\ t \in issued /\ t \in sessions
        /\ sessions' = sessions \ {t} /\ expiresIn' = expiresIn
        /\ conn \in [Connections -> Console]
    BY <1>2 DEF Upgrade, TakeSession, TInv, IInv, TypeOK
  <2>2. TicketOf(t) = "valid" /\ TicketOf(t)' = "void"
    BY <1>2, <2>1 DEF TicketOf
  <2>3. \A u \in Tokens \ {t} : TicketOf(u)' = TicketOf(u)
    BY <2>1 DEF TicketOf, Expired
  <2>4. Booth' = [Booth EXCEPT ![t] = "void"] /\ Booth[t] = "valid"
    BY <2>2, <2>3 DEF Booth
  <2>5. K.token = t /\ PhaseOf(K) = "dialing"
    BY DEF PhaseOf
  <2> HIDE DEF K
  <2>6. conn'[c] = K /\ \A d \in Connections \ {c} : conn'[d] = conn[d]
    BY <1>2, <2>1
  <2>7. Consoles' = [Consoles EXCEPT ![c] = [ticket |-> t, phase |-> "dialing"]]
    BY <2>5, <2>6 DEF Consoles
  <2>8. Consoles[c].phase = "none"
    BY <1>2 DEF Consoles, PhaseOf
  <2>9. TicketBooth!Open(c, t)
    BY <2>4, <2>7, <2>8 DEF TicketBooth!Open, Booth, Consoles
  <2> QED BY <2>9 DEF TicketBooth!Next
<1> QED BY <1>1, <1>2 DEF Upgrade

LEMMA SocketEventMoves ==
    ASSUME TInv, NEW c \in Connections, SocketEvent(c)
    PROVE  [TicketBooth!Next]_(TicketBooth!vars)
<1>1. PICK K \in Console : Becomes(c, K) /\ Advances(conn[c], K)
  BY SocketEventAdvances
<1>2. /\ issued' = issued /\ sessions' = sessions /\ expiresIn' = expiresIn
      /\ conn' = [conn EXCEPT ![c] = K] /\ conn \in [Connections -> Console]
  BY <1>1 DEF Becomes, TInv, IInv, TypeOK
<1>3. Booth' = Booth
  <2>1. \A t \in Tokens : TicketOf(t)' = TicketOf(t)
    BY <1>2 DEF TicketOf, Expired
  <2> QED BY <2>1 DEF Booth
<1>4. conn'[c] = K /\ \A d \in Connections \ {c} : conn'[d] = conn[d]
  BY <1>2
<1>5. \A d \in Connections : Consoles'[d] =
        IF d = c THEN [ticket |-> conn[c].token, phase |-> PhaseOf(K)]
        ELSE Consoles[d]
  BY <1>1, <1>4 DEF Consoles, Advances
<1>6. Consoles[c] = [ticket |-> conn[c].token, phase |-> PhaseOf(conn[c])]
  BY DEF Consoles
<1>7. CASE PhaseOf(K) = PhaseOf(conn[c])
  <2>1. \A d \in Connections : Consoles'[d] = Consoles[d]
    BY <1>5, <1>6, <1>7
  <2>2. Consoles' = Consoles
    BY <2>1 DEF Consoles
  <2> QED BY <1>3, <2>2 DEF TicketBooth!vars, Booth, Consoles
<1>8. CASE /\ <<PhaseOf(conn[c]), PhaseOf(K)>> \in TicketBooth!Moves
           /\ PhaseOf(K) \in {"piping", "abandoned", "orphan", "over"}
  <2>1. PICK p \in {"piping", "abandoned", "orphan", "over"} : p = PhaseOf(K)
    BY <1>8
  <2>2. [Consoles[c] EXCEPT !.phase = p] = [ticket |-> conn[c].token, phase |-> p]
    BY <1>6
  <2>3. Consoles' = [Consoles EXCEPT ![c].phase = p]
    BY <1>5, <2>1, <2>2 DEF Consoles
  <2>4. <<Consoles[c].phase, p>> \in TicketBooth!Moves
    BY <1>6, <1>8, <2>1
  <2>5. TicketBooth!Move(c, p)
    BY <1>3, <2>3, <2>4 DEF TicketBooth!Move, Booth, Consoles
  <2> QED BY <2>5 DEF TicketBooth!Next
<1> QED BY <1>1, <1>7, <1>8 DEF Advances

\* Whatever expires, is swept, raced or refused and whichever socket event
\* comes first, the store and the sockets keep the promise of ConsoleTickets:
\* a ticket opens one console or lapses, and a console goes one way.
THEOREM ConsolesImplementTickets == Spec => ImplementsConsoleTickets
<1>1. Init => TicketBooth!Init
  <2> SUFFICES ASSUME Init PROVE TicketBooth!Init
    OBVIOUS
  <2>1. \A t \in Tokens : TicketOf(t) = "unissued"
    BY DEF Init, TicketOf
  <2>2. \A c \in Connections : conn[c].token = Nothing /\ PhaseOf(conn[c]) = "none"
    BY DEF Init, NoConsole, PhaseOf
  <2> QED BY <2>1, <2>2 DEF TicketBooth!Init
<1>2. TInv /\ [Next]_vars => [TicketBooth!Next]_(TicketBooth!vars)
  <2> SUFFICES ASSUME TInv, [Next]_vars
               PROVE  [TicketBooth!Next]_(TicketBooth!vars)
    OBVIOUS
  <2>1. CASE \E t \in Tokens : CreateSession(t)
    BY <2>1, CreateSessionIssues DEF TicketBooth!Next
  <2>2. CASE Sweep
    BY <2>2, LapsesOnly DEF Sweep, Expired
  <2>3. CASE Tick
    <3>1. ASSUME NEW t \in sessions, Expired(t) PROVE Expired(t)'
      BY <2>3, <3>1 DEF Tick, Expired, TInv, IInv, TypeOK
    <3> QED BY <2>3, <3>1, LapsesOnly DEF Tick
  <2>4. CASE \E c \in Connections, t \in Tokens : Upgrade(c, t)
    BY <2>4, UpgradeOpens
  <2>5. CASE \E t \in Tokens : UpgradeMalformed(t)
    BY <2>5, LapsesOnly DEF UpgradeMalformed, TakeSession, Expired
  <2>6. CASE \E c \in Connections : SocketEvent(c)
    BY <2>6, SocketEventMoves
  <2>7. CASE UNCHANGED vars
    BY <2>7, LapsesOnly DEF vars, Expired
  <2> QED BY <2>1, <2>2, <2>3, <2>4, <2>5, <2>6, <2>7 DEF Next
<1> QED
  BY <1>1, <1>2, SpecTInv, PTL DEF Spec, ImplementsConsoleTickets,
                                   TicketBooth!Spec

=============================================================================
