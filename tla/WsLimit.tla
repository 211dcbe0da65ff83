------------------------------- MODULE WsLimit -------------------------------
(***************************************************************************)
(* The limits of WebSocket connections (middleware/ws_rate_limit.rs): the  *)
(* connections of an address, the subscriptions of a connection and its    *)
(* messages in a window.  Each method is one step, as it holds the write   *)
(* lock of its map; connection_closed takes the two locks one after the    *)
(* other.  The callers are the tests of the module: connections are        *)
(* admitted, registered, used and closed.                                  *)
(***************************************************************************)
EXTENDS Integers, FiniteSets

CONSTANTS Connections, IpOf, MaxConnectionsPerIp, MaxSubscriptions, MaxMessages,
          Window, MaxIdle, MaxForgets, None

ConnectionState == [subs : Nat, messages : Nat, started : Nat, idle : Nat]

WsLimitsAssumption ==
    /\ IsFiniteSet(Connections) /\ None \notin ConnectionState
    /\ MaxConnectionsPerIp \in Nat /\ MaxSubscriptions \in Nat /\ MaxMessages \in Nat
    /\ Window \in Nat \ {0} /\ MaxIdle \in Nat

VARIABLES
    phase,       \* of a connection: "closed", "admitted", "open" or "closing"
    state,       \* ConnectionState: [subs, messages, started, idle] (ages), or None
    connected,   \* connection_count of each address
    subs,        \* the subscriptions the client really holds
    forgets      \* clean-ups that removed the state of an open connection

vars == <<phase, state, connected, subs, forgets>>

Ips == {IpOf[c] : c \in Connections}
New == [subs |-> 0, messages |-> 0, started |-> 0, idle |-> 0]
StateOf(c) == IF state[c] = None THEN New ELSE state[c]

Init ==
    /\ phase = [c \in Connections |-> "closed"]
    /\ state = [c \in Connections |-> None]
    /\ connected = [ip \in Ips |-> 0]
    /\ subs = [c \in Connections |-> 0]
    /\ forgets = [c \in Connections |-> 0]

AllowConnection(c) ==
    /\ phase[c] = "closed" /\ connected[IpOf[c]] < MaxConnectionsPerIp
    /\ connected' = [connected EXCEPT ![IpOf[c]] = @ + 1]
    /\ phase' = [phase EXCEPT ![c] = "admitted"]
    /\ UNCHANGED <<state, subs, forgets>>

RegisterConnection(c) ==
    /\ phase[c] = "admitted"
    /\ state' = [state EXCEPT ![c] = New]
    /\ phase' = [phase EXCEPT ![c] = "open"]
    /\ UNCHANGED <<connected, subs, forgets>>

AllowSubscription(c) ==
    /\ phase[c] = "open" /\ StateOf(c).subs < MaxSubscriptions
    /\ state' = [state EXCEPT ![c] = [StateOf(c) EXCEPT !.subs = @ + 1, !.idle = 0]]
    /\ subs' = [subs EXCEPT ![c] = @ + 1]
    /\ UNCHANGED <<phase, connected, forgets>>

\* A refusal still leaves a state for a connection that had none.
RefuseSubscription(c) ==
    /\ phase[c] = "open" /\ StateOf(c).subs >= MaxSubscriptions
    /\ state' = [state EXCEPT ![c] = StateOf(c)]
    /\ UNCHANGED <<phase, connected, subs, forgets>>

SubscriptionEnded(c) ==
    /\ phase[c] = "open" /\ subs[c] > 0
    /\ subs' = [subs EXCEPT ![c] = @ - 1]
    /\ state' = IF state[c] = None \/ state[c].subs = 0 THEN state
                ELSE [state EXCEPT ![c].subs = @ - 1]
    /\ UNCHANGED <<phase, connected, forgets>>

\* maybe_reset_window
Opened(s) == IF s.started >= Window THEN [s EXCEPT !.messages = 0, !.started = 0] ELSE s

AllowMessage(c) ==
    /\ phase[c] = "open"
    /\ LET s == Opened(StateOf(c))
       IN state' = [state EXCEPT ![c] =
              IF s.messages >= MaxMessages THEN s
              ELSE [s EXCEPT !.messages = @ + 1, !.idle = 0]]
    /\ UNCHANGED <<phase, connected, subs, forgets>>

\* connection_closed, its first lock.
ConnectionClosed(c) ==
    /\ phase[c] \in {"admitted", "open"}
    /\ state' = [state EXCEPT ![c] = None]
    /\ subs' = [subs EXCEPT ![c] = 0]
    /\ forgets' = [forgets EXCEPT ![c] = 0]
    /\ phase' = [phase EXCEPT ![c] = "closing"]
    /\ UNCHANGED connected

\* connection_closed, its second lock.
Release(c) ==
    /\ phase[c] = "closing"
    /\ connected' = [connected EXCEPT ![IpOf[c]] = IF @ = 0 THEN 0 ELSE @ - 1]
    /\ phase' = [phase EXCEPT ![c] = "closed"]
    /\ UNCHANGED <<state, subs, forgets>>

\* The state of an idle connection is removed, its subscriptions go on.
CleanupStale ==
    LET stale == {c \in Connections : state[c] # None /\ state[c].idle > MaxIdle}
    IN /\ stale # {}
       /\ \A c \in stale : forgets[c] < MaxForgets
       /\ state' = [c \in Connections |-> IF c \in stale THEN None ELSE state[c]]
       /\ forgets' = [c \in Connections |-> forgets[c] + IF c \in stale THEN 1 ELSE 0]
       /\ UNCHANGED <<phase, connected, subs>>

Tick ==
    /\ \E c \in Connections : state[c] # None
    /\ state' = [c \in Connections |->
           IF state[c] = None THEN None
           ELSE [state[c] EXCEPT !.started = IF @ < Window THEN @ + 1 ELSE @,
                                 !.idle = IF @ <= MaxIdle THEN @ + 1 ELSE @]]
    /\ UNCHANGED <<phase, connected, subs, forgets>>

Next ==
    \/ \E c \in Connections :
          \/ AllowConnection(c) \/ RegisterConnection(c)
          \/ AllowSubscription(c) \/ RefuseSubscription(c) \/ SubscriptionEnded(c)
          \/ AllowMessage(c) \/ ConnectionClosed(c) \/ Release(c)
    \/ CleanupStale
    \/ Tick

Spec == Init /\ [][Next]_vars

-----------------------------------------------------------------------------
\* The count of an address is that of its connections, closing ones included,
\* through any interleaving of admissions, clean-ups and closures.
ConnectionsCounted ==
    \A ip \in Ips :
        /\ connected[ip] = Cardinality({c \in Connections :
                                  IpOf[c] = ip /\ phase[c] # "closed"})
        /\ connected[ip] <= MaxConnectionsPerIp

\* A connection holds no more subscriptions than its limit, and as many again
\* for each time that a clean-up forgot it (cleanup_stale); the messages of a
\* window stay within theirs.
SubscriptionsBounded ==
    \A c \in Connections :
        /\ subs[c] <= MaxSubscriptions * (1 + forgets[c])
        /\ StateOf(c).subs <= subs[c]
        /\ StateOf(c).messages <= MaxMessages
=============================================================================
