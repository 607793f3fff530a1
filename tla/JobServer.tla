------------------------------ MODULE JobServer ------------------------------
(***************************************************************************)
(* How a job server decides to shut down on inactivity                     *)
(* (internal/jobserver/server.go).  NATS reports connections and           *)
(* disconnections of clients on two subjects.  nats.go runs the handlers   *)
(* of each subscription in a goroutine of its own: events of one kind are  *)
(* handled in order, those of different kinds are not.  All handlers and   *)
(* the timer's callback take clientsMu, so that each is a single step; a   *)
(* callback that fired may be waiting for the lock when its timer is       *)
(* stopped, and time.Timer.Stop does not recall it.                        *)
(***************************************************************************)
EXTENDS Naturals, Sequences, FiniteSets

CONSTANT Clients    \* connections, each of which opens and closes once

ASSUME ClientsAssumption == IsFiniteSet(Clients)

VARIABLES
    conn,           \* conn[c]: "new", "connected" or "gone"
    connects,       \* CONNECT events not handled yet
    disconnects,    \* DISCONNECT events not handled yet
    clients,        \* Server.clients
    timer,          \* Server.shutdownTimer, 0 for nil
    started,        \* timers started so far: they are numbered from 1
    armed,          \* timers that run
    fired,          \* timers whose callback is waiting for clientsMu
    serving         \* the server was not shut down

connVars == <<conn, connects, disconnects>>
timerVars == <<timer, started, armed, fired>>
jvars == <<connVars, clients, timerVars, serving>>

\* New starts the timer: nobody knows the URL of the server yet.
JInit ==
    /\ conn = [c \in Clients |-> "new"]
    /\ connects = << >> /\ disconnects = << >>
    /\ clients = {}
    /\ timer = 1 /\ started = 1
    /\ armed = {1} /\ fired = {}
    /\ serving = TRUE

-----------------------------------------------------------------------------
Connect(c) ==
    /\ serving /\ conn[c] = "new"
    /\ conn' = [conn EXCEPT ![c] = "connected"]
    /\ connects' = Append(connects, c)
    /\ UNCHANGED <<disconnects, clients, timerVars, serving>>

\* The client closes its connection, or its process is gone.
Disconnect(c) ==
    /\ serving /\ conn[c] = "connected"
    /\ conn' = [conn EXCEPT ![c] = "gone"]
    /\ disconnects' = Append(disconnects, c)
    /\ UNCHANGED <<connects, clients, timerVars, serving>>

\* Mutant: the timer is stopped but not forgotten.
ConnectKeepingTimer ==
    /\ serving /\ connects # << >>
    /\ connects' = Tail(connects)
    /\ clients' = clients \cup {Head(connects)}
    /\ armed' = armed \ {timer}
    /\ UNCHANGED <<conn, disconnects, timer, started, fired, serving>>

handleClientConnect ==
    /\ serving /\ connects # << >>
    /\ connects' = Tail(connects)
    /\ clients' = clients \cup {Head(connects)}
    /\ timer' = 0
    /\ armed' = armed \ {timer}
    /\ UNCHANGED <<conn, disconnects, started, fired, serving>>

startShutdownTimer ==
    /\ started' = started + 1
    /\ timer' = started'
    /\ armed' = armed \cup {started'}
    /\ UNCHANGED fired

\* Mutant: the last client's leaving does not start a timer.
DisconnectWithoutTimer ==
    /\ serving /\ disconnects # << >>
    /\ disconnects' = Tail(disconnects)
    /\ clients' = clients \ {Head(disconnects)}
    /\ UNCHANGED <<conn, connects, timerVars, serving>>

handleClientDisconnect ==
    /\ serving /\ disconnects # << >>
    /\ disconnects' = Tail(disconnects)
    /\ clients' = clients \ {Head(disconnects)}
    /\ IF clients' = {} /\ timer = 0 THEN startShutdownTimer
       ELSE UNCHANGED timerVars
    /\ UNCHANGED <<conn, connects, serving>>

\* The timeout passed: the callback runs in a goroutine of its own.
Fire(t) ==
    /\ serving /\ t \in armed
    /\ armed' = armed \ {t}
    /\ fired' = fired \cup {t}
    /\ UNCHANGED <<connVars, clients, timer, started, serving>>

\* Mutant: the callback does not look at the clients.
CallbackUnchecked(t) ==
    /\ serving /\ t \in fired
    /\ fired' = fired \ {t}
    /\ serving' = FALSE
    /\ UNCHANGED <<connVars, clients, timer, started, armed>>

Callback(t) ==
    /\ serving /\ t \in fired
    /\ fired' = fired \ {t}
    /\ serving' = (clients # {})
    /\ UNCHANGED <<connVars, clients, timer, started, armed>>

JNext ==
    \/ \E c \in Clients : Connect(c) \/ Disconnect(c)
    \/ handleClientConnect
    \/ handleClientDisconnect
    \/ \E t \in 1..started : Fire(t) \/ Callback(t)

JSpec == JInit /\ [][JNext]_jvars

\* Events are delivered, time passes and callbacks get the lock; clients may
\* stay, or never come.
JFairSpec ==
    /\ JSpec
    /\ WF_jvars(handleClientConnect)
    /\ WF_jvars(handleClientDisconnect)
    /\ \A t \in 1..(Cardinality(Clients) + 1) :
          WF_jvars(Fire(t)) /\ WF_jvars(Callback(t))

-----------------------------------------------------------------------------
\* The clients of which an event is queued in q.
Queued(q) == {q[i] : i \in DOMAIN q}

JTypeOK ==
    /\ conn \in [Clients -> {"new", "connected", "gone"}]
    /\ connects \in Seq(Clients)
    /\ disconnects \in Seq(Clients)
    /\ clients \subseteq Clients
    /\ started \in Nat \ {0}
    /\ timer \in 0..started
    /\ armed \subseteq 1..started
    /\ fired \subseteq 1..started
    /\ serving \in BOOLEAN

\* A server without known clients always has a timer that will end it: it is
\* running, or its callback is about to look at the clients.  A server with
\* known clients has no timer at all, so the next idle period starts one.  No timer
\* is forgotten while it runs: only the current one does.
IdleIsTimed ==
    /\ serving => IF clients = {} THEN timer # 0 /\ timer \in armed \cup fired
                  ELSE timer = 0
    /\ armed \subseteq {timer}

\* A client that is connected is known, unless its CONNECT event is queued; and
\* events are queued for what did happen.
ConnectedAreKnown ==
    /\ \A c \in Clients :
          conn[c] = "connected" => c \in Queued(connects) \cup clients
    /\ \A c \in Queued(disconnects) : conn[c] = "gone"

\* The server never shuts down under a client it was told about, whichever
\* callback gets the lock: a client that is still connected when it does is one
\* of the queue of CONNECT events.
ClientsKeepServerUp ==
    [][~serving' => \A c \in Clients :
          conn[c] = "connected" => c \in Queued(connects)]_serving

\* What the proofs are by induction on.
JInv ==
    /\ JTypeOK
    /\ IdleIsTimed
    /\ ConnectedAreKnown

\* The last known client leaving shuts the server down, unless another comes.
IdleServerStops ==
    (clients = {}) ~> (~serving \/ clients # {})

\* client/env.go: the server shuts "itself down once it no longer has any active
\* client for a period of time".
InactiveServerStops ==
    (\A c \in Clients : conn[c] = "gone") ~> ~serving
=============================================================================
