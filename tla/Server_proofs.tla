---------------------------- MODULE Server_proofs ----------------------------
(***************************************************************************)
(* Theorems about the server process: JobServer, for any set of clients and *)
(* any number of events in the queues; UrlFile, for any number of processes; *)
(* and Resolve, for any finite set of packages, any worlds and any depth of  *)
(* nested builds.  A server never shuts down under a client it knows of, no  *)
(* two live servers come from one URL file, the graph of the job server      *)
(* holds what is in service, cycles are not reported where there are none,   *)
(* and no package is compiled while something that weaving made it import    *)
(* is missing.                                                              *)
(***************************************************************************)
EXTENDS JobServer, UrlFile, Resolve, SequenceTheorems, TLAPS

-----------------------------------------------------------------------------
\* JobServer

\* An event put at the end of a queue is queued.
LEMMA QueuedAppend ==
    ASSUME NEW q \in Seq(Clients), NEW c \in Clients
    PROVE  /\ Append(q, c) \in Seq(Clients)
           /\ Queued(Append(q, c)) = Queued(q) \cup {c}
<1>1. Append(q, c) \in Seq(Clients)
  OBVIOUS
<1>2. Queued(q) \cup {c} \subseteq Queued(Append(q, c))
  <2>1. /\ Len(q) \in Nat
        /\ DOMAIN q = 1..Len(q)
        /\ DOMAIN Append(q, c) = 1..(Len(q) + 1)
        /\ Append(q, c)[Len(q) + 1] = c
        /\ \A i \in 1..Len(q) : Append(q, c)[i] = q[i]
    OBVIOUS
  <2>2. \A i \in 1..Len(q) : i \in 1..(Len(q) + 1)
    BY <2>1
  <2>3. Len(q) + 1 \in 1..(Len(q) + 1)
    BY <2>1
  <2>. QED  BY <2>1, <2>2, <2>3 DEF Queued
<1>3. Queued(Append(q, c)) \subseteq Queued(q) \cup {c}
  <2>1. SUFFICES ASSUME NEW i \in 1..(Len(q) + 1)
                 PROVE  Append(q, c)[i] \in Queued(q) \cup {c}
    BY DEF Queued
  <2>2. CASE i = Len(q) + 1
    BY <2>2
  <2>3. CASE i # Len(q) + 1
    <3>1. i \in 1..Len(q)
      BY <2>3
    <3>. QED  BY <3>1 DEF Queued
  <2>. QED  BY <2>2, <2>3
<1>. QED  BY <1>1, <1>2, <1>3

\* Taking the first event of a queue leaves the others.
LEMMA QueuedTail ==
    ASSUME NEW q \in Seq(Clients), q # << >>
    PROVE  /\ Head(q) \in Clients
           /\ Head(q) \in Queued(q)
           /\ Tail(q) \in Seq(Clients)
           /\ Queued(q) \subseteq Queued(Tail(q)) \cup {Head(q)}
           /\ Queued(Tail(q)) \subseteq Queued(q)
<1>1. /\ Head(q) \in Clients
      /\ Tail(q) \in Seq(Clients)
      /\ Len(q) \in Nat \ {0}
      /\ Head(q) = q[1]
      /\ DOMAIN q = 1..Len(q)
      /\ DOMAIN Tail(q) = 1..(Len(q) - 1)
      /\ \A i \in 1..(Len(q) - 1) : Tail(q)[i] = q[i + 1]
  OBVIOUS
<1>2. Head(q) \in Queued(q)
  BY <1>1 DEF Queued
<1>3. ASSUME NEW i \in 1..Len(q)
      PROVE  q[i] \in Queued(Tail(q)) \cup {Head(q)}
  <2>1. CASE i = 1
    BY <1>1, <2>1
  <2>2. CASE i # 1
    <3>1. i - 1 \in 1..(Len(q) - 1) /\ (i - 1) + 1 = i
      BY <1>1, <2>2
    <3>2. Tail(q)[i - 1] = q[i]
      BY <1>1, <3>1
    <3>. QED  BY <1>1, <3>1, <3>2 DEF Queued
  <2>. QED  BY <2>1, <2>2
<1>4. ASSUME NEW i \in 1..(Len(q) - 1)
      PROVE  Tail(q)[i] \in Queued(q)
  <2>1. i + 1 \in 1..Len(q)
    BY <1>1
  <2>. QED  BY <1>1, <2>1 DEF Queued
<1>. QED  BY <1>1, <1>2, <1>3, <1>4 DEF Queued

-----------------------------------------------------------------------------
LEMMA JobInitInv == JInit => JInv
<1>. SUFFICES ASSUME JInit PROVE JInv
  OBVIOUS
<1>1. JTypeOK
  BY DEF JInit, JTypeOK
<1>2. IdleIsTimed
  BY DEF JInit, IdleIsTimed
<1>3. Queued(disconnects) = {}
  BY DEF JInit, Queued
<1>4. ConnectedAreKnown
  BY <1>3 DEF JInit, ConnectedAreKnown
<1>. QED  BY <1>1, <1>2, <1>4 DEF JInv

LEMMA ConnectStep ==
    ASSUME JInv, NEW c \in Clients, Connect(c)
    PROVE  JInv'
<1>. USE DEF JInv, Connect, connVars, timerVars
<1>1. connects' \in Seq(Clients) /\ Queued(connects') = Queued(connects) \cup {c}
  BY QueuedAppend DEF JTypeOK
<1>2. JTypeOK'
  BY <1>1 DEF JTypeOK
<1>3. IdleIsTimed'
  BY DEF IdleIsTimed
<1>4. Queued(disconnects)' = Queued(disconnects)
  BY DEF Queued
<1>5. conn[c] # "gone"
  OBVIOUS
<1>6. ConnectedAreKnown'
  BY <1>1, <1>4, <1>5 DEF ConnectedAreKnown, JTypeOK
<1>. QED  BY <1>2, <1>3, <1>6

LEMMA DisconnectStep ==
    ASSUME JInv, NEW c \in Clients, Disconnect(c)
    PROVE  JInv'
<1>. USE DEF JInv, Disconnect, connVars, timerVars
<1>1. /\ disconnects' \in Seq(Clients)
      /\ Queued(disconnects') = Queued(disconnects) \cup {c}
  BY QueuedAppend DEF JTypeOK
<1>2. JTypeOK'
  BY <1>1 DEF JTypeOK
<1>3. IdleIsTimed'
  BY DEF IdleIsTimed
<1>4. Queued(connects)' = Queued(connects)
  BY DEF Queued
<1>5. ConnectedAreKnown'
  BY <1>1, <1>4 DEF ConnectedAreKnown, JTypeOK
<1>. QED  BY <1>2, <1>3, <1>5

\* The timer is stopped and forgotten: no other one runs.
LEMMA HandleConnectStep ==
    ASSUME JInv, handleClientConnect
    PROVE  JInv'
<1>. USE DEF JInv, handleClientConnect, connVars, timerVars
<1>1. /\ connects' \in Seq(Clients)
      /\ Head(connects) \in Clients
      /\ Queued(connects) \subseteq Queued(connects') \cup {Head(connects)}
  BY QueuedTail DEF JTypeOK
<1>2. JTypeOK'
  BY <1>1 DEF JTypeOK
<1>3. IdleIsTimed'
  BY <1>1 DEF IdleIsTimed
<1>4. Queued(disconnects)' = Queued(disconnects)
  BY DEF Queued
<1>5. ConnectedAreKnown'
  BY <1>1, <1>4 DEF ConnectedAreKnown
<1>. QED  BY <1>2, <1>3, <1>5

\* Whoever is removed from the clients is gone; the last one starts a timer.
LEMMA HandleDisconnectStep ==
    ASSUME JInv, handleClientDisconnect
    PROVE  JInv'
<1>. USE DEF JInv, handleClientDisconnect, connVars, timerVars
<1>1. /\ disconnects' \in Seq(Clients)
      /\ Head(disconnects) \in Queued(disconnects)
      /\ Queued(disconnects') \subseteq Queued(disconnects)
  BY QueuedTail DEF JTypeOK
<1>2. Queued(connects)' = Queued(connects)
  BY DEF Queued
<1>3. ConnectedAreKnown'
  BY <1>1, <1>2 DEF ConnectedAreKnown
<1>4. CASE clients' = {} /\ timer = 0
  <2>1. armed = {}
    BY <1>4 DEF IdleIsTimed, JTypeOK
  <2>2. /\ started' \in Nat \ {0} /\ timer' = started' /\ armed' = {started'}
        /\ started' = started + 1 /\ fired' = fired
    BY <1>4, <2>1 DEF startShutdownTimer, JTypeOK
  <2>3. fired' \subseteq 1..started'
    BY <2>2 DEF JTypeOK
  <2>4. JTypeOK'
    BY <1>1, <2>2, <2>3 DEF JTypeOK
  <2>5. IdleIsTimed'
    BY <1>4, <2>2 DEF IdleIsTimed
  <2>. QED  BY <1>3, <2>4, <2>5
<1>5. CASE ~(clients' = {} /\ timer = 0)
  <2>1. JTypeOK'
    BY <1>1, <1>5 DEF JTypeOK
  <2>2. IdleIsTimed'
    BY <1>5 DEF IdleIsTimed
  <2>. QED  BY <1>3, <2>1, <2>2
<1>. QED  BY <1>4, <1>5

LEMMA FireStep ==
    ASSUME JInv, NEW t \in 1..started, Fire(t)
    PROVE  JInv'
<1>. USE DEF JInv, Fire, connVars
<1>1. JTypeOK'
  BY DEF JTypeOK
<1>2. IdleIsTimed'
  BY DEF IdleIsTimed
<1>3. Queued(connects)' = Queued(connects) /\ Queued(disconnects)' = Queued(disconnects)
  BY DEF Queued
<1>4. ConnectedAreKnown'
  BY <1>3 DEF ConnectedAreKnown
<1>. QED  BY <1>1, <1>2, <1>4

\* A callback ends the server, or there are clients and thus no timer.
LEMMA CallbackStep ==
    ASSUME JInv, NEW t \in 1..started, Callback(t)
    PROVE  JInv'
<1>. USE DEF JInv, Callback, connVars
<1>1. JTypeOK'
  BY DEF JTypeOK
<1>2. IdleIsTimed'
  BY DEF IdleIsTimed
<1>3. Queued(connects)' = Queued(connects) /\ Queued(disconnects)' = Queued(disconnects)
  BY DEF Queued
<1>4. ConnectedAreKnown'
  BY <1>3 DEF ConnectedAreKnown
<1>. QED  BY <1>1, <1>2, <1>4

LEMMA JobStutterStep ==
    ASSUME JInv, UNCHANGED jvars
    PROVE  JInv'
<1>. USE DEF JInv, jvars, connVars, timerVars
<1>1. Queued(connects)' = Queued(connects) /\ Queued(disconnects)' = Queued(disconnects)
  BY DEF Queued
<1>. QED
  BY <1>1 DEF JTypeOK, IdleIsTimed, ConnectedAreKnown

LEMMA JobNextInv == JInv /\ [JNext]_jvars => JInv'
<1>. SUFFICES ASSUME JInv, [JNext]_jvars PROVE JInv'
  OBVIOUS
<1>1. ASSUME NEW c \in Clients, Connect(c) PROVE JInv'
  BY <1>1, ConnectStep
<1>2. ASSUME NEW c \in Clients, Disconnect(c) PROVE JInv'
  BY <1>2, DisconnectStep
<1>3. ASSUME NEW t \in 1..started, Fire(t) PROVE JInv'
  BY <1>3, FireStep
<1>4. ASSUME NEW t \in 1..started, Callback(t) PROVE JInv'
  BY <1>4, CallbackStep
<1>. QED
  BY <1>1, <1>2, <1>3, <1>4, HandleConnectStep, HandleDisconnectStep,
     JobStutterStep DEF JNext

\* The inductive invariant holds in every reachable state, whatever the number
\* of clients and in whatever order their events and the timers are handled.
THEOREM JobServerInvariance == JSpec => []JInv
<1>. QED  BY JobInitInv, JobNextInv, PTL DEF JSpec

\* The variables of the server keep their types.
THEOREM JobServerTypes == JSpec => []JTypeOK
<1>1. JInv => JTypeOK
  BY DEF JInv
<1>. QED  BY <1>1, JobServerInvariance, PTL

\* handleClientConnect and handleClientDisconnect never leave the server
\* without a timer while it knows no client, nor with one while it does; and
\* startShutdownTimer is only called when no timer runs.
THEOREM IdleServerIsTimed == JSpec => []IdleIsTimed
<1>1. JInv => IdleIsTimed
  BY DEF JInv
<1>. QED  BY <1>1, JobServerInvariance, PTL

\* The shutdown by a timer's callback, stale or not, never hits a client whose
\* CONNECT event was handled.
THEOREM KnownClientsAreSafe == JSpec => ClientsKeepServerUp
<1>1. JInv /\ [JNext]_jvars =>
        [~serving' => \A c \in Clients :
            conn[c] = "connected" => c \in Queued(connects)]_serving
  <2>. SUFFICES ASSUME JInv, JNext, ~serving', serving' # serving, NEW c \in Clients,
                       conn[c] = "connected"
                PROVE  c \in Queued(connects)
    BY DEF jvars
  <2>1. clients = {}
    BY DEF JNext, Connect, Disconnect, handleClientConnect,
           handleClientDisconnect, Fire, Callback
  <2>. QED  BY <2>1 DEF JInv, ConnectedAreKnown
<1>. QED  BY <1>1, JobServerInvariance, PTL DEF JSpec, ClientsKeepServerUp

-----------------------------------------------------------------------------
\* UrlFile

LEMMA NoInodeIsNone == NoInode \notin Inodes
  BY DEF NoInode, Inodes

LEMMA FileInitInv == UInit => UInv
  BY NoInodeIsNone, UrlFileAssumption
     DEF UInit, UInv, UTypeOK, LockInv, UpInv, ContentInv, StartInv, Owning,
         Gone, ServerStages, ClientStages

-----------------------------------------------------------------------------
\* The steps of server processes.

\* Opening the file changes no inode that is in use.
LEMMA OpenFileKeeps ==
  ASSUME UTypeOK, NEW i \in Inodes, OpenFile(i)
  PROVE  /\ path' \in Inodes \cup {NoInode}
         /\ content' \in [Inodes -> Procs \cup {Blank}]
         /\ \A s \in Procs : file[s] # NoInode =>
               content'[file[s]] = content[file[s]]
         /\ \A j \in Inodes : content'[j] \in {content[j], Blank}
<1>1. CASE path # NoInode
  BY <1>1, NoInodeIsNone DEF UTypeOK, OpenFile, fileVars
<1>2. CASE path = NoInode
  <2>1. content' = [content EXCEPT ![i] = Blank] /\ path' = i
    BY <1>2 DEF OpenFile
  <2>2. \A s \in Procs : file[s] # i
    BY <1>2 DEF OpenFile, Used
  <2> QED
    BY <2>1, <2>2, NoInodeIsNone DEF UTypeOK
<1> QED BY <1>1, <1>2

LEMMA OpenStep ==
  ASSUME NEW s \in Procs, NEW i \in Inodes, UInv, Open(s, i)
  PROVE  UInv'
<1> USE NoInodeIsNone, UrlFileAssumption
    DEF SStep, Hold, clientVars, ServerStages, ClientStages, Gone, Owning
<1> USE OpenFileKeeps DEF UInv, Open
<1>1. UTypeOK'
  BY DEF UTypeOK
<1>2. LockInv'
  BY DEF UTypeOK, LockInv
<1>3. UpInv'
  BY DEF UTypeOK, UpInv
<1>4. ContentInv'
  BY DEF UTypeOK, ContentInv
<1>5. StartInv'
  BY DEF UTypeOK, LockInv, UpInv, StartInv
<1> QED BY <1>1, <1>2, <1>3, <1>4, <1>5 DEF UInv

\* The read lock is shared: it is granted while nobody has the other one.
LEMMA RLockStep ==
  ASSUME NEW s \in Procs, UInv, RLock(s)
  PROVE  UInv'
<1> USE NoInodeIsNone, UrlFileAssumption
    DEF SStep, Hold, fileVars, serverVars, clientVars, ServerStages,
        ClientStages, Gone, Owning
<1> USE DEF UInv, RLock, ReadLockable
<1>1. UTypeOK'
  BY DEF UTypeOK
<1>2. LockInv'
  BY DEF UTypeOK, LockInv, UpInv
<1>3. UpInv'
  BY DEF UTypeOK, LockInv, UpInv, StartInv
<1>4. ContentInv'
  BY DEF UTypeOK, LockInv, UpInv, ContentInv
<1>5. StartInv'
  BY DEF UTypeOK, LockInv, UpInv, ContentInv, StartInv
<1> QED BY <1>1, <1>2, <1>3, <1>4, <1>5 DEF UInv

LEMMA AlreadyListeningStep ==
  ASSUME NEW s \in Procs, UInv, AlreadyListening(s)
  PROVE  UInv'
<1> USE NoInodeIsNone, UrlFileAssumption
    DEF SStep, Hold, fileVars, serverVars, clientVars, ServerStages,
        ClientStages, Gone, Owning
<1> USE DEF UInv, AlreadyListening, End
<1>1. UTypeOK'
  BY DEF UTypeOK
<1>2. LockInv'
  BY DEF UTypeOK, LockInv, UpInv
<1>3. UpInv'
  BY DEF UTypeOK, LockInv, UpInv, StartInv
<1>4. ContentInv'
  BY DEF UTypeOK, LockInv, UpInv, ContentInv
<1>5. StartInv'
  BY DEF UTypeOK, LockInv, UpInv, ContentInv, StartInv
<1> QED BY <1>1, <1>2, <1>3, <1>4, <1>5 DEF UInv

LEMMA UpgradeStep ==
  ASSUME NEW s \in Procs, UInv, Upgrade(s)
  PROVE  UInv'
<1> USE NoInodeIsNone, UrlFileAssumption
    DEF SStep, Hold, fileVars, serverVars, clientVars, ServerStages,
        ClientStages, Gone, Owning
<1> USE DEF UInv, Upgrade, Listening
<1>1. UTypeOK'
  BY DEF UTypeOK
<1>2. LockInv'
  BY DEF UTypeOK, LockInv, UpInv
<1>3. UpInv'
  BY DEF UTypeOK, LockInv, UpInv, StartInv
<1>4. ContentInv'
  BY DEF UTypeOK, LockInv, UpInv, ContentInv
<1>5. StartInv'
  BY DEF UTypeOK, LockInv, UpInv, ContentInv, StartInv
<1> QED BY <1>1, <1>2, <1>3, <1>4, <1>5 DEF UInv

\* The exclusive lock is granted when nobody has any.
LEMMA LockStep ==
  ASSUME NEW s \in Procs, UInv, Lock(s)
  PROVE  UInv'
<1> USE NoInodeIsNone, UrlFileAssumption
    DEF SStep, Hold, fileVars, serverVars, clientVars, ServerStages,
        ClientStages, Gone, Owning
<1> USE DEF UInv, Lock, WriteLockable
<1>1. UTypeOK'
  BY DEF UTypeOK
<1>2. LockInv'
  BY DEF UTypeOK, LockInv, UpInv
<1>3. UpInv'
  BY DEF UTypeOK, LockInv, UpInv, StartInv
<1>4. ContentInv'
  BY DEF UTypeOK, LockInv, UpInv, ContentInv
<1>5. StartInv'
  BY DEF UTypeOK, LockInv, UpInv, ContentInv, StartInv
<1> QED BY <1>1, <1>2, <1>3, <1>4, <1>5 DEF UInv

LEMMA GiveUpStep ==
  ASSUME NEW s \in Procs, UInv, GiveUp(s)
  PROVE  UInv'
<1> USE NoInodeIsNone, UrlFileAssumption
    DEF SStep, Hold, fileVars, serverVars, clientVars, ServerStages,
        ClientStages, Gone, Owning
<1> USE DEF UInv, GiveUp, End
<1>1. UTypeOK'
  BY DEF UTypeOK
<1>2. LockInv'
  BY DEF UTypeOK, LockInv, UpInv
<1>3. UpInv'
  BY DEF UTypeOK, LockInv, UpInv, StartInv
<1>4. ContentInv'
  BY DEF UTypeOK, LockInv, UpInv, ContentInv
<1>5. StartInv'
  BY DEF UTypeOK, LockInv, UpInv, ContentInv, StartInv
<1> QED BY <1>1, <1>2, <1>3, <1>4, <1>5 DEF UInv

\* The second check finds no live server in the file.
LEMMA RecheckStep ==
  ASSUME NEW s \in Procs, UInv, Recheck(s)
  PROVE  UInv'
<1> USE NoInodeIsNone, UrlFileAssumption
    DEF SStep, Hold, fileVars, serverVars, clientVars, ServerStages,
        ClientStages, Gone, Owning
<1> USE DEF UInv, Recheck, Listening
<1>1. UTypeOK'
  BY DEF UTypeOK
<1>2. LockInv'
  BY DEF UTypeOK, LockInv, UpInv
<1>3. UpInv'
  BY DEF UTypeOK, LockInv, UpInv, StartInv
<1>4. ContentInv'
  BY DEF UTypeOK, LockInv, UpInv, ContentInv
<1>5. StartInv'
  BY DEF UTypeOK, LockInv, UpInv, ContentInv, StartInv
<1> QED BY <1>1, <1>2, <1>3, <1>4, <1>5 DEF UInv

\* The server is the only one of its file: LockInv and StartInv.
LEMMA StartServerStep ==
  ASSUME NEW s \in Procs, UInv, StartServer(s)
  PROVE  UInv'
<1> USE NoInodeIsNone, UrlFileAssumption
    DEF SStep, Hold, fileVars, serverVars, clientVars, ServerStages,
        ClientStages, Gone, Owning
<1> USE DEF UInv, StartServer
<1>1. UTypeOK'
  BY DEF UTypeOK
<1>2. LockInv'
  BY DEF UTypeOK, LockInv, UpInv
<1>3. UpInv'
  BY DEF UTypeOK, LockInv, UpInv, StartInv
<1>4. ContentInv'
  BY DEF UTypeOK, LockInv, UpInv, ContentInv
<1>5. StartInv'
  BY DEF UTypeOK, LockInv, UpInv, ContentInv, StartInv
<1> QED BY <1>1, <1>2, <1>3, <1>4, <1>5 DEF UInv

LEMMA StartFailsStep ==
  ASSUME NEW s \in Procs, UInv, StartFails(s)
  PROVE  UInv'
<1> USE NoInodeIsNone, UrlFileAssumption
    DEF SStep, Hold, fileVars, serverVars, clientVars, ServerStages,
        ClientStages, Gone, Owning
<1> USE DEF UInv, StartFails
<1>1. UTypeOK'
  BY DEF UTypeOK
<1>2. LockInv'
  BY DEF UTypeOK, LockInv, UpInv
<1>3. UpInv'
  BY DEF UTypeOK, LockInv, UpInv, StartInv
<1>4. ContentInv'
  BY DEF UTypeOK, LockInv, UpInv, ContentInv
<1>5. StartInv'
  BY DEF UTypeOK, LockInv, UpInv, ContentInv, StartInv
<1> QED BY <1>1, <1>2, <1>3, <1>4, <1>5 DEF UInv

\* The URL replaces that of no live server.
LEMMA PublishStep ==
  ASSUME NEW s \in Procs, UInv, Publish(s)
  PROVE  UInv'
<1> USE NoInodeIsNone, UrlFileAssumption
    DEF SStep, Hold, fileVars, serverVars, clientVars, ServerStages,
        ClientStages, Gone, Owning
<1> USE DEF UInv, Publish
<1>1. UTypeOK'
  BY DEF UTypeOK
<1>2. LockInv'
  BY DEF UTypeOK, LockInv, UpInv
<1>3. UpInv'
  BY DEF UTypeOK, LockInv, UpInv, StartInv
<1>4. ContentInv'
  BY DEF UTypeOK, LockInv, UpInv, ContentInv
<1>5. StartInv'
  BY DEF UTypeOK, LockInv, UpInv, ContentInv, StartInv
<1> QED BY <1>1, <1>2, <1>3, <1>4, <1>5 DEF UInv

LEMMA PublishFailsStep ==
  ASSUME NEW s \in Procs, UInv, PublishFails(s)
  PROVE  UInv'
<1> USE NoInodeIsNone, UrlFileAssumption
    DEF SStep, Hold, fileVars, serverVars, clientVars, ServerStages,
        ClientStages, Gone, Owning
<1> USE DEF UInv, PublishFails
<1>1. UTypeOK'
  BY DEF UTypeOK
<1>2. LockInv'
  BY DEF UTypeOK, LockInv, UpInv
<1>3. UpInv'
  BY DEF UTypeOK, LockInv, UpInv, StartInv
<1>4. ContentInv'
  BY DEF UTypeOK, LockInv, UpInv, ContentInv
<1>5. StartInv'
  BY DEF UTypeOK, LockInv, UpInv, ContentInv, StartInv
<1> QED BY <1>1, <1>2, <1>3, <1>4, <1>5 DEF UInv

LEMMA ReleaseStep ==
  ASSUME NEW s \in Procs, UInv, Release(s)
  PROVE  UInv'
<1> USE NoInodeIsNone, UrlFileAssumption
    DEF SStep, Hold, fileVars, serverVars, clientVars, ServerStages,
        ClientStages, Gone, Owning
<1> USE DEF UInv, Release
<1>1. UTypeOK'
  BY DEF UTypeOK
<1>2. LockInv'
  BY DEF UTypeOK, LockInv, UpInv
<1>3. UpInv'
  BY DEF UTypeOK, LockInv, UpInv, StartInv
<1>4. ContentInv'
  BY DEF UTypeOK, LockInv, UpInv, ContentInv
<1>5. StartInv'
  BY DEF UTypeOK, LockInv, UpInv, ContentInv, StartInv
<1> QED BY <1>1, <1>2, <1>3, <1>4, <1>5 DEF UInv

LEMMA ReleaseFailsStep ==
  ASSUME NEW s \in Procs, UInv, ReleaseFails(s)
  PROVE  UInv'
<1> USE NoInodeIsNone, UrlFileAssumption
    DEF SStep, Hold, fileVars, serverVars, clientVars, ServerStages,
        ClientStages, Gone, Owning
<1> USE DEF UInv, ReleaseFails
<1>1. UTypeOK'
  BY DEF UTypeOK
<1>2. LockInv'
  BY DEF UTypeOK, LockInv, UpInv
<1>3. UpInv'
  BY DEF UTypeOK, LockInv, UpInv, StartInv
<1>4. ContentInv'
  BY DEF UTypeOK, LockInv, UpInv, ContentInv
<1>5. StartInv'
  BY DEF UTypeOK, LockInv, UpInv, ContentInv, StartInv
<1> QED BY <1>1, <1>2, <1>3, <1>4, <1>5 DEF UInv

LEMMA WatchStep ==
  ASSUME NEW s \in Procs, UInv, Watch(s)
  PROVE  UInv'
<1> USE NoInodeIsNone, UrlFileAssumption
    DEF SStep, Hold, fileVars, serverVars, clientVars, ServerStages,
        ClientStages, Gone, Owning
<1> USE DEF UInv, Watch
<1>1. UTypeOK'
  BY DEF UTypeOK
<1>2. LockInv'
  BY DEF UTypeOK, LockInv, UpInv
<1>3. UpInv'
  BY DEF UTypeOK, LockInv, UpInv, StartInv
<1>4. ContentInv'
  BY DEF UTypeOK, LockInv, UpInv, ContentInv
<1>5. StartInv'
  BY DEF UTypeOK, LockInv, UpInv, ContentInv, StartInv
<1> QED BY <1>1, <1>2, <1>3, <1>4, <1>5 DEF UInv

LEMMA ShutdownOnRemoveStep ==
  ASSUME NEW s \in Procs, UInv, ShutdownOnRemove(s)
  PROVE  UInv'
<1> USE NoInodeIsNone, UrlFileAssumption
    DEF SStep, Hold, fileVars, serverVars, clientVars, ServerStages,
        ClientStages, Gone, Owning
<1> USE DEF UInv, ShutdownOnRemove
<1>1. UTypeOK'
  BY DEF UTypeOK
<1>2. LockInv'
  BY DEF UTypeOK, LockInv, UpInv
<1>3. UpInv'
  BY DEF UTypeOK, LockInv, UpInv, StartInv
<1>4. ContentInv'
  BY DEF UTypeOK, LockInv, UpInv, ContentInv
<1>5. StartInv'
  BY DEF UTypeOK, LockInv, UpInv, ContentInv, StartInv
<1> QED BY <1>1, <1>2, <1>3, <1>4, <1>5 DEF UInv

LEMMA ShutdownOnIdleStep ==
  ASSUME NEW s \in Procs, UInv, ShutdownOnIdle(s)
  PROVE  UInv'
<1> USE NoInodeIsNone, UrlFileAssumption
    DEF SStep, Hold, fileVars, serverVars, clientVars, ServerStages,
        ClientStages, Gone, Owning
<1> USE DEF UInv, ShutdownOnIdle
<1>1. UTypeOK'
  BY DEF UTypeOK
<1>2. LockInv'
  BY DEF UTypeOK, LockInv, UpInv
<1>3. UpInv'
  BY DEF UTypeOK, LockInv, UpInv, StartInv
<1>4. ContentInv'
  BY DEF UTypeOK, LockInv, UpInv, ContentInv
<1>5. StartInv'
  BY DEF UTypeOK, LockInv, UpInv, ContentInv, StartInv
<1> QED BY <1>1, <1>2, <1>3, <1>4, <1>5 DEF UInv

LEMMA StoppedStep ==
  ASSUME NEW s \in Procs, UInv, Stopped(s)
  PROVE  UInv'
<1> USE NoInodeIsNone, UrlFileAssumption
    DEF SStep, Hold, fileVars, serverVars, clientVars, ServerStages,
        ClientStages, Gone, Owning
<1> USE DEF UInv, Stopped
<1>1. UTypeOK'
  BY DEF UTypeOK
<1>2. LockInv'
  BY DEF UTypeOK, LockInv, UpInv
<1>3. UpInv'
  BY DEF UTypeOK, LockInv, UpInv, StartInv
<1>4. ContentInv'
  BY DEF UTypeOK, LockInv, UpInv, ContentInv
<1>5. StartInv'
  BY DEF UTypeOK, LockInv, UpInv, ContentInv, StartInv
<1> QED BY <1>1, <1>2, <1>3, <1>4, <1>5 DEF UInv

LEMMA RemoveFileStep ==
  ASSUME NEW s \in Procs, UInv, RemoveFile(s)
  PROVE  UInv'
<1> USE NoInodeIsNone, UrlFileAssumption
    DEF SStep, Hold, fileVars, serverVars, clientVars, ServerStages,
        ClientStages, Gone, Owning
<1> USE DEF UInv, RemoveFile, Remove
<1>1. UTypeOK'
  BY DEF UTypeOK
<1>2. LockInv'
  BY DEF UTypeOK, LockInv, UpInv
<1>3. UpInv'
  BY DEF UTypeOK, LockInv, UpInv, StartInv
<1>4. ContentInv'
  BY DEF UTypeOK, LockInv, UpInv, ContentInv
<1>5. StartInv'
  BY DEF UTypeOK, LockInv, UpInv, ContentInv, StartInv
<1> QED BY <1>1, <1>2, <1>3, <1>4, <1>5 DEF UInv

LEMMA CancelDeleteStep ==
  ASSUME NEW s \in Procs, UInv, CancelDelete(s)
  PROVE  UInv'
<1> USE NoInodeIsNone, UrlFileAssumption
    DEF SStep, Hold, fileVars, serverVars, clientVars, ServerStages,
        ClientStages, Gone, Owning
<1> USE DEF UInv, CancelDelete, End, Remove
<1>1. UTypeOK'
  BY DEF UTypeOK
<1>2. LockInv'
  BY DEF UTypeOK, LockInv, UpInv
<1>3. UpInv'
  BY DEF UTypeOK, LockInv, UpInv, StartInv
<1>4. ContentInv'
  BY DEF UTypeOK, LockInv, UpInv, ContentInv
<1>5. StartInv'
  BY DEF UTypeOK, LockInv, UpInv, ContentInv, StartInv
<1> QED BY <1>1, <1>2, <1>3, <1>4, <1>5 DEF UInv

LEMMA KillStep ==
  ASSUME NEW s \in Procs, UInv, Kill(s)
  PROVE  UInv'
<1> USE NoInodeIsNone, UrlFileAssumption
    DEF SStep, Hold, fileVars, serverVars, clientVars, ServerStages,
        ClientStages, Gone, Owning
<1> USE DEF UInv, Kill, End
<1>1. UTypeOK'
  BY DEF UTypeOK
<1>2. LockInv'
  BY DEF UTypeOK, LockInv, UpInv
<1>3. UpInv'
  BY DEF UTypeOK, LockInv, UpInv, StartInv
<1>4. ContentInv'
  BY DEF UTypeOK, LockInv, UpInv, ContentInv
<1>5. StartInv'
  BY DEF UTypeOK, LockInv, UpInv, ContentInv, StartInv
<1> QED BY <1>1, <1>2, <1>3, <1>4, <1>5 DEF UInv

-----------------------------------------------------------------------------
\* The steps of clients.

\* What the invariant says of servers does not depend on the clients.
LEMMA ServersUntouched ==
  ASSUME UInv, UTypeOK', UNCHANGED <<fileVars, serverVars>>
  PROVE  UInv'
  BY DEF UInv, LockInv, UpInv, ContentInv, StartInv, Gone, Owning, fileVars,
         serverVars

LEMMA SpawnStep ==
  ASSUME NEW c \in Procs, UInv, Spawn(c)
  PROVE  UInv'
<1> USE NoInodeIsNone DEF UInv, Spawn, CStep, SStep, fileVars, Gone, Owning
<1>1. UTypeOK'
  BY DEF UTypeOK, ServerStages, ClientStages
<1>2. LockInv' /\ UpInv'
  BY DEF UTypeOK, LockInv, UpInv
<1>3. ContentInv'
  BY DEF UTypeOK, ContentInv
<1>4. StartInv'
  BY DEF UTypeOK, UpInv, StartInv
<1> QED BY <1>1, <1>2, <1>3, <1>4 DEF UInv

LEMMA OpenURLFileStep ==
  ASSUME NEW c \in Procs, NEW i \in Inodes, UInv, OpenURLFile(c, i)
  PROVE  UInv'
<1> USE OpenFileKeeps DEF UInv, OpenURLFile, CStep, serverVars
<1>1. UTypeOK'
  BY DEF UTypeOK, ClientStages
<1>2. LockInv' /\ UpInv'
  BY DEF UTypeOK, LockInv, UpInv, Gone, Owning
<1>3. ContentInv'
  BY UrlFileAssumption DEF UTypeOK, ContentInv, Gone
<1>4. StartInv'
  BY UrlFileAssumption DEF UTypeOK, LockInv, UpInv, StartInv, Gone, Owning
<1> QED BY <1>1, <1>2, <1>3, <1>4 DEF UInv

LEMMA FailStep ==
  ASSUME NEW c \in Procs, UInv, Fail(c)
  PROVE  UInv'
<1>1. CASE sstage[c] \in {"exited", "crashed", "killed"}
  <2>1. UTypeOK'
    BY <1>1, NoInodeIsNone DEF UInv, UTypeOK, Fail, Close, ClientStages, fileVars
  <2> QED
    BY <1>1, <2>1, ServersUntouched DEF Fail, fileVars, serverVars
<1>2. CASE sstage[c] \notin {"exited", "crashed", "killed"}
  <2> USE NoInodeIsNone, UrlFileAssumption, <1>2
      DEF UInv, Fail, End, Close, Hold, fileVars, Gone, Owning
  <2>1. UTypeOK'
    BY DEF UTypeOK, ServerStages, ClientStages
  <2>2. LockInv'
    BY DEF UTypeOK, LockInv
  <2>3. UpInv'
    BY DEF UTypeOK, UpInv
  <2>4. ContentInv'
    BY DEF UTypeOK, ContentInv
  <2>5. StartInv'
    BY DEF UTypeOK, LockInv, StartInv
  <2> QED BY <2>1, <2>2, <2>3, <2>4, <2>5 DEF UInv
<1> QED BY <1>1, <1>2

\* The other steps of clients.
LEMMA ClientOnlyStep ==
  ASSUME NEW c \in Procs, UInv,
         \/ RLockURLFile(c) \/ BlankURLFile(c) \/ URLFileFails(c)
         \/ ConnectToServer(c) \/ Retry(c) \/ Done(c)
  PROVE  UInv'
<1> USE NoInodeIsNone
    DEF UInv, UTypeOK, CStep, Close, ClientStages, fileVars, serverVars
<1>1. CASE RLockURLFile(c)
  BY <1>1, ServersUntouched DEF RLockURLFile
<1>2. CASE BlankURLFile(c)
  BY <1>2, ServersUntouched DEF BlankURLFile
<1>3. CASE URLFileFails(c)
  BY <1>3, ServersUntouched DEF URLFileFails
<1>4. CASE ConnectToServer(c)
  BY <1>4, ServersUntouched DEF ConnectToServer, Listening
<1>5. CASE Retry(c)
  BY <1>5, ServersUntouched DEF Retry
<1>6. CASE Done(c)
  BY <1>6, ServersUntouched DEF Done
<1> QED BY <1>1, <1>2, <1>3, <1>4, <1>5, <1>6

-----------------------------------------------------------------------------
LEMMA FileStutterStep ==
  ASSUME UInv, UNCHANGED uvars
  PROVE  UInv'
<1>1. UTypeOK'
  BY DEF UInv, UTypeOK, uvars, fileVars, serverVars, clientVars
<1> QED
  BY <1>1, ServersUntouched DEF uvars

LEMMA FileNextInv ==
  ASSUME UInv, [UNext]_uvars
  PROVE  UInv'
<1>1. CASE UNCHANGED uvars
  BY <1>1, FileStutterStep
<1>2. ASSUME NEW p \in Procs, ClientStep(p) \/ URLFileFails(p) \/ Timeout(p)
                           \/ Spawn(p) \/ Done(p)
      PROVE  UInv'
  BY <1>2, SpawnStep, OpenURLFileStep, ClientOnlyStep, FailStep
     DEF ClientStep, Timeout, ConnectFails, SpawnedFailed
<1>3. ASSUME NEW p \in Procs, ServerStep(p) \/ GiveUp(p)
      PROVE  UInv'
  BY <1>3, OpenStep, RLockStep, AlreadyListeningStep, UpgradeStep, LockStep,
     GiveUpStep, RecheckStep, StartServerStep, StartFailsStep, PublishStep,
     PublishFailsStep, ReleaseStep, ReleaseFailsStep, WatchStep,
     ShutdownOnRemoveStep, StoppedStep, RemoveFileStep, CancelDeleteStep
     DEF ServerStep
<1>4. ASSUME NEW p \in Procs, ShutdownOnIdle(p) \/ Kill(p)
      PROVE  UInv'
  BY <1>4, ShutdownOnIdleStep, KillStep
<1> QED
  BY <1>1, <1>2, <1>3, <1>4 DEF UNext

THEOREM UrlFileInvariance == USpec => []UInv
<1>1. UInv /\ [UNext]_uvars => UInv'
  BY FileNextInv
<1> QED
  BY <1>1, FileInitInv, PTL DEF USpec

\* The stages, locks and inodes of the processes that look for a server keep
\* their types (cmd/server.go and client/env.go), for any number of processes.
THEOREM UrlFileTypes == USpec => []UTypeOK
<1>1. UInv => UTypeOK
  BY DEF UInv
<1> QED
  BY <1>1, UrlFileInvariance, PTL

\* startWithURLFile of cmd/server.go: no two live servers come from the same URL
\* file, however many processes start at once, fail or are killed.  Of two such
\* servers one has the file locked, or both have their URL in it.
THEOREM NeverTwoServers == USpec => []OneServerPerFile
<1>1. UInv => OneServerPerFile
  <2> SUFFICES ASSUME UInv, NEW s \in up, NEW t \in up, file[s] = file[t], s # t
               PROVE  FALSE
    BY DEF OneServerPerFile
  <2>1. s \in Procs /\ t \in Procs
    BY DEF UInv, UTypeOK
  <2>2. CASE lock[s] = "exclusive"
    BY <2>1, <2>2 DEF UInv, LockInv, UpInv, StartInv
  <2>3. CASE lock[t] = "exclusive"
    BY <2>1, <2>3 DEF UInv, LockInv, UpInv, StartInv
  <2>4. CASE lock[s] # "exclusive" /\ lock[t] # "exclusive"
    BY <2>4 DEF UInv, UpInv
  <2> QED BY <2>2, <2>3, <2>4
<1> QED
  BY <1>1, UrlFileInvariance, PTL

-----------------------------------------------------------------------------
\* Resolve: walks

LEMMA ReachedGrows ==
  ASSUME NEW base \in SUBSET Packages, NEW next \in SUBSET (Packages \X Packages)
  PROVE  /\ base \subseteq Reached(base, next)
         /\ \A e \in next : e[1] \in Reached(base, next) => e[2] \in Reached(base, next)
BY DEF Reached

LEMMA ReachedIsLeast ==
  ASSUME NEW base, NEW next, NEW S \in SUBSET Packages,
         base \subseteq S, \A e \in next : e[1] \in S => e[2] \in S
  PROVE  Reached(base, next) \subseteq S
BY DEF Reached

\* What p needs, directly or not.
NeedsOf(p) == Reached(NeededBy(p), NeedsPairs)

LEMMA NeedsOfGrows ==
  ASSUME NEW p \in Packages
  PROVE  /\ NeededBy(p) \subseteq NeedsOf(p) /\ NeedsOf(p) \subseteq Packages
         /\ \A q \in NeedsOf(p) : NeededBy(q) \subseteq NeedsOf(p) /\ NeedsOf(q) \subseteq NeedsOf(p)
<1>1. NeededBy(p) \in SUBSET Packages /\ NeedsPairs \in SUBSET (Packages \X Packages)
  BY DEF NeededBy, NeedsPairs
<1>2. NeededBy(p) \subseteq NeedsOf(p) /\ \A e \in NeedsPairs : e[1] \in NeedsOf(p) => e[2] \in NeedsOf(p)
  BY <1>1, ReachedGrows DEF NeedsOf
<1>3. NeedsOf(p) \in SUBSET Packages
  BY DEF NeedsOf, Reached
<1>4. ASSUME NEW q \in NeedsOf(p)
      PROVE  NeededBy(q) \subseteq NeedsOf(p)
  <2> SUFFICES ASSUME NEW r \in NeededBy(q)
               PROVE  r \in NeedsOf(p)
    OBVIOUS
  <2>1. <<q, r>> \in NeedsPairs
    BY <1>3, <1>4 DEF NeededBy, NeedsPairs
  <2> QED BY <1>2, <2>1
<1>5. ASSUME NEW q \in NeedsOf(p)
      PROVE  NeedsOf(q) \subseteq NeedsOf(p)
  <2>1. Reached(NeededBy(q), NeedsPairs) \subseteq NeedsOf(p)
    BY <1>2, <1>3, <1>4, <1>5, ReachedIsLeast
  <2> QED BY <2>1 DEF NeedsOf
<1> QED BY <1>2, <1>3, <1>4, <1>5

LEMMA CircularAlt == Circular = {p \in Packages : p \in NeedsOf(p)}
BY DEF Circular, NeedsOf

\* A package whose injections are circular needs one of which they are as well.
LEMMA CircularNeedsCircular ==
  ASSUME NEW p \in Circular
  PROVE  \E q \in NeededBy(p) : q \in Circular
<1>1. p \in Packages /\ p \in NeedsOf(p)
  BY CircularAlt
<1> DEFINE S == {q \in Packages : \E r \in NeededBy(p) : q = r \/ q \in NeedsOf(r)}
<1>2. NeededBy(p) \subseteq S /\ S \in SUBSET Packages
  BY DEF NeededBy
<1>3. ASSUME NEW e \in NeedsPairs, e[1] \in S
      PROVE  e[2] \in S
  <2>1. PICK r \in NeededBy(p) : e[1] = r \/ e[1] \in NeedsOf(r)
    BY <1>3
  <2>2. e[1] \in Packages /\ e[2] \in Packages /\ e[2] \in NeededBy(e[1]) /\ r \in Packages
    BY DEF NeedsPairs, NeededBy
  <2>3. e[2] \in NeedsOf(r)
    BY <2>1, <2>2, NeedsOfGrows
  <2> QED BY <2>2, <2>3
<1>4. p \in S
  <2> HIDE DEF S
  <2>1. Reached(NeededBy(p), NeedsPairs) \subseteq S
    BY <1>2, <1>3, ReachedIsLeast
  <2> QED BY <1>1, <2>1 DEF NeedsOf
<1>5. PICK r \in NeededBy(p) : p = r \/ p \in NeedsOf(r)
  BY <1>4
<1>6. r \in Packages
  BY DEF NeededBy
<1>7. r \in NeedsOf(r)
  BY <1>1, <1>5, <1>6, NeedsOfGrows
<1> QED BY <1>6, <1>7, CircularAlt

\* A walk up along edges goes from what is needed to what needs it.
LEMMA AboveNeeds ==
  ASSUME edges \subseteq NeedsPairs, NEW from \in Packages, NEW to \in Above(from)
  PROVE  from \in NeedsOf(to)
<1> DEFINE S == {u \in Packages : from \in NeedsOf(u)}
<1>1. ASSUME NEW e \in edges
      PROVE  e[1] \in Packages /\ e[2] \in Packages /\ e[2] \in NeededBy(e[1]) /\ e = <<e[1], e[2]>>
  BY <1>1 DEF NeedsPairs, NeededBy
<1>2. Parents(from) \subseteq S
  <2> SUFFICES ASSUME NEW u \in Packages, from \in Children(u)
               PROVE  from \in NeedsOf(u)
    BY DEF Parents
  <2>1. PICK e \in edges : e[1] = u /\ e[2] = from
    BY DEF Children
  <2> QED BY <1>1, <2>1, NeedsOfGrows
<1>3. ASSUME NEW e \in Upwards(Packages), e[1] \in S
      PROVE  e[2] \in S
  <2>1. PICK f \in edges : e = <<f[2], f[1]>>
    BY DEF Upwards
  <2>2. f[2] \in NeedsOf(f[1]) /\ from \in NeedsOf(f[2])
    BY <1>1, <1>3, <2>1, NeedsOfGrows
  <2>3. from \in NeedsOf(f[1])
    BY <1>1, <2>2, NeedsOfGrows
  <2> QED BY <1>1, <2>1, <2>3
<1>4. S \in SUBSET Packages
  OBVIOUS
<1> HIDE DEF S
<1>5. to \in S
  BY <1>2, <1>3, <1>4, ReachedIsLeast DEF Above
<1> QED BY <1>5 DEF S

-----------------------------------------------------------------------------
\* Types and worlds

LEMMA WorldTypes ==
  ASSUME RTypeOK
  PROVE  /\ world.roots \subseteq Packages
         /\ world.injects \in [Packages -> SUBSET Packages]
         /\ world.closure \in [Packages -> SUBSET Packages]
         /\ world.shared \subseteq Packages
BY ResolveAssumption DEF RTypeOK, WorldType

LEMMA JobTypes ==
  ASSUME RTypeOK, NEW j \in Started
  PROVE  /\ j = <<Build(j), Self(j)>> /\ Build(j) \in Builds /\ Self(j) \in Packages
         /\ job[j].stage \in JobStages /\ job[j].parent \in Packages \cup {NoPackage}
         /\ job[j].want \subseteq Packages /\ job[j].target \in Packages \cup {NoPackage}
         /\ job[j].answer \in {"none", "ok", "failed", "cycle"}
<1>1. j \in Jobs /\ job[j] \in JobState
  BY DEF RTypeOK
<1> QED BY <1>1 DEF Jobs, Build, Self, JobState

\* Builds nest by one pattern at a time.
LEMMA BuildsGrow ==
  ASSUME NEW b \in Builds, NEW x \in Packages
  PROVE  /\ Append(b, x) # b /\ Append(b, x) # << >>
         /\ \A c \in Builds, y \in Packages : Append(b, x) = Append(c, y) => b = c /\ x = y
         /\ Len(b) < MaxDepth => Append(b, x) \in Builds
<1>1. \A c \in Builds : c \in Seq(Packages)
  BY DEF Builds
<1>2. Append(b, x) # b /\ Append(b, x) # << >>
  BY <1>1
<1>3. ASSUME NEW c \in Builds, NEW y \in Packages, Append(b, x) = Append(c, y)
      PROVE  b = c /\ x = y
  <2>1. Len(b) = Len(c)
    BY <1>1, <1>3
  <2>2. x = y
    BY <1>1, <1>3, <2>1
  <2>3. \A n \in 1..Len(b) : b[n] = c[n]
    BY <1>1, <1>3, <2>1
  <2> QED BY <1>1, <2>1, <2>2, <2>3
<1>4. ASSUME Len(b) < MaxDepth
      PROVE  Append(b, x) \in Builds
  <2>1. Len(b) \in Nat /\ Len(b) + 1 \in 0..MaxDepth
    BY <1>1, <1>4, ResolveAssumption
  <2>2. Append(b, x) \in Seq(Packages) /\ Len(Append(b, x)) = Len(b) + 1
    BY <1>1
  <2>3. Append(b, x) \in [1..(Len(b) + 1) -> Packages]
    BY <2>2, LenProperties
  <2> QED BY <2>1, <2>3 DEF Builds
<1> QED BY <1>2, <1>3, <1>4

\* The steps of a job that start no other.
Alone(j) ==
  \/ Claim(j) \/ Reuse(j) \/ Skip(j) \/ Compiled(j)
  \/ \E x \in Packages : Request(j, x) \/ RequestRejected(j, x)
  \/ Hit(j) \/ LoadFails(j) \/ Loaded(j) \/ NotLoaded(j)
  \/ Resolved(j) \/ NotResolved(j)

LEMMA RunSplits ==
  ASSUME NEW j \in Started, RunJob(j)
  PROVE  Alone(j) \/ StartLoad(j)
BY Zenon DEF RunJob, Alone

LEMMA AloneMoves ==
  ASSUME RTypeOK, NEW j \in Started, Alone(j)
  PROVE  /\ Started' = Started /\ world' = world
         /\ \A i \in Started \ {j} : job'[i] = job[i]
         /\ job' \in [Started -> JobState] /\ job'[j].parent = job[j].parent
         /\ job'[j].want \subseteq job[j].want
<1>1. job \in [Started -> JobState] /\ job[j] \in JobState /\ job[j].want \subseteq Packages
  BY JobTypes DEF RTypeOK
<1>2. ASSUME NEW r, job' = [job EXCEPT ![j] = r], world' = world,
             r \in JobState, r.parent = job[j].parent, r.want \subseteq job[j].want
      PROVE  /\ Started' = Started /\ world' = world
             /\ \A i \in Started \ {j} : job'[i] = job[i]
             /\ job' \in [Started -> JobState] /\ job'[j].parent = job[j].parent
             /\ job'[j].want \subseteq job[j].want
  BY <1>1, <1>2 DEF Started
<1>3. CASE Claim(j) \/ Skip(j) \/ Compiled(j) \/ Reuse(j) \/ NotResolved(j)
  <2>1. built[Self(j)] \in {"none", "ok", "failed"}
    BY JobTypes DEF RTypeOK
  <2>2. CASE Reuse(j)
    <3>1. [job[j] EXCEPT !.stage = built[Self(j)]] \in JobState
      BY <1>1, <2>1, <2>2 DEF JobState, JobStages, Reuse
    <3>2. /\ [job[j] EXCEPT !.stage = built[Self(j)]].parent = job[j].parent
          /\ [job[j] EXCEPT !.stage = built[Self(j)]].want = job[j].want
      BY <1>1 DEF JobState
    <3>3. job' = [job EXCEPT ![j].stage = built[Self(j)]] /\ world' = world
      BY <2>2 DEF Reuse, JobStep
    <3> QED BY <1>1, <1>2, <3>1, <3>2, <3>3
  <2>3. CASE Claim(j) \/ Skip(j) \/ Compiled(j) \/ NotResolved(j)
    <3>1. PICK to \in JobStages : job' = [job EXCEPT ![j].stage = to] /\ world' = world
      BY <2>3 DEF Claim, Skip, Compiled, NotResolved, JobStep, JobStages
    <3>2. [job[j] EXCEPT !.stage = to] \in JobState
      BY <1>1 DEF JobState
    <3>3. /\ [job[j] EXCEPT !.stage = to].parent = job[j].parent
          /\ [job[j] EXCEPT !.stage = to].want = job[j].want
      BY <1>1 DEF JobState
    <3> QED BY <1>1, <1>2, <3>1, <3>2, <3>3
  <2> QED BY <1>3, <2>2, <2>3
<1>4. CASE \E x \in Packages : Request(j, x) \/ RequestRejected(j, x)
  <2>1. PICK x \in Packages : Request(j, x) \/ RequestRejected(j, x)
    BY <1>4
  <2>2. CASE Request(j, x)
    <3>1. [job[j] EXCEPT !.stage = "resolve", !.target = x] \in JobState
      BY <1>1 DEF JobState, JobStages
    <3> QED BY <1>1, <1>2, <2>2, <3>1 DEF Request, JobState
  <2>3. CASE RequestRejected(j, x)
    <3>1. [job[j] EXCEPT !.stage = "failed", !.target = x, !.answer = "cycle"] \in JobState
      BY <1>1 DEF JobState, JobStages
    <3> QED BY <1>1, <1>2, <2>3, <3>1 DEF RequestRejected, JobState
  <2> QED BY <2>1, <2>2, <2>3
<1>5. CASE Hit(j) \/ LoadFails(j) \/ Loaded(j) \/ NotLoaded(j)
  <2>1. PICK ans \in {"ok", "failed"} :
            job' = [job EXCEPT ![j].stage = "leave", ![j].answer = ans] /\ world' = world
    BY <1>5 DEF Hit, LoadFails, Loaded, NotLoaded, Leave
  <2>2. [job[j] EXCEPT !.stage = "leave", !.answer = ans] \in JobState
    BY <1>1 DEF JobState, JobStages
  <2>3. /\ [job[j] EXCEPT !.stage = "leave", !.answer = ans].parent = job[j].parent
        /\ [job[j] EXCEPT !.stage = "leave", !.answer = ans].want = job[j].want
    BY <1>1 DEF JobState
  <2> QED BY <1>1, <1>2, <2>1, <2>2, <2>3
<1>6. CASE Resolved(j)
  <2>1. [job[j] EXCEPT !.stage = "weave", !.want = @ \ {job[j].target}] \in JobState
    BY <1>1 DEF JobState, JobStages
  <2> QED BY <1>1, <1>2, <1>6, <2>1 DEF Resolved, JobState
<1> QED BY <1>3, <1>4, <1>5, <1>6 DEF Alone

\* A load starts jobs, of which those that were started before have ended.
LEMMA StartLoadMoves ==
  ASSUME RTypeOK, JobInv, LoadInv, NEW j \in Started, StartLoad(j)
  PROVE  /\ Started' = Started \cup LoadJobs(j) /\ LoadJobs(j) \subseteq Jobs
         /\ j \notin LoadJobs(j) /\ job[j].stage = "resolve" /\ job[j].target \in job[j].want
         /\ \A i \in LoadJobs(j) : Build(i) # << >> /\ Self(i) \in world.closure[job[j].target]
         /\ job'[j] = [job[j] EXCEPT !.stage = "load"]
         /\ \A i \in LoadJobs(j) : job'[i] = NewJob(Self(i), Self(j))
         /\ \A i \in LoadJobs(j) \cap Started : Ended(i)
         /\ \A i \in Started \ (LoadJobs(j) \cup {j}) : job'[i] = job[i]
         /\ UNCHANGED <<world, claimed, built, edges, loaded>>
<1> DEFINE x == job[j].target
<1>1. /\ job[j].stage = "resolve" /\ ~ Locked(Slot(j)) /\ Len(Build(j)) < MaxDepth
      /\ UNCHANGED <<world, claimed, built, edges, loaded>>
      /\ job' = [i \in Started \cup LoadJobs(j) |->
                  IF i = j THEN [job[j] EXCEPT !.stage = "load"]
                  ELSE IF i \in LoadJobs(j) THEN NewJob(Self(i), Self(j))
                  ELSE job[i]]
  BY DEF StartLoad, HasSlot
<1>2. x \in job[j].want /\ x \in Packages /\ Build(j) \in Builds
  BY <1>1, JobTypes DEF JobInv
<1>3. Append(Build(j), x) \in Builds /\ Append(Build(j), x) # << >> /\ Append(Build(j), x) # Build(j)
  BY <1>1, <1>2, BuildsGrow
<1>4. \A i \in LoadJobs(j) :
          Build(i) = Append(Build(j), x) /\ Self(i) \in world.closure[x] /\ Self(i) \in Packages
          /\ i = <<Build(i), Self(i)>>
  BY <1>2, WorldTypes DEF LoadJobs, Build, Self
<1>5. LoadJobs(j) \subseteq Jobs /\ j \notin LoadJobs(j)
  <2>1. j \notin LoadJobs(j)
    BY <1>3, <1>4
  <2>2. ASSUME NEW i \in LoadJobs(j)
        PROVE  i \in Jobs
    <3>1. PICK b \in Builds, q \in Packages : i = <<b, q>>
      BY <1>3, <1>4
    <3> QED BY <3>1 DEF Jobs
  <2> QED BY <2>1, <2>2
<1>6. ASSUME NEW i \in LoadJobs(j) \cap Started, ~ Ended(i)
      PROVE  FALSE
  <2>1. PICK k \in Started : job[k].stage = "load" /\ i \in LoadJobs(k)
    BY <1>3, <1>4, <1>6 DEF LoadInv
  <2>2. job[k].target \in Packages /\ Build(k) \in Builds
    BY <2>1, JobTypes DEF JobInv
  <2>3. Append(Build(k), job[k].target) = Append(Build(j), x)
    BY <1>4, <2>1 DEF LoadJobs, Build
  <2>4. Slot(k) = Slot(j)
    BY <1>2, <2>2, <2>3, BuildsGrow DEF Slot
  <2> QED BY <1>1, <2>1, <2>4 DEF Locked
<1>7. Started' = Started \cup LoadJobs(j)
  BY <1>1 DEF Started
<1>8. \A i \in Started \cup LoadJobs(j) :
          job'[i] = IF i = j THEN [job[j] EXCEPT !.stage = "load"]
                    ELSE IF i \in LoadJobs(j) THEN NewJob(Self(i), Self(j)) ELSE job[i]
  BY <1>1
<1>9. \A i \in LoadJobs(j) : Build(i) # << >> /\ Self(i) \in world.closure[x]
  BY <1>3, <1>4
<1> HIDE DEF x
<1> QED BY <1>1, <1>2, <1>5, <1>6, <1>7, <1>8, <1>9 DEF x

LEMMA WorldStays ==
  ASSUME world' = world
  PROVE  /\ \A p, q : Needs(p, q)' <=> Needs(p, q)
         /\ Circular' = Circular
         /\ \A p : NeededBy(p)' = NeededBy(p)
<1>1. \A p, q : Needs(p, q)' <=> Needs(p, q)
  BY DEF Needs
<1>2. NeedsPairs' = NeedsPairs /\ \A p : NeededBy(p)' = NeededBy(p)
  BY <1>1 DEF NeedsPairs, NeededBy
<1>3. Circular' = Circular
  BY <1>2 DEF Circular, Reached
<1> QED BY <1>1, <1>2, <1>3

\* What each step makes of the record of its job.
Becomes(j, stage, want, target, answer) ==
  /\ job'[j].stage = stage /\ job'[j].want = want
  /\ job'[j].target = target /\ job'[j].answer = answer

LEMMA StepEffects ==
  ASSUME RTypeOK, NEW j \in Started
  PROVE  /\ Claim(j) => Becomes(j, "weave", job[j].want, job[j].target, job[j].answer)
         /\ Reuse(j) => Becomes(j, built[Self(j)], job[j].want, job[j].target, job[j].answer)
         /\ Skip(j) => Becomes(j, "failed", job[j].want, job[j].target, job[j].answer)
         /\ Compiled(j) => Becomes(j, "ok", job[j].want, job[j].target, job[j].answer)
         /\ \A x : Request(j, x) => Becomes(j, "resolve", job[j].want, x, job[j].answer)
         /\ \A x : RequestRejected(j, x) => Becomes(j, "failed", job[j].want, x, "cycle")
         /\ Hit(j) \/ Loaded(j) => Becomes(j, "leave", job[j].want, job[j].target, "ok")
         /\ LoadFails(j) \/ NotLoaded(j) => Becomes(j, "leave", job[j].want, job[j].target, "failed")
         /\ Resolved(j) => Becomes(j, "weave", job[j].want \ {job[j].target}, job[j].target, job[j].answer)
         /\ NotResolved(j) => Becomes(j, "failed", job[j].want, job[j].target, job[j].answer)
<1>1. job \in [Started -> JobState] /\ job[j] \in JobState
  BY DEF RTypeOK
<1> USE <1>1 DEF Becomes, JobState, JobStep, Leave
<1>2. /\ Claim(j) => Becomes(j, "weave", job[j].want, job[j].target, job[j].answer)
      /\ Reuse(j) => Becomes(j, built[Self(j)], job[j].want, job[j].target, job[j].answer)
      /\ Skip(j) => Becomes(j, "failed", job[j].want, job[j].target, job[j].answer)
      /\ Compiled(j) => Becomes(j, "ok", job[j].want, job[j].target, job[j].answer)
  BY DEF Claim, Reuse, Skip, Compiled
<1>3. /\ \A x : Request(j, x) => Becomes(j, "resolve", job[j].want, x, job[j].answer)
      /\ \A x : RequestRejected(j, x) => Becomes(j, "failed", job[j].want, x, "cycle")
  <2>1. ASSUME NEW x, Request(j, x)
        PROVE  Becomes(j, "resolve", job[j].want, x, job[j].answer)
    BY <2>1 DEF Request
  <2>2. ASSUME NEW x, RequestRejected(j, x)
        PROVE  Becomes(j, "failed", job[j].want, x, "cycle")
    BY <2>2 DEF RequestRejected
  <2> QED BY <2>1, <2>2
<1>4. /\ Hit(j) \/ Loaded(j) => Becomes(j, "leave", job[j].want, job[j].target, "ok")
      /\ LoadFails(j) \/ NotLoaded(j) => Becomes(j, "leave", job[j].want, job[j].target, "failed")
  BY DEF Hit, Loaded, LoadFails, NotLoaded
<1>5. /\ Resolved(j) => Becomes(j, "weave", job[j].want \ {job[j].target}, job[j].target, job[j].answer)
      /\ NotResolved(j) => Becomes(j, "failed", job[j].want, job[j].target, job[j].answer)
  BY DEF Resolved, NotResolved
<1> QED BY <1>2, <1>3, <1>4, <1>5

\* A job that takes a step has not ended.
LEMMA StepIsDue ==
  ASSUME NEW j \in Started, Alone(j)
  PROVE  ~ Ended(j)
BY DEF Alone, Ended, JobStep, HasSlot, Claim, Reuse, Skip, Compiled, Request, RequestRejected,
       Hit, LoadFails, Loaded, NotLoaded, Resolved, NotResolved

-----------------------------------------------------------------------------
\* Each part of the inductive invariant

LEMMA TypeStep ==
  ASSUME RTypeOK, JobInv, LoadInv, NEW j \in Started, RunJob(j)
  PROVE  RTypeOK'
<1>1. /\ Self(j) \in Packages /\ Build(j) \in Builds /\ built[Self(j)] \in {"none", "ok", "failed"}
      /\ Nested(j) => EdgeOf(j) \in Packages \X Packages
  BY JobTypes DEF RTypeOK, Nested, EdgeOf
<1>2. CASE Alone(j)
  <2>1. world' \in Worlds /\ Started' \subseteq Jobs /\ job' \in [Started' -> JobState]
    BY <1>2, AloneMoves DEF RTypeOK
  <2>2. claimed' \subseteq Packages
    BY <1>1, <1>2 DEF RTypeOK, Alone, Claim, Reuse, Skip, Compiled, Request, RequestRejected,
                 Hit, LoadFails, Loaded, NotLoaded, Resolved, NotResolved
  <2>3. built' \in [Packages -> {"none", "ok", "failed"}]
    BY <1>1, <1>2 DEF RTypeOK, Alone, Claim, Reuse, Skip, Compiled, Request, RequestRejected,
                 Hit, LoadFails, Loaded, NotLoaded, Resolved, NotResolved, Report
  <2>4. edges' \subseteq Packages \X Packages
    BY <1>1, <1>2 DEF RTypeOK, Alone, Claim, Reuse, Skip, Compiled, Request, RequestRejected,
                 Hit, LoadFails, Loaded, NotLoaded, Resolved, NotResolved, RemoveEdge
  <2>5. CASE Loaded(j)
    <3>1. job[j].target \in Packages
      BY <2>5, JobTypes DEF Loaded, JobInv
    <3>2. Slot(j) \in Jobs
      BY <1>1, <3>1 DEF Slot, Jobs
    <3> QED BY <2>1, <2>2, <2>3, <2>4, <2>5, <3>2 DEF RTypeOK, Loaded
  <2>6. CASE ~ Loaded(j)
    <3>1. loaded' = loaded
      BY <1>2, <2>6 DEF Alone, Claim, Reuse, Skip, Compiled, Request, RequestRejected,
                   Hit, LoadFails, NotLoaded, Resolved, NotResolved
    <3> QED BY <2>1, <2>2, <2>3, <2>4, <3>1 DEF RTypeOK
  <2> QED BY <2>5, <2>6
<1>3. CASE StartLoad(j)
  <2>1. Started' \subseteq Jobs /\ world' \in Worlds
    BY <1>3, StartLoadMoves DEF RTypeOK
  <2>2. ASSUME NEW i \in Started'
        PROVE  job'[i] \in JobState
    <3>1. CASE i = j
      <4>1. job'[j] = [job[j] EXCEPT !.stage = "load"] /\ job[j] \in JobState
        BY <1>3, StartLoadMoves DEF RTypeOK
      <4> QED BY <3>1, <4>1 DEF JobState, JobStages
    <3>2. CASE i \in LoadJobs(j)
      <4>1. job'[i] = NewJob(Self(i), Self(j)) /\ i \in Jobs
        BY <1>3, <3>2, StartLoadMoves
      <4>2. Self(i) \in Packages
        BY <4>1 DEF Jobs, Self
      <4>3. world.injects[Self(i)] \in SUBSET Packages
        BY <4>2, WorldTypes
      <4> QED BY <1>1, <4>1, <4>3 DEF NewJob, JobState, JobStages
    <3>3. CASE i \in Started \ (LoadJobs(j) \cup {j})
      BY <1>3, <3>3, StartLoadMoves DEF RTypeOK
    <3> QED BY <1>3, <3>1, <3>2, <3>3, StartLoadMoves
  <2>3. job' \in [Started' -> JobState]
    <3>1. job' = [i \in Started' |-> job'[i]]
      BY <1>3 DEF StartLoad, Started
    <3> QED BY <2>2, <3>1
  <2> QED BY <1>3, <2>1, <2>3, StartLoadMoves DEF RTypeOK
<1> QED BY <1>2, <1>3, RunSplits

LEMMA JobInvStep ==
  ASSUME RTypeOK, JobInv, LoadInv, NEW j \in Started, RunJob(j)
  PROVE  JobInv'
<1>1. CASE Alone(j)
  <2> SUFFICES ASSUME NEW i \in Started
               PROVE  /\ job'[i].parent # NoPackage => Needs(job'[i].parent, Self(i))
                      /\ job'[i].want \subseteq world.injects[Self(i)]
                      /\ job'[i].stage = "pending" => job'[i].want = world.injects[Self(i)]
                      /\ job'[i].stage \in {"resolve", "load", "leave"} => job'[i].target \in job'[i].want
    BY <1>1, AloneMoves DEF JobInv, Nested, Self, Needs
  <2>1. CASE i # j
    <3>1. job'[i] = job[i] /\ world' = world
      BY <1>1, <2>1, AloneMoves
    <3> QED BY <3>1 DEF JobInv, Nested
  <2>2. CASE i = j
    <3>1. world' = world /\ job'[j].parent = job[j].parent /\ job'[j].want \subseteq job[j].want
      BY <1>1, AloneMoves
    <3>2. job'[j].parent # NoPackage => Needs(job'[j].parent, Self(j))
      BY <3>1 DEF JobInv, Nested
    <3>3. job'[j].stage # "pending"
      <4>1. built[Self(j)] # "pending"
        BY JobTypes DEF RTypeOK
      <4> QED BY <1>1, <4>1, StepEffects DEF Alone, Becomes
    <3>4. job'[j].stage \in {"resolve", "load", "leave"} => job'[j].target \in job'[j].want
      <4>1. CASE \E x \in Packages : Request(j, x)
        BY <4>1, StepEffects DEF Becomes, Request
      <4>2. CASE Hit(j) \/ LoadFails(j) \/ Loaded(j) \/ NotLoaded(j)
        <5>1. job[j].target \in job[j].want
          BY <4>2 DEF Hit, LoadFails, Loaded, NotLoaded, HasSlot, JobInv
        <5> QED BY <4>2, <5>1, StepEffects DEF Becomes
      <4>3. CASE Claim(j) \/ Skip(j) \/ Compiled(j) \/ Resolved(j) \/ NotResolved(j)
        BY <4>3, StepEffects DEF Becomes
      <4>4. CASE \E x \in Packages : RequestRejected(j, x)
        BY <4>4, StepEffects DEF Becomes
      <4>5. CASE Reuse(j)
        <5>1. job'[j].stage \in {"none", "ok", "failed"}
          BY <4>5, StepEffects, JobTypes DEF Becomes, RTypeOK
        <5> QED BY <5>1
      <4> QED BY <1>1, <4>1, <4>2, <4>3, <4>4, <4>5 DEF Alone
    <3> QED BY <2>2, <3>1, <3>2, <3>3, <3>4 DEF JobInv
  <2> QED BY <2>1, <2>2
<1>2. CASE StartLoad(j)
  <2>0. world' = world
    BY <1>2, StartLoadMoves
  <2> SUFFICES ASSUME NEW i \in Started'
               PROVE  /\ job'[i].parent # NoPackage => Needs(job'[i].parent, Self(i))
                      /\ job'[i].want \subseteq world.injects[Self(i)]
                      /\ job'[i].stage = "pending" => job'[i].want = world.injects[Self(i)]
                      /\ job'[i].stage \in {"resolve", "load", "leave"} => job'[i].target \in job'[i].want
    BY <2>0 DEF JobInv, Nested, Self, Needs
  <2>2. CASE i = j
    <3>1. job'[j] = [job[j] EXCEPT !.stage = "load"] /\ job[j].target \in job[j].want
          /\ job[j] \in JobState
      BY <1>2, StartLoadMoves DEF RTypeOK
    <3>2. /\ job'[j].stage = "load" /\ job'[j].parent = job[j].parent
          /\ job'[j].want = job[j].want /\ job'[j].target = job[j].target
      BY <3>1 DEF JobState
    <3> QED BY <2>2, <3>1, <3>2 DEF JobInv, Nested
  <2>3. CASE i \in LoadJobs(j)
    <3>1. job'[i] = NewJob(Self(i), Self(j)) /\ Self(i) \in world.closure[job[j].target]
          /\ job[j].target \in job[j].want
      BY <1>2, <2>3, StartLoadMoves
    <3>2. Needs(Self(j), Self(i))
      BY <3>1 DEF JobInv, Needs
    <3> QED BY <3>1, <3>2 DEF NewJob
  <2>4. CASE i \in Started \ (LoadJobs(j) \cup {j})
    <3>1. job'[i] = job[i]
      BY <1>2, <2>4, StartLoadMoves
    <3> QED BY <2>4, <3>1 DEF JobInv, Nested
  <2> QED BY <1>2, <2>2, <2>3, <2>4, StartLoadMoves
<1> QED BY <1>1, <1>2, RunSplits

LEMMA StartLoadCases ==
  ASSUME RTypeOK, JobInv, LoadInv, NEW j \in Started, StartLoad(j), NEW i \in Started'
  PROVE  \/ /\ i = j /\ job[j].stage = "resolve" /\ job'[j].stage = "load"
            /\ job'[j].parent = job[j].parent /\ job'[j].want = job[j].want
            /\ job'[j].target = job[j].target /\ job'[j].answer = job[j].answer
         \/ /\ i \in LoadJobs(j) /\ job'[i].stage = "pending" /\ job'[i].answer = "none"
            /\ i \in Started => Ended(i)
         \/ i \in Started \ (LoadJobs(j) \cup {j}) /\ job'[i] = job[i]
<1>1. CASE i = j
  <2>1. job[j].stage = "resolve" /\ job'[j] = [job[j] EXCEPT !.stage = "load"] /\ job[j] \in JobState
    BY StartLoadMoves DEF RTypeOK
  <2> QED BY <1>1, <2>1 DEF JobState
<1>2. CASE i \in LoadJobs(j)
  <2>1. job'[i] = NewJob(Self(i), Self(j)) /\ (i \in Started => Ended(i))
    BY <1>2, StartLoadMoves
  <2> QED BY <1>2, <2>1 DEF NewJob
<1>3. CASE i \in Started \ (LoadJobs(j) \cup {j})
  BY <1>3, StartLoadMoves
<1> QED BY <1>1, <1>2, <1>3, StartLoadMoves

LEMMA LoadInvStep ==
  ASSUME RTypeOK, JobInv, LoadInv, NEW j \in Started, RunJob(j)
  PROVE  LoadInv'
<1>0. ASSUME NEW k \in Started', job'[k].stage = "load"
      PROVE  LoadJobs(k)' \subseteq Started'
  <2>1. CASE Alone(j)
    <3>1. /\ Started' = Started /\ world' = world /\ k \in Started
          /\ \A i \in Started \ {j} : job'[i] = job[i]
      BY <1>0, <2>1, AloneMoves
    <3>2. job'[j].stage # "load"
      <4>1. built[Self(j)] # "load"
        BY JobTypes DEF RTypeOK
      <4> QED BY <2>1, <4>1, StepEffects DEF Alone, Becomes
    <3> QED BY <1>0, <3>1, <3>2 DEF LoadInv, LoadJobs
  <2>2. CASE StartLoad(j)
    <3>1. Started' = Started \cup LoadJobs(j) /\ world' = world
      BY <2>2, StartLoadMoves
    <3>2. k \in Started /\ job'[k].target = job[k].target /\ (k = j \/ job[k].stage = "load")
      BY <1>0, <2>2, StartLoadCases
    <3> QED BY <3>1, <3>2 DEF LoadInv, LoadJobs
  <2> QED BY <2>1, <2>2, RunSplits
<1> SUFFICES ASSUME NEW i \in Started', Build(i) # << >>, ~ Ended(i)'
             PROVE  \E k \in Started' : job'[k].stage = "load" /\ i \in LoadJobs(k)'
  BY <1>0 DEF LoadInv, Build
<1>1. CASE Alone(j)
  <2>1. Started' = Started /\ world' = world /\ \A k \in Started \ {j} : job'[k] = job[k]
    BY <1>1, AloneMoves
  <2>2. ~ Ended(i)
    BY <1>1, <2>1, StepIsDue DEF Ended
  <2>3. PICK k \in Started : job[k].stage = "load" /\ i \in LoadJobs(k)
    BY <2>1, <2>2 DEF LoadInv
  <2>4. k # j
    <3> SUFFICES ASSUME k = j
                 PROVE  FALSE
      OBVIOUS
    <3>1. Loaded(j) \/ NotLoaded(j)
      BY <1>1, <2>3 DEF Alone, JobStep, HasSlot, Claim, Reuse, Skip, Compiled, Request,
                   RequestRejected, Hit, LoadFails, Resolved, NotResolved
    <3> QED BY <2>2, <2>3, <3>1 DEF Loaded, NotLoaded, Ended
  <2>5. job'[k] = job[k]
    BY <2>1, <2>4
  <2> QED BY <2>1, <2>3, <2>5 DEF LoadJobs
<1>2. CASE StartLoad(j)
  <2>1. ASSUME NEW k \in Started, job[k].stage = "load", i \in LoadJobs(k)
        PROVE  k \in Started' /\ job'[k].stage = "load" /\ i \in LoadJobs(k)'
    <3>1. k \notin LoadJobs(j) /\ k # j
      BY <1>2, <2>1, StartLoadMoves DEF Ended
    <3>2. job'[k] = job[k] /\ world' = world /\ k \in Started'
      BY <1>2, <3>1, StartLoadMoves
    <3> QED BY <2>1, <3>2 DEF LoadJobs
  <2>2. CASE i \in LoadJobs(j)
    <3>1. job'[j] = [job[j] EXCEPT !.stage = "load"] /\ job[j] \in JobState /\ world' = world
          /\ j \in Started'
      BY <1>2, StartLoadMoves DEF RTypeOK
    <3>2. job'[j].stage = "load" /\ job'[j].target = job[j].target
      BY <3>1 DEF JobState
    <3> QED BY <2>2, <3>1, <3>2 DEF LoadJobs
  <2>3. CASE i \in Started \ LoadJobs(j)
    <3>1. ~ Ended(i)
      <4>1. CASE i = j
        BY <1>2, <4>1, StartLoadMoves DEF Ended
      <4>2. CASE i # j
        <5>1. job'[i] = job[i]
          BY <1>2, <2>3, <4>2, StartLoadMoves
        <5> QED BY <5>1 DEF Ended
      <4> QED BY <4>1, <4>2
    <3>2. PICK k \in Started : job[k].stage = "load" /\ i \in LoadJobs(k)
      BY <2>3, <3>1 DEF LoadInv
    <3> QED BY <2>1, <3>2
  <2> QED BY <1>2, <2>2, <2>3, StartLoadMoves
<1> QED BY <1>1, <1>2, RunSplits

\* A job that takes a step works before it or after it, unless it gives up or reuses.
LEMMA BuiltMoves ==
  ASSUME RTypeOK, NEW j \in Started, Alone(j)
  PROVE  /\ \/ built' = built
            \/ /\ Working(j) /\ ~ Working(j)' /\ built'[Self(j)] \in {"ok", "failed"}
               /\ \A p \in Packages \ {Self(j)} : built'[p] = built[p]
         /\ \/ claimed' = claimed /\ (Working(j)' => Working(j))
            \/ Claim(j)
<1>1. Self(j) \in Packages /\ built \in [Packages -> {"none", "ok", "failed"}]
  BY JobTypes DEF RTypeOK
<1>2. CASE Claim(j)
  BY <1>2 DEF Claim
<1>3. CASE Reuse(j)
  <2>1. job'[j].stage \in {"none", "ok", "failed"}
    BY <1>1, <1>3, StepEffects DEF Becomes
  <2> QED BY <1>3, <2>1 DEF Reuse, Working
<1>4. CASE Skip(j)
  BY <1>4, StepEffects DEF Becomes, Skip, Working
<1>5. CASE Compiled(j) \/ NotResolved(j) \/ \E x \in Packages : RequestRejected(j, x)
  <2>1. Working(j) /\ claimed' = claimed
    BY <1>5 DEF Compiled, NotResolved, RequestRejected, JobStep, Working
  <2>2. ~ Working(j)'
    BY <1>5, StepEffects DEF Becomes, Working
  <2>3. PICK r \in {"ok", "failed"} : built' = [built EXCEPT ![Self(j)] = r]
    BY <1>5 DEF Compiled, NotResolved, RequestRejected, Report
  <2> QED BY <1>1, <2>1, <2>2, <2>3
<1>6. CASE \/ \E x \in Packages : Request(j, x)
           \/ Hit(j) \/ LoadFails(j) \/ Loaded(j) \/ NotLoaded(j) \/ Resolved(j)
  BY <1>6 DEF Request, Hit, LoadFails, Loaded, NotLoaded, Resolved, HasSlot, Working
<1> QED BY <1>2, <1>3, <1>4, <1>5, <1>6 DEF Alone

LEMMA ClaimInvStep ==
  ASSUME RTypeOK, JobInv, LoadInv, ClaimInv, NEW j \in Started, RunJob(j)
  PROVE  ClaimInv'
<1>1. CASE Alone(j)
  <2>1. Started' = Started /\ world' = world /\ Self(j) \in Packages
        /\ \A i \in Started \ {j} : job'[i] = job[i]
    BY <1>1, AloneMoves, JobTypes
  <2>2. \A i \in Started \ {j} : Working(i)' <=> Working(i)
    BY <2>1 DEF Working
  <2>3. CASE Claim(j)
    <3>1. /\ claimed' = claimed \cup {Self(j)} /\ built' = built
          /\ Self(j) \in world.shared => Self(j) \notin claimed
      BY <2>3 DEF Claim
    <3>2. Self(j) \in world.shared => built[Self(j)] = "none"
      BY <2>1, <3>1 DEF ClaimInv
    <3>3. \A p \in Packages : built'[p] # "none" => p \in claimed'
      BY <3>1 DEF ClaimInv
    <3>4. \A i \in Started : Working(i)' =>
              /\ Self(i) \in claimed'
              /\ Self(i) \in world.shared => built'[Self(i)] = "none"
      BY <2>2, <3>1, <3>2 DEF ClaimInv
    <3>5. \A i \in Started \ {j} : Working(i) => Self(i) \in claimed
      BY DEF ClaimInv
    <3>6. \A i, k \in Started :
            Working(i)' /\ Working(k)' /\ Self(i) = Self(k) /\ Self(i) \in world.shared => i = k
      BY <2>2, <3>1, <3>5 DEF ClaimInv
    <3> QED BY <2>1, <3>3, <3>4, <3>6 DEF ClaimInv, Self
  <2>4. CASE ~ Claim(j)
    <3>1. claimed' = claimed /\ (Working(j)' => Working(j))
      BY <1>1, <2>4, BuiltMoves
    <3>2. \A i \in Started : Working(i)' => Working(i)
      BY <2>2, <3>1
    <3>3. \A p \in Packages : built'[p] # "none" => p \in claimed'
      BY <1>1, <3>1, BuiltMoves DEF ClaimInv
    <3>4. ASSUME NEW i \in Started, Working(i)'
          PROVE  /\ Self(i) \in claimed'
                 /\ Self(i) \in world.shared => built'[Self(i)] = "none"
      <4>1. Self(i) \in claimed /\ (Self(i) \in world.shared => built[Self(i)] = "none")
        BY <3>2, <3>4 DEF ClaimInv
      <4>2. CASE built' = built
        BY <3>1, <4>1, <4>2
      <4>3. CASE built' # built
        <5>1. Working(j) /\ ~ Working(j)' /\ \A p \in Packages \ {Self(j)} : built'[p] = built[p]
          BY <1>1, <4>3, BuiltMoves
        <5>2. Self(i) \in world.shared => Self(i) # Self(j)
          BY <3>2, <3>4, <5>1 DEF ClaimInv
        <5> QED BY <3>1, <4>1, <5>1, <5>2, JobTypes
      <4> QED BY <4>2, <4>3
    <3>5. \A i, k \in Started :
            Working(i)' /\ Working(k)' /\ Self(i) = Self(k) /\ Self(i) \in world.shared => i = k
      BY <3>2 DEF ClaimInv
    <3> QED BY <2>1, <3>3, <3>4, <3>5 DEF ClaimInv, Self
  <2> QED BY <2>3, <2>4
<1>2. CASE StartLoad(j)
  <2>1. UNCHANGED <<world, claimed, built>>
    BY <1>2, StartLoadMoves
  <2>2. \A i \in Started' : Working(i)' => i \in Started /\ Working(i)
    BY <1>2, StartLoadCases DEF Working
  <2> QED BY <2>1, <2>2 DEF ClaimInv, Self
<1> QED BY <1>1, <1>2, RunSplits

\* What is complete, or available, stays so: a shared package is compiled once.
CompleteNext(q) == q \notin Circular /\ (q \in world.shared => built'[q] = "ok")
AvailableNext(x) == \A q \in world.closure[x] : CompleteNext(q)

LEMMA CompleteStays ==
  ASSUME RTypeOK, ClaimInv, NEW j \in Started, Alone(j)
  PROVE  /\ \A q \in Packages : Complete(q) => CompleteNext(q)
         /\ \A x \in Packages : Available(x) => AvailableNext(x)
<1>1. ASSUME NEW q \in Packages, Complete(q)
      PROVE  CompleteNext(q)
  <2>1. CASE built'[q] = built[q]
    BY <1>1, <2>1 DEF Complete, CompleteNext
  <2>2. CASE built'[q] # built[q]
    <3>1. q = Self(j) /\ Working(j)
      BY <2>2, BuiltMoves
    <3>2. q \notin world.shared
      BY <1>1, <3>1 DEF ClaimInv, Complete
    <3> QED BY <1>1, <3>2 DEF Complete, CompleteNext
  <2> QED BY <2>1, <2>2
<1>2. \A x \in Packages : world.closure[x] \subseteq Packages
  BY WorldTypes
<1> QED BY <1>1, <1>2 DEF Available, AvailableNext

LEMMA AvailableNextIs ==
  ASSUME world' = world,
         \A p \in Packages : built'[p] = "ok" =>
            p \notin Circular /\ \A q \in NeededBy(p) : CompleteNext(q),
         \A slot \in loaded' : AvailableNext(slot[2]),
         \A i \in Started' :
            /\ job'[i].stage = "ok" => CompleteNext(Self(i))
            /\ Working(i)' => \A x \in world.injects[Self(i)] \ job'[i].want : AvailableNext(x)
            /\ job'[i].stage = "leave" /\ job'[i].answer = "ok" => AvailableNext(job'[i].target)
  PROVE  AvailableInv'
<1>1. Circular' = Circular /\ \A p : NeededBy(p)' = NeededBy(p)
  BY WorldStays
<1>2. \A p \in Packages : (built[p] = "ok")' =>
          p \notin Circular' /\ \A q \in NeededBy(p)' : Complete(q)'
  BY <1>1 DEF CompleteNext, Complete
<1>3. \A slot \in loaded' : Available(slot[2])'
  BY <1>1 DEF AvailableNext, CompleteNext, Available, Complete
<1>4. \A i \in Started' :
        /\ (job[i].stage = "ok" => Complete(Self(i)))'
        /\ (Working(i) => \A x \in world.injects[Self(i)] \ job[i].want : Available(x))'
        /\ (job[i].stage = "leave" /\ job[i].answer = "ok" => Available(job[i].target))'
  BY <1>1 DEF AvailableNext, CompleteNext, Available, Complete, Self
<1> QED BY <1>2, <1>3, <1>4 DEF AvailableInv

\* What a successful load makes available.
LEMMA LoadedIsAvailable ==
  ASSUME RTypeOK, JobInv, LoadInv, AvailableInv, NEW j \in Started, Loaded(j)
  PROVE  job[j].target \in Packages /\ Available(job[j].target)
<1> DEFINE x == job[j].target
<1>1. x \in Packages
  BY JobTypes DEF Loaded, JobInv
<1>2. ASSUME NEW q \in world.closure[x]
      PROVE  Complete(q)
  <2> DEFINE i == <<Append(Build(j), x), q>>
  <2>1. i \in LoadJobs(j) /\ Self(i) = q
    BY <1>2 DEF LoadJobs, Self
  <2>2. job[i].stage = "ok"
    BY <2>1 DEF Loaded
  <2>3. i \in Started
    BY <2>1 DEF Loaded, LoadInv
  <2> QED BY <2>1, <2>2, <2>3 DEF AvailableInv
<1> QED BY <1>1, <1>2 DEF Available

LEMMA AvailableInvStep ==
  ASSUME RTypeOK, JobInv, LoadInv, ClaimInv, AvailableInv, NEW j \in Started, RunJob(j)
  PROVE  AvailableInv'
<1>1. CASE Alone(j)
  <2>1. Started' = Started /\ world' = world /\ \A i \in Started \ {j} : job'[i] = job[i]
    BY <1>1, AloneMoves
  <2>2. /\ \A q \in Packages : Complete(q) => CompleteNext(q)
        /\ \A x \in Packages : Available(x) => AvailableNext(x)
    BY <1>1, CompleteStays
  <2>3. \A p \in Packages : built'[p] = "ok" =>
            p \notin Circular /\ \A q \in NeededBy(p) : CompleteNext(q)
    <3> SUFFICES ASSUME NEW p \in Packages, built'[p] = "ok"
                 PROVE  p \notin Circular /\ \A q \in NeededBy(p) : CompleteNext(q)
      OBVIOUS
    <3>1. p \notin Circular /\ \A q \in NeededBy(p) : Complete(q)
      <4>1. CASE built[p] = "ok"
        BY <4>1 DEF AvailableInv
      <4>2. CASE built[p] # "ok"
        <5>1. Compiled(j) /\ p = Self(j)
          BY <1>1, <4>2, JobTypes DEF RTypeOK, Alone, Claim, Reuse, Skip, Compiled, Request,
               RequestRejected, Hit, LoadFails, Loaded, NotLoaded, Resolved, NotResolved, Report
        <5>2. \A x \in world.injects[p] : Available(x)
          BY <5>1 DEF AvailableInv, Compiled, JobStep, Working
        <5>3. \A q \in NeededBy(p) : Complete(q)
          BY <5>2 DEF NeededBy, Needs, Available
        <5>4. p \notin Circular
          BY <5>3, CircularNeedsCircular DEF Complete
        <5> QED BY <5>3, <5>4
      <4> QED BY <4>1, <4>2
    <3> QED BY <2>2, <3>1 DEF NeededBy
  <2>4. \A slot \in loaded' : AvailableNext(slot[2])
    <3>1. \A slot \in loaded : slot[2] \in Packages /\ AvailableNext(slot[2])
      BY <2>2 DEF AvailableInv, RTypeOK, Jobs
    <3>2. CASE Loaded(j)
      <4>1. loaded' = loaded \cup {Slot(j)} /\ Slot(j)[2] = job[j].target
        BY <3>2 DEF Loaded, Slot
      <4>2. AvailableNext(Slot(j)[2])
        BY <2>2, <3>2, <4>1, LoadedIsAvailable
      <4> QED BY <3>1, <4>1, <4>2
    <3>3. CASE ~ Loaded(j)
      <4>1. loaded' = loaded
        BY <1>1, <3>3 DEF Alone, Claim, Reuse, Skip, Compiled, Request, RequestRejected,
                     Hit, LoadFails, NotLoaded, Resolved, NotResolved
      <4> QED BY <3>1, <4>1
    <3> QED BY <3>2, <3>3
  <2>5. ASSUME NEW i \in Started
        PROVE  /\ job'[i].stage = "ok" => CompleteNext(Self(i))
               /\ Working(i)' => \A x \in world.injects[Self(i)] \ job'[i].want : AvailableNext(x)
               /\ job'[i].stage = "leave" /\ job'[i].answer = "ok" => AvailableNext(job'[i].target)
    <3>1. Self(i) \in Packages /\ world.injects[Self(i)] \subseteq Packages
      BY JobTypes, WorldTypes
    <3>2. CASE i # j
      <4>1. job'[i] = job[i] /\ (Working(i)' <=> Working(i))
        BY <2>1, <3>2 DEF Working
      <4>2. job[i].stage = "ok" => CompleteNext(Self(i))
        BY <2>2, <3>1 DEF AvailableInv
      <4>3. Working(i) => \A x \in world.injects[Self(i)] \ job[i].want : AvailableNext(x)
        BY <2>2, <3>1 DEF AvailableInv
      <4>4. job[i].stage = "leave" /\ job[i].answer = "ok" => AvailableNext(job[i].target)
        <5>1. job[i].stage = "leave" => job[i].target \in Packages
          BY JobTypes DEF JobInv
        <5> QED BY <2>2, <5>1 DEF AvailableInv
      <4> QED BY <4>1, <4>2, <4>3, <4>4
    <3>3. CASE i = j
      <4>1. job'[j].stage = "ok" => CompleteNext(Self(j))
        <5> SUFFICES ASSUME job'[j].stage = "ok"
                     PROVE  CompleteNext(Self(j))
          OBVIOUS
        <5>1. Compiled(j) \/ Reuse(j)
          BY <1>1, StepEffects DEF Alone, Becomes
        <5>2. CASE Compiled(j)
          <6>1. built'[Self(j)] = "ok"
            BY <3>1, <3>3, <5>2 DEF Compiled, Report, RTypeOK
          <6> QED BY <2>3, <3>1, <3>3, <6>1 DEF CompleteNext
        <5>3. CASE Reuse(j)
          <6>1. built[Self(j)] = "ok"
            BY <5>3, StepEffects DEF Becomes
          <6>2. Complete(Self(j))
            BY <3>1, <3>3, <6>1 DEF AvailableInv, Complete
          <6> QED BY <2>2, <3>1, <3>3, <6>2
        <5> QED BY <5>1, <5>2, <5>3
      <4>2. Working(j)' => \A x \in world.injects[Self(j)] \ job'[j].want : AvailableNext(x)
        <5>1. CASE Claim(j)
          <6>1. job'[j].want = world.injects[Self(j)]
            BY <5>1, StepEffects DEF Becomes, Claim, JobStep, JobInv
          <6> QED BY <6>1
        <5>2. CASE ~ Claim(j)
          <6> SUFFICES ASSUME Working(j)', NEW x \in world.injects[Self(j)] \ job'[j].want
                       PROVE  Available(x)
            BY <2>2, <3>1, <3>3
          <6>1. Working(j)
            BY <1>1, <5>2, BuiltMoves
          <6>2. CASE x \notin job[j].want
            BY <6>1, <6>2 DEF AvailableInv
          <6>3. CASE x \in job[j].want
            <7>1. Resolved(j)
              BY <1>1, <6>3, StepEffects DEF Alone, Becomes
            <7>2. x = job[j].target
              BY <6>3, <7>1, StepEffects DEF Becomes
            <7> QED BY <7>1, <7>2 DEF Resolved, AvailableInv
          <6> QED BY <6>2, <6>3
        <5> QED BY <5>1, <5>2
      <4>3. job'[j].stage = "leave" /\ job'[j].answer = "ok" => AvailableNext(job'[j].target)
        <5> SUFFICES ASSUME job'[j].stage = "leave", job'[j].answer = "ok"
                     PROVE  AvailableNext(job'[j].target)
          OBVIOUS
        <5>1. built[Self(j)] # "leave"
          BY JobTypes DEF RTypeOK
        <5>2. Hit(j) \/ Loaded(j)
          BY <1>1, <5>1, StepEffects DEF Alone, Becomes
        <5>3. job'[j].target = job[j].target
          BY <5>2, StepEffects DEF Becomes
        <5>4. CASE Hit(j)
          <6>1. job[j].target \in Packages
            BY <5>4, JobTypes DEF Hit, HasSlot, JobInv
          <6>2. Available(job[j].target)
            BY <5>4 DEF Hit, Slot, AvailableInv
          <6> QED BY <2>2, <5>3, <6>1, <6>2
        <5>5. CASE Loaded(j)
          BY <2>2, <5>3, <5>5, LoadedIsAvailable
        <5> QED BY <5>2, <5>4, <5>5
      <4> QED BY <3>3, <4>1, <4>2, <4>3
    <3> QED BY <3>2, <3>3
  <2> QED BY <2>1, <2>3, <2>4, <2>5, AvailableNextIs
<1>2. CASE StartLoad(j)
  <2>1. UNCHANGED <<world, built, loaded>>
    BY <1>2, StartLoadMoves
  <2>2. /\ \A q : Complete(q) <=> CompleteNext(q)
        /\ \A x : Available(x) <=> AvailableNext(x)
    BY <2>1 DEF Complete, CompleteNext, Available, AvailableNext
  <2>3. ASSUME NEW i \in Started'
        PROVE  /\ job'[i].stage = "ok" => CompleteNext(Self(i))
               /\ Working(i)' => \A x \in world.injects[Self(i)] \ job'[i].want : AvailableNext(x)
               /\ job'[i].stage = "leave" /\ job'[i].answer = "ok" => AvailableNext(job'[i].target)
    <3>1. CASE i = j /\ job[j].stage = "resolve" /\ job'[j].stage = "load" /\ job'[j].want = job[j].want
      BY <2>2, <3>1 DEF AvailableInv, Working
    <3>2. CASE job'[i].stage = "pending"
      BY <3>2 DEF Working
    <3>3. CASE i \in Started /\ job'[i] = job[i]
      BY <2>2, <3>3 DEF AvailableInv, Working
    <3> QED BY <1>2, <3>1, <3>2, <3>3, StartLoadCases
  <2> QED BY <2>1, <2>2, <2>3, AvailableNextIs DEF AvailableInv
<1> QED BY <1>1, <1>2, RunSplits

LEMMA GraphStep ==
  ASSUME RTypeOK, JobInv, LoadInv, ClaimInv, GraphIsExact, NEW j \in Started, RunJob(j)
  PROVE  GraphIsExact'
<1>1. /\ edges \subseteq {EdgeOf(i) : i \in InService}
      /\ world.shared = Packages => {EdgeOf(i) : i \in InService} \subseteq edges
  BY DEF GraphIsExact
<1>2. CASE Alone(j)
  <2>1. /\ Started' = Started /\ world' = world /\ job'[j].parent = job[j].parent
        /\ \A i \in Started \ {j} : job'[i] = job[i]
    BY <1>2, AloneMoves
  <2>2. \A i \in Started : EdgeOf(i)' = EdgeOf(i) /\ (Nested(i)' <=> Nested(i))
    BY <2>1 DEF EdgeOf, Nested, Self
  <2>3. \A i \in Started \ {j} : i \in InService' <=> i \in InService
    BY <2>1, <2>2 DEF InService
  <2>4. ASSUME edges' = edges, j \in InService' <=> j \in InService
        PROVE  GraphIsExact'
    <3>1. InService' = InService
      BY <2>1, <2>3, <2>4 DEF InService
    <3>2. {EdgeOf(i) : i \in InService}' = {EdgeOf(i) : i \in InService}
      BY <2>2, <3>1 DEF InService
    <3> QED BY <1>1, <2>1, <2>4, <3>2 DEF GraphIsExact
  <2>5. CASE Claim(j) \/ Reuse(j) \/ Skip(j) \/ Compiled(j) \/ \E x \in Packages : RequestRejected(j, x)
    <3>1. edges' = edges /\ j \notin InService
      BY <2>5 DEF Claim, Reuse, Skip, Compiled, RequestRejected, JobStep, InService
    <3>2. built[Self(j)] \in {"none", "ok", "failed"}
      BY JobTypes DEF RTypeOK
    <3>3. j \notin InService'
      BY <2>5, <3>2, StepEffects DEF Becomes, InService
    <3> QED BY <2>4, <3>1, <3>3
  <2>6. CASE Hit(j) \/ LoadFails(j) \/ Loaded(j) \/ NotLoaded(j)
    <3>1. edges' = edges /\ job[j].stage \in {"resolve", "load"}
      BY <2>6 DEF Hit, LoadFails, Loaded, NotLoaded, HasSlot
    <3>2. job'[j].stage = "leave"
      BY <2>6, StepEffects DEF Becomes
    <3>3. j \in InService' <=> j \in InService
      BY <2>1, <2>2, <3>1, <3>2 DEF InService
    <3> QED BY <2>4, <3>1, <3>3
  <2>7. CASE \E x \in Packages : Request(j, x)
    <3>1. PICK x \in Packages : Request(j, x)
      BY <2>7
    <3>2. j \notin InService /\ job'[j].stage = "resolve"
      BY <3>1, StepEffects DEF Becomes, Request, InService
    <3>3. CASE ~ Nested(j)
      <4>1. edges' = edges /\ j \notin InService'
        BY <2>2, <3>1, <3>3 DEF Request, InService
      <4> QED BY <2>4, <3>2, <4>1
    <3>4. CASE Nested(j)
      <4>1. edges' = edges \cup {EdgeOf(j)} /\ j \in InService'
        BY <2>1, <2>2, <3>1, <3>2, <3>4 DEF Request, InService
      <4>2. InService' = InService \cup {j}
        BY <2>1, <2>3, <4>1 DEF InService
      <4>3. {EdgeOf(i) : i \in InService}' = {EdgeOf(i) : i \in InService} \cup {EdgeOf(j)}
        BY <2>2, <4>2 DEF InService
      <4> QED BY <1>1, <2>1, <4>1, <4>3 DEF GraphIsExact
    <3> QED BY <3>3, <3>4
  <2>8. CASE Resolved(j) \/ NotResolved(j)
    <3>1. edges' = edges \ {EdgeOf(j)} /\ job[j].stage = "leave"
      BY <2>8 DEF Resolved, NotResolved, RemoveEdge, JobStep
    <3>2. j \notin InService'
      BY <2>8, StepEffects DEF Becomes, InService
    <3>3. InService' = InService \ {j}
      BY <2>1, <2>3, <3>2 DEF InService
    <3>4. {EdgeOf(i) : i \in InService}' = {EdgeOf(i) : i \in InService \ {j}}
      BY <2>2, <3>3 DEF InService
    <3>5. edges' \subseteq {EdgeOf(i) : i \in InService \ {j}}
      BY <1>1, <3>1
    <3>6. ASSUME world.shared = Packages, NEW i \in InService \ {j}
          PROVE  EdgeOf(i) \in edges'
      <4>1. i \in Started /\ Working(i) /\ Working(j)
        BY <3>1, <3>6 DEF InService, Working
      <4>2. Self(i) # Self(j)
        BY <3>6, <4>1, JobTypes DEF ClaimInv
      <4>3. EdgeOf(i) # EdgeOf(j)
        BY <4>2 DEF EdgeOf
      <4> QED BY <1>1, <3>1, <3>6, <4>3
    <3> QED BY <2>1, <3>4, <3>5, <3>6 DEF GraphIsExact
  <2> QED BY <1>2, <2>5, <2>6, <2>7, <2>8 DEF Alone
<1>3. CASE StartLoad(j)
  <2>1. UNCHANGED <<world, edges>> /\ Started \subseteq Started'
    BY <1>3, StartLoadMoves
  <2>2. ASSUME NEW i \in Started'
        PROVE  /\ i \in InService' <=> i \in InService
               /\ i \in InService => EdgeOf(i)' = EdgeOf(i)
    <3>1. CASE /\ i = j /\ job[j].stage = "resolve" /\ job'[j].stage = "load"
               /\ job'[j].parent = job[j].parent
      BY <2>2, <3>1 DEF InService, Nested, EdgeOf, Self
    <3>2. CASE job'[i].stage = "pending" /\ (i \in Started => Ended(i))
      BY <3>2 DEF InService, Ended
    <3>3. CASE i \in Started /\ job'[i] = job[i]
      BY <2>2, <3>3 DEF InService, Nested, EdgeOf, Self
    <3> QED BY <1>3, <2>2, <3>1, <3>2, <3>3, StartLoadCases
  <2>3. InService' = InService
    BY <2>1, <2>2 DEF InService
  <2>4. {EdgeOf(i) : i \in InService}' = {EdgeOf(i) : i \in InService}
    BY <2>1, <2>2, <2>3 DEF InService
  <2> QED BY <1>1, <2>1, <2>4 DEF GraphIsExact
<1> QED BY <1>2, <1>3, RunSplits

\* What is in the graph is a need, and a walk up along needs that leads from a
\* package to one that needs it is a circle.
LEMMA RejectionIsCircular ==
  ASSUME RTypeOK, JobInv, GraphIsExact, NEW j \in Started, NEW x, RequestRejected(j, x)
  PROVE  Circular # {}
<1> DEFINE u == job[j].parent
           v == Self(j)
<1>1. u \in Packages /\ v \in Packages /\ v \in NeededBy(u)
  BY JobTypes DEF RequestRejected, Nested, JobInv, NeededBy
<1>2. edges \subseteq NeedsPairs
  <2> SUFFICES ASSUME NEW e \in edges
               PROVE  e \in NeedsPairs
    OBVIOUS
  <2>1. PICK i \in InService : e = <<job[i].parent, Self(i)>>
    BY DEF GraphIsExact, EdgeOf
  <2>2. job[i].parent \in Packages /\ Self(i) \in Packages /\ Needs(job[i].parent, Self(i))
    BY JobTypes DEF InService, Nested, JobInv
  <2> QED BY <2>1, <2>2 DEF NeedsPairs
<1>3. u = v \/ v \in Above(u)
  BY DEF RequestRejected, MayReject
<1>4. v \in NeedsOf(u) /\ NeededBy(u) \subseteq NeedsOf(u)
  BY <1>1, NeedsOfGrows
<1>5. CASE u = v
  BY <1>1, <1>4, <1>5, CircularAlt
<1>6. CASE v \in Above(u)
  <2>1. u \in NeedsOf(v)
    BY <1>1, <1>2, <1>6, AboveNeeds
  <2>2. v \in NeedsOf(v)
    BY <1>1, <1>4, <2>1, NeedsOfGrows
  <2> QED BY <1>1, <2>2, CircularAlt
<1> QED BY <1>3, <1>5, <1>6

LEMMA NoFalseCycleStep ==
  ASSUME RTypeOK, JobInv, LoadInv, GraphIsExact, NoFalseCycle, NEW j \in Started, RunJob(j)
  PROVE  NoFalseCycle'
<1> SUFFICES ASSUME NEW i \in Started', job'[i].answer = "cycle"
             PROVE  Circular # {}
  <2>1. world' = world
    BY AloneMoves, StartLoadMoves, RunSplits
  <2>2. Circular' = Circular
    BY <2>1, WorldStays
  <2> QED BY <2>2 DEF NoFalseCycle
<1>1. CASE Alone(j)
  <2>1. CASE i = j
    <3>1. job[j].answer = "cycle" \/ \E x \in Packages : RequestRejected(j, x)
      BY <1>1, <2>1, StepEffects DEF Alone, Becomes
    <3> QED BY <3>1, RejectionIsCircular DEF NoFalseCycle
  <2>2. CASE i # j
    BY <1>1, <2>2, AloneMoves DEF NoFalseCycle
  <2> QED BY <2>1, <2>2
<1>2. CASE StartLoad(j)
  <2>1. i \in Started /\ job[i].answer = "cycle"
    BY <1>2, StartLoadCases
  <2> QED BY <2>1 DEF NoFalseCycle
<1> QED BY <1>1, <1>2, RunSplits

-----------------------------------------------------------------------------
\* The inductive invariant

LEMMA RInitInv ==
  ASSUME RInit
  PROVE  RInv
<1>1. /\ world \in WorldType /\ world.roots \subseteq Packages
      /\ world.injects \in [Packages -> SUBSET Packages]
  BY ResolveAssumption DEF RInit, WorldType
<1>2. Started = {<< >>} \X world.roots
  BY DEF RInit, Started
<1>3. ASSUME NEW j \in Started
      PROVE  /\ j \in Jobs /\ Build(j) = << >> /\ Self(j) \in Packages
             /\ job[j] = [stage |-> "pending", parent |-> NoPackage, want |-> world.injects[Self(j)],
                          target |-> NoPackage, answer |-> "none"]
             /\ job[j] \in JobState
  <2>1. PICK p \in world.roots : j = <<<< >>, p>>
    BY <1>2
  <2>2. << >> \in [1..0 -> Packages] /\ 0 \in 0..MaxDepth
    BY ResolveAssumption
  <2>3. << >> \in Builds
    BY <2>2 DEF Builds
  <2>4. job[j] = [stage |-> "pending", parent |-> NoPackage, want |-> world.injects[p],
                  target |-> NoPackage, answer |-> "none"]
    BY <1>2, <2>1 DEF RInit, NewJob
  <2>5. Build(j) = << >> /\ Self(j) = p /\ p \in Packages /\ world.injects[p] \in SUBSET Packages
    BY <1>1, <2>1 DEF Build, Self
  <2>6. j \in Jobs
    BY <2>1, <2>3, <2>5 DEF Jobs
  <2> QED BY <2>4, <2>5, <2>6 DEF JobState, JobStages
<1>4. RTypeOK
  <2>1. job \in [Started -> JobState]
    BY <1>2, <1>3 DEF RInit
  <2> QED BY <1>3, <2>1 DEF RInit, RTypeOK
<1>5. \A j \in Started :
          /\ job[j].stage = "pending" /\ job[j].parent = NoPackage /\ job[j].answer = "none"
          /\ job[j].want = world.injects[Self(j)] /\ Build(j) = << >>
  <2> SUFFICES ASSUME NEW j \in Started
               PROVE  /\ job[j].stage = "pending" /\ job[j].parent = NoPackage
                      /\ job[j].answer = "none" /\ job[j].want = world.injects[Self(j)]
                      /\ Build(j) = << >>
    OBVIOUS
  <2>1. /\ Build(j) = << >>
        /\ job[j] = [stage |-> "pending", parent |-> NoPackage, want |-> world.injects[Self(j)],
                     target |-> NoPackage, answer |-> "none"]
    BY <1>3
  <2> QED BY <2>1
<1>6. JobInv
  BY <1>5 DEF JobInv, Nested
<1>7. LoadInv
  BY <1>5 DEF LoadInv
<1>8. ClaimInv
  BY <1>5 DEF RInit, ClaimInv, Working
<1>9. AvailableInv
  BY <1>5 DEF RInit, AvailableInv, Working
<1>10. GraphIsExact
  BY <1>5 DEF RInit, GraphIsExact, InService
<1>11. NoFalseCycle
  BY <1>5 DEF NoFalseCycle
<1> QED BY <1>4, <1>6, <1>7, <1>8, <1>9, <1>10, <1>11 DEF RInv

LEMMA RNextInv ==
  ASSUME RInv, RNext
  PROVE  RInv'
<1>1. PICK j \in Started : RunJob(j)
  BY DEF RNext
<1> QED BY <1>1, TypeStep, JobInvStep, LoadInvStep, ClaimInvStep, AvailableInvStep, GraphStep,
           NoFalseCycleStep DEF RInv

LEMMA RStutterInv ==
  ASSUME RInv, UNCHANGED rvars
  PROVE  RInv'
BY DEF RInv, rvars, RTypeOK, JobInv, LoadInv, ClaimInv, AvailableInv, GraphIsExact, NoFalseCycle,
       Started, Nested, Needs, Ended, LoadJobs, Working, Complete, Available, Circular, NeededBy,
       NeedsPairs, InService, EdgeOf, Build, Self, Reached

LEMMA RSpecInv == RSpec => []RInv
<1>1. RInit => RInv
  BY RInitInv
<1>2. RInv /\ [RNext]_rvars => RInv'
  BY RNextInv, RStutterInv
<1> QED BY <1>1, <1>2, PTL DEF RSpec

-----------------------------------------------------------------------------
\* The variables have their types, whatever the builds do.
THEOREM ResolveTypes == RSpec => []RTypeOK
<1>1. RInv => RTypeOK
  BY DEF RInv
<1> QED BY <1>1, RSpecInv, PTL

\* service.graph holds the edge of every nested request past AddEdge for as long as
\* it is in service, and no other: neither an early return nor an error leaks one.
THEOREM GraphIsTrue == RSpec => []GraphIsExact
<1>1. RInv => GraphIsExact
  BY DEF RInv
<1> QED BY <1>1, RSpecInv, PTL

\* AddEdge reports a cycle only where what aspects inject is circular, however many
\* nested builds share packages and edges at the same time.
THEOREM CyclesAreReal == RSpec => []NoFalseCycle
<1>1. RInv => NoFalseCycle
  BY DEF RInv
<1> QED BY <1>1, RSpecInv, PTL

\* A package that was compiled has all that weaving made it need, in whatever builds
\* that was compiled, and does not need itself.
THEOREM NothingIsMissing == RSpec => []CompiledIsComplete
<1>1. ASSUME RInv
      PROVE  CompiledIsComplete
  <2>1. AvailableInv /\ world.shared \subseteq Packages
    BY <1>1, WorldTypes DEF RInv
  <2> QED BY <2>1 DEF CompiledIsComplete, AvailableInv, Complete, NeededBy
<1> QED BY <1>1, RSpecInv, PTL

=============================================================================
