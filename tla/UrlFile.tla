------------------------------- MODULE UrlFile -------------------------------
(***************************************************************************)
(* How the processes of one build agree on a job server                    *)
(* (internal/cmd/server.go, internal/jobserver/client/env.go and           *)
(* internal/filelock, on POSIX).  Every process that needs a server spawns *)
(* `orchestrion server -url-file=F` and polls F for a URL.  The spawned    *)
(* processes use advisory locks on F so that one of them serves and the    *)
(* others exit.  Locks and file descriptors belong to an inode, and F may  *)
(* be removed and created again: path is the inode F names now.            *)
(***************************************************************************)
EXTENDS Naturals, FiniteSets

CONSTANTS
    Procs,  \* processes; p also names the server process that p spawns
    Blank   \* the content of a new file

ASSUME UrlFileAssumption == IsFiniteSet(Procs) /\ Blank \notin Procs

\* Enough for every use there can be at once: a number is used again when nobody
\* has the inode open, watches it or serves from it.
Inodes == 1..(3 * Cardinality(Procs) + 1)
NoInode == 0

VARIABLES
    path,     \* the inode of the URL file, if it exists
    content,  \* content[i]: the server whose URL is in inode i
    sstage,   \* sstage[s]: where the server process s stands
    file,     \* file[s]: the inode s opened
    lock,     \* lock[s]: the lock that s holds on it
    watch,    \* watch[s]: the inode whose removal shuts s down
    up,       \* servers that accept connections
    cstage,   \* cstage[c]: where the client c stands
    cfile,    \* cfile[c]: the inode c has open
    server    \* server[c]: the server c is connected to

fileVars == <<path, content>>
serverVars == <<sstage, file, lock, watch, up>>
clientVars == <<cstage, cfile, server>>
uvars == <<fileVars, serverVars, clientVars>>

ServerStages == {"off", "open", "rlock", "check", "lock", "recheck", "start",
                 "publish", "release", "watch", "serve", "remove", "cancel",
                 "exited", "crashed", "killed"}
ClientStages == {"new", "open", "rlock", "read", "wait",
                 "connected", "failed", "done"}

UInit ==
    /\ path = NoInode
    /\ content = [i \in Inodes |-> Blank]
    /\ sstage = [s \in Procs |-> "off"]
    /\ file = [s \in Procs |-> NoInode]
    /\ lock = [s \in Procs |-> "none"]
    /\ watch = [s \in Procs |-> NoInode]
    /\ up = {}
    /\ cstage = [c \in Procs |-> "new"]
    /\ cfile = [c \in Procs |-> NoInode]
    /\ server = [c \in Procs |-> Blank]

-----------------------------------------------------------------------------
\* Mutex.open: O_CREATE, without O_TRUNC.
Used == {path} \cup {file[s] : s \in Procs} \cup {watch[s] : s \in Procs}
               \cup {cfile[c] : c \in Procs}
OpenFile(i) ==
    IF path # NoInode THEN i = path /\ UNCHANGED fileVars
    ELSE /\ i \notin Used /\ \A j \in Inodes \ Used : i <= j
         /\ path' = i
         /\ content' = [content EXCEPT ![i] = Blank]

Remove == path' = NoInode /\ UNCHANGED content

\* flock(2): LOCK_SH and LOCK_EX on inode i.
ReadLockable(i) ==
    \A s \in Procs : file[s] = i => lock[s] # "exclusive"
WriteLockable(i) ==
    /\ \A s \in Procs : file[s] = i => lock[s] = "none"
    /\ \A c \in Procs : cfile[c] = i => cstage[c] # "read"

\* client.Connect succeeds at the URL in inode i.
Listening(i) == content[i] \in up

-----------------------------------------------------------------------------
\* startWithURLFile, in the process s.
SStep(s, from, to) == sstage[s] = from /\ sstage' = [sstage EXCEPT ![s] = to]
Hold(s, mode) == lock' = [lock EXCEPT ![s] = mode]

\* The process is gone, and with it its listener, locks and descriptors.
End(s, how) ==
    /\ sstage' = [sstage EXCEPT ![s] = how]
    /\ file' = [file EXCEPT ![s] = NoInode]
    /\ Hold(s, "none")
    /\ watch' = [watch EXCEPT ![s] = NoInode]
    /\ up' = up \ {s}

Open(s, i) ==
    /\ SStep(s, "open", "rlock")
    /\ OpenFile(i)
    /\ file' = [file EXCEPT ![s] = i]
    /\ UNCHANGED <<lock, watch, up, clientVars>>

RLock(s) ==
    /\ SStep(s, "rlock", "check")
    /\ ReadLockable(file[s])
    /\ Hold(s, "shared")
    /\ UNCHANGED <<fileVars, file, watch, up, clientVars>>

\* "A server is already listening": the process exits with status 0.
AlreadyListening(s) ==
    /\ sstage[s] \in {"check", "recheck"}
    /\ Listening(file[s])
    /\ End(s, "exited")
    /\ UNCHANGED <<fileVars, clientVars>>

\* No server: flock drops the shared lock, then waits for the exclusive one.
Upgrade(s) ==
    /\ SStep(s, "check", "lock")
    /\ ~Listening(file[s])
    /\ Hold(s, "none")
    /\ UNCHANGED <<fileVars, file, watch, up, clientVars>>

Lock(s) ==
    /\ SStep(s, "lock", "recheck")
    /\ WriteLockable(file[s])
    /\ Hold(s, "exclusive")
    /\ UNCHANGED <<fileVars, file, watch, up, clientVars>>

\* Locking, reading or opening the file fails: logged, and status 0.
GiveUp(s) ==
    /\ sstage[s] \in {"open", "rlock", "check", "lock", "recheck"}
    /\ End(s, "exited")
    /\ UNCHANGED <<fileVars, clientVars>>

\* Mutant: the check is not made again.
RecheckSkipped(s) ==
    /\ SStep(s, "recheck", "start")
    /\ UNCHANGED <<fileVars, file, lock, watch, up, clientVars>>

\* The check is made again under the exclusive lock.
Recheck(s) ==
    /\ SStep(s, "recheck", "start")
    /\ ~Listening(file[s])
    /\ UNCHANGED <<fileVars, file, lock, watch, up, clientVars>>

StartServer(s) ==
    /\ SStep(s, "start", "publish")
    /\ up' = up \cup {s}
    /\ UNCHANGED <<fileVars, file, lock, watch, clientVars>>

StartFails(s) ==
    /\ SStep(s, "start", "remove")
    /\ UNCHANGED <<fileVars, file, lock, watch, up, clientVars>>

Publish(s) ==
    /\ SStep(s, "publish", "release")
    /\ content' = [content EXCEPT ![file[s]] = s]
    /\ UNCHANGED <<path, file, lock, watch, up, clientVars>>

PublishFails(s) ==
    /\ SStep(s, "publish", "remove")
    /\ UNCHANGED <<fileVars, file, lock, watch, up, clientVars>>

\* Mutant: the lock is kept for as long as the server runs.
ReleaseNothing(s) ==
    /\ SStep(s, "release", "watch")
    /\ UNCHANGED <<fileVars, file, lock, watch, up, clientVars>>

Release(s) ==
    /\ SStep(s, "release", "watch")
    /\ Hold(s, "none")
    /\ UNCHANGED <<fileVars, file, watch, up, clientVars>>

ReleaseFails(s) ==
    /\ SStep(s, "release", "remove")
    /\ up' = up \ {s}
    /\ UNCHANGED <<fileVars, file, lock, watch, clientVars>>

\* The watcher is set on the file that has the path by now, if there is one and
\* if it can be.
Watch(s) ==
    /\ SStep(s, "watch", "serve")
    /\ \E i \in {path, NoInode} : watch' = [watch EXCEPT ![s] = i]
    /\ UNCHANGED <<fileVars, file, lock, up, clientVars>>

ShutdownOnRemove(s) ==
    /\ sstage[s] = "serve" /\ s \in up
    /\ watch[s] \notin {NoInode, path}
    /\ up' = up \ {s}
    /\ UNCHANGED <<fileVars, sstage, file, lock, watch, clientVars>>

\* The inactivity timeout (JobServer.tla), a minute at the least.
ShutdownOnIdle(s) ==
    /\ sstage[s] = "serve" /\ s \in up
    /\ ~\E c \in Procs : cstage[c] = "connected" /\ server[c] = s
    /\ up' = up \ {s}
    /\ UNCHANGED <<fileVars, sstage, file, lock, watch, clientVars>>

\* WaitForShutdown returns, and the deferred calls run.
Stopped(s) ==
    /\ s \notin up
    /\ SStep(s, "serve", "remove")
    /\ watch' = [watch EXCEPT ![s] = NoInode]
    /\ UNCHANGED <<fileVars, file, lock, up, clientVars>>

RemoveFile(s) ==
    /\ SStep(s, "remove", "cancel")
    /\ Remove
    /\ UNCHANGED <<file, lock, watch, up, clientVars>>

(***************************************************************************)
(* cancelDeleteOnInterrupt closes the channel of the interrupt handler,    *)
(* which takes this for an interrupt: unless the process ends first, it    *)
(* removes the file once more, and closing the channel again panics.       *)
(***************************************************************************)
CancelDelete(s) ==
    /\ sstage[s] = "cancel"
    /\ \/ End(s, "exited") /\ UNCHANGED fileVars
       \/ End(s, "exited") /\ Remove
       \/ End(s, "crashed") /\ Remove
    /\ UNCHANGED clientVars

\* The process is killed.  An interrupt ends it too, through the handler of the
\* NATS server: deleteOnInterrupt returns without removing the file.
Kill(s) ==
    /\ sstage[s] \notin {"off", "exited", "crashed", "killed"}
    /\ End(s, "killed")
    /\ UNCHANGED <<fileVars, clientVars>>

ServerStep(s) ==
    \/ \E i \in Inodes : Open(s, i)
    \/ RLock(s) \/ AlreadyListening(s) \/ Upgrade(s) \/ Lock(s)
    \/ Recheck(s) \/ StartServer(s) \/ StartFails(s)
    \/ Publish(s) \/ PublishFails(s) \/ Release(s) \/ ReleaseFails(s)
    \/ Watch(s) \/ ShutdownOnRemove(s) \/ Stopped(s)
    \/ RemoveFile(s) \/ CancelDelete(s)

-----------------------------------------------------------------------------
\* FromEnvironment, in the process c.
CStep(c, from, to) == cstage[c] = from /\ cstage' = [cstage EXCEPT ![c] = to]
Close(c) == cfile' = [cfile EXCEPT ![c] = NoInode]

Spawn(c) ==
    /\ CStep(c, "new", "open")
    /\ SStep(c, "off", "open")
    /\ UNCHANGED <<fileVars, file, lock, watch, up, cfile, server>>

\* clientFromURLFile opens the file, which creates it if need be ...
OpenURLFile(c, i) ==
    /\ CStep(c, "open", "rlock")
    /\ OpenFile(i)
    /\ cfile' = [cfile EXCEPT ![c] = i]
    /\ UNCHANGED <<serverVars, server>>

\* ... waits for a read lock, for as long as it takes ...
RLockURLFile(c) ==
    /\ CStep(c, "rlock", "read")
    /\ ReadLockable(cfile[c])
    /\ UNCHANGED <<fileVars, serverVars, cfile, server>>

\* ... and connects, or tries again later.
BlankURLFile(c) ==
    /\ CStep(c, "read", "wait")
    /\ content[cfile[c]] = Blank
    /\ Close(c)
    /\ UNCHANGED <<fileVars, serverVars, server>>

\* An error of the file, likewise.
URLFileFails(c) ==
    /\ cstage[c] \in {"open", "rlock", "read"}
    /\ cstage' = [cstage EXCEPT ![c] = "wait"]
    /\ Close(c)
    /\ UNCHANGED <<fileVars, serverVars, server>>

ConnectToServer(c) ==
    /\ CStep(c, "read", "connected")
    /\ Listening(cfile[c])
    /\ Close(c)
    /\ server' = [server EXCEPT ![c] = content[cfile[c]]]
    /\ UNCHANGED <<fileVars, serverVars>>

\* The client gives up, and kills the server process it spawned.
Fail(c) ==
    /\ cstage' = [cstage EXCEPT ![c] = "failed"]
    /\ Close(c)
    /\ IF sstage[c] \in {"exited", "crashed", "killed"}
       THEN UNCHANGED <<sstage, file, lock, watch, up>>
       ELSE End(c, "killed")
    /\ UNCHANGED <<fileVars, server>>

ConnectFails(c) ==
    /\ cstage[c] = "read"
    /\ content[cfile[c]] # Blank
    /\ ~Listening(cfile[c])
    /\ Fail(c)

\* After the retry delay, or when the spawned process exits with status 0.
Retry(c) ==
    /\ CStep(c, "wait", "open")
    /\ UNCHANGED <<fileVars, serverVars, cfile, server>>

SpawnedFailed(c) ==
    /\ cstage[c] = "wait"
    /\ sstage[c] \in {"crashed", "killed"}
    /\ Fail(c)

Timeout(c) ==
    /\ cstage[c] = "wait"
    /\ Fail(c)

\* The client's process ends, and its connection with it.
Done(c) ==
    /\ CStep(c, "connected", "done")
    /\ UNCHANGED <<fileVars, serverVars, cfile, server>>

ClientStep(c) ==
    \/ \E i \in Inodes : OpenURLFile(c, i)
    \/ RLockURLFile(c) \/ BlankURLFile(c)
    \/ ConnectToServer(c) \/ ConnectFails(c) \/ Retry(c) \/ SpawnedFailed(c)

UNext ==
    \E p \in Procs :
        \/ Spawn(p) \/ ClientStep(p) \/ URLFileFails(p) \/ Timeout(p) \/ Done(p)
        \/ ServerStep(p) \/ GiveUp(p) \/ ShutdownOnIdle(p) \/ Kill(p)

USpec == UInit /\ [][UNext]_uvars

\* Processes are scheduled, and nobody may count on an operation of the file
\* system failing where it would otherwise wait for a lock.  The timeout runs over all rounds of the polling
\* loop, each of which comes to look at it: strong fairness.
UFairSpec ==
    /\ USpec
    /\ \A p \in Procs :
          WF_uvars(ServerStep(p)) /\ WF_uvars(ClientStep(p)) /\ SF_uvars(Timeout(p))

-----------------------------------------------------------------------------
UTypeOK ==
    /\ path \in Inodes \cup {NoInode}
    /\ content \in [Inodes -> Procs \cup {Blank}]
    /\ sstage \in [Procs -> ServerStages]
    /\ file \in [Procs -> Inodes \cup {NoInode}]
    /\ lock \in [Procs -> {"none", "shared", "exclusive"}]
    /\ watch \in [Procs -> Inodes \cup {NoInode}]
    /\ up \subseteq Procs
    /\ cstage \in [Procs -> ClientStages]
    /\ cfile \in [Procs -> Inodes \cup {NoInode}]
    /\ server \in [Procs -> Procs \cup {Blank}]
    /\ \A c \in Procs : cstage[c] = "connected" => server[c] \in Procs

\* However many processes start at once, and whatever stale URL a killed server
\* left behind, no two live servers come from the same URL file: the second
\* check, under the exclusive lock, sees the server of whoever was faster.
OneServerPerFile ==
    \A s, t \in up : file[s] = file[t] => s = t

\* What the proof is by induction on: where locks are held ...
Gone(s) == sstage[s] \in {"exited", "crashed", "killed"}
Owning == {"recheck", "start", "publish", "release"}
LockInv ==
    \A s \in Procs :
        /\ file[s] = NoInode => sstage[s] \in {"off", "open"} \/ Gone(s)
        /\ sstage[s] \in {"off", "open"} => lock[s] = "none"
        /\ sstage[s] \in Owning => lock[s] = "exclusive"
        /\ lock[s] = "exclusive" =>
              /\ file[s] # NoInode
              /\ \A t \in Procs \ {s} : file[t] = file[s] => lock[t] = "none"

\* ... that a server that is up has its file locked or has its URL in it ...
UpInv ==
    \A s \in up :
        /\ file[s] # NoInode
        /\ sstage[s] \in {"publish", "release", "watch", "serve",
                         "remove", "cancel"}
        /\ \/ content[file[s]] = s
           \/ sstage[s] # "release" /\ lock[s] = "exclusive"

\* ... that a URL in a file is that of its last owner, who opened no other ...
ContentInv ==
    \A i \in Inodes, s \in Procs :
        content[i] = s /\ ~Gone(s) =>
            /\ file[s] = i
            /\ sstage[s] \in {"release", "watch", "serve", "remove", "cancel"}

\* ... and that whoever has the lock and serves, or is about to, saw no other.
StartInv ==
    \A s \in Procs :
        \/ sstage[s] \in {"start", "publish"}
        \/ s \in up /\ lock[s] = "exclusive"
        => content[file[s]] \notin up \ {s}

UInv == UTypeOK /\ LockInv /\ UpInv /\ ContentInv /\ StartInv

\* A client that asked for a server gets one or an error: nobody keeps the file
\* locked for good, and the polling loop ends.
ClientsEnd ==
    \A c \in Procs :
        cstage[c] \in {"open", "rlock", "read", "wait"} ~>
            cstage[c] \in {"connected", "failed", "done"}

\* server.go: a process removes the URL file because it "owns" it: the URL of
\* another process that serves is not removed with it.
OwnFileOnly ==
    [][path # NoInode /\ path' = NoInode => content[path] \notin up]_uvars
=============================================================================
