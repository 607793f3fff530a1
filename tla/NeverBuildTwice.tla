--------------------------- MODULE NeverBuildTwice ---------------------------
(***************************************************************************)
(* The never-build-twice service of the job server                         *)
(* (internal/jobserver/nbt/nbt.go).  common.HandleRequest runs every       *)
(* request in a goroutine of its own, so the handlers of concurrent        *)
(* requests interleave between any two accesses to the shared build state. *)
(*                                                                         *)
(* A caller has at most one request in flight (client.Request blocks);     *)
(* pc[c] is where the handler of that request stands.  The environment is  *)
(* open: any caller may send any StartRequest or FinishRequest, as the     *)
(* tests of the package do.  Toolexec.tla composes the service with the    *)
(* one client the repository has.                                          *)
(***************************************************************************)
EXTENDS FiniteSets

CONSTANTS
    Callers,      \* clients of the service
    Keys,         \* cache keys: import path and build ID
    Labels,       \* labels of the files a task produces (archive, asmhdr)
    Content,      \* contents of files, as far as the properties tell apart
    Absent,       \* a reported path where there is no file
    NoCaller,     \* no build was started for the key
    NoKey,        \* a request whose import path or build ID is blank
    BadToken,     \* a token the server never made
    Cancellable   \* whether the server's context may be cancelled

ASSUME ConstantsAssumption ==
    /\ NoCaller \notin Callers
    /\ NoKey \notin Keys
    /\ BadToken \notin Keys \cup {NoKey}
    /\ Absent \notin Content
    /\ Cancellable \in BOOLEAN

\* Files by label: those the service stores, and those a task reports.
FileMap == UNION {[S -> Content] : S \in SUBSET Labels}
ReportedFiles == UNION {[S -> Content \cup {Absent}] : S \in SUBSET Labels}
NoFiles == [l \in {} |-> l]
Put(f, l, v) == [x \in DOMAIN f \cup {l} |-> IF x = l THEN v ELSE f[x]]

\* The part of a FinishRequest that matters: its error, or its files.
Report(f) == [failed |-> FALSE, files |-> f]
ReportError == [failed |-> TRUE, files |-> NoFiles]
Reports == {ReportError} \cup {Report(f) : f \in ReportedFiles}

\* A response: a token, the files to re-use, an error, or an empty success.
Answer(kind, f) == [kind |-> kind, files |-> f]
NoAnswer == Answer("none", NoFiles)

Errors == {"none", "task", "nofiles", "mkdir", "copy"}
Steps == {"idle", "init", "initReused", "wait",
          "record", "copy", "close", "respond"}
Kinds == {"none", "token", "files", "failed", "cancelled", "ok", "rejected",
          "lost"}

VARIABLES
    \* the buildState of each key
    owner,      \* owner[k]: whose LoadOrStore stored the state of k
    inited,     \* keys whose initOnce ran: the token and done exist
    isDone,     \* keys whose isDone flag was swapped
    done,       \* keys whose done channel was closed by onDone
    files,      \* files[k]: what re-users will be given
    error,      \* error[k]: why the task of k failed
    report,     \* report[k]: the FinishRequest that won the swap
    todo,       \* todo[k]: labels of report[k] not copied yet
    \* one request handler per caller
    pc, key, reply,
    \* the server
    up,         \* not shut down
    cancelled   \* its context was cancelled

buildVars == <<owner, inited, isDone, done, files, error, report, todo>>
callVars == <<pc, key, reply>>
serverVars == <<up, cancelled>>
vars == <<buildVars, callVars, serverVars>>

Init ==
    /\ owner = [k \in Keys |-> NoCaller]
    /\ inited = {} /\ isDone = {} /\ done = {}
    /\ files = [k \in Keys |-> NoFiles]
    /\ error = [k \in Keys |-> "none"]
    /\ report = [k \in Keys |-> ReportError]
    /\ todo = [k \in Keys |-> {}]
    /\ pc = [c \in Callers |-> "idle"]
    /\ key = [c \in Callers |-> NoKey]
    /\ reply = [c \in Callers |-> NoAnswer]
    /\ up = TRUE
    /\ cancelled = FALSE

-----------------------------------------------------------------------------
\* Mutant: Load, then Store: a state counts once it was initialised.
StoredOnceInited(k) == k \in inited

Stored(k) == owner[k] # NoCaller

\* The token is a fresh UUID made by initOnce: it identifies the key, and is
\* the empty string until then.
TokenOf(k) == IF k \in inited THEN k ELSE NoKey

\* Mutant: waiters poll the isDone flag.
DoneOnceSwapped(k) == k \in isDone \/ cancelled

\* <-state.done returns: onDone ran, or the context it derives from ended.
DoneClosed(k) == k \in done \/ cancelled

Goto(c, step) == pc' = [pc EXCEPT ![c] = step] /\ UNCHANGED reply

Call(c, k, step) ==
    /\ pc[c] = "idle"
    /\ up
    /\ key' = [key EXCEPT ![c] = k]
    /\ pc' = [pc EXCEPT ![c] = step]
    /\ reply' = [reply EXCEPT ![c] = NoAnswer]

Respond(c, ans) ==
    /\ pc' = [pc EXCEPT ![c] = "idle"]
    /\ reply' = [reply EXCEPT ![c] = ans]
    /\ UNCHANGED key

\* A request the handler turns down before it touches the build state.
Reject(c, k) ==
    /\ pc[c] = "idle"
    /\ up
    /\ key' = [key EXCEPT ![c] = k]
    /\ reply' = [reply EXCEPT ![c] = Answer("rejected", NoFiles)]
    /\ UNCHANGED <<pc, buildVars, serverVars>>

-----------------------------------------------------------------------------
\* service.start

\* LoadOrStore stored a new buildState: this is the original task.
StartOriginal(c, k) ==
    /\ ~Stored(k)
    /\ owner' = [owner EXCEPT ![k] = c]
    /\ Call(c, k, "init")
    /\ UNCHANGED <<inited, isDone, done, files, error, report, todo, serverVars>>

\* LoadOrStore loaded the buildState of an earlier request.
StartReused(c, k) ==
    /\ Stored(k)
    /\ Call(c, k, "initReused")
    /\ UNCHANGED <<buildVars, serverVars>>

Start(c, k) ==
    \/ k = NoKey /\ Reject(c, k)
    \/ k \in Keys /\ StartOriginal(c, k)
    \/ k \in Keys /\ StartReused(c, k)

\* initOnce.Do, then the original is handed its token and a re-user goes on
\* to wait.  Whichever handler comes first initialises the state.
InitBuild(c) ==
    /\ up
    /\ inited' = inited \cup {key[c]}
    /\ \/ /\ pc[c] = "init"
          /\ Respond(c, Answer("token", NoFiles))
       \/ /\ pc[c] = "initReused"
          /\ Goto(c, "wait")
          /\ UNCHANGED key
    /\ UNCHANGED <<owner, isDone, done, files, error, report, todo, serverVars>>

\* What a re-user reads once done is closed.
ReusedAnswer(k) ==
    IF error[k] # "none" THEN Answer("failed", NoFiles)
    ELSE IF files[k] = NoFiles THEN Answer("cancelled", NoFiles)
    ELSE Answer("files", files[k])

AwaitDone(c) ==
    /\ pc[c] = "wait"
    /\ up
    /\ DoneClosed(key[c])
    /\ Respond(c, ReusedAnswer(key[c]))
    /\ UNCHANGED <<buildVars, serverVars>>

-----------------------------------------------------------------------------
\* service.finish

\* Blank import path, build ID or token; no build started; another token.
FinishRejected(c, k, token) ==
    /\ \/ k = NoKey
       \/ token = NoKey
       \/ k \in Keys /\ ~Stored(k)
       \/ k \in Keys /\ token # TokenOf(k)
    /\ Reject(c, k)

\* CompareAndSwap fails: the task was already completed.
FinishAgain(c, k, token) ==
    /\ k \in Keys /\ Stored(k) /\ k \in inited /\ token = k
    /\ k \in isDone
    /\ pc[c] = "idle"
    /\ up
    /\ key' = [key EXCEPT ![c] = k]
    /\ reply' = [reply EXCEPT ![c] = Answer("ok", NoFiles)]
    /\ UNCHANGED <<pc, buildVars, serverVars>>

\* Mutant: the flag is cleared by onDone, and swapped again.
FinishOnceMore(c, k, token, r) ==
    /\ k \in Keys /\ Stored(k) /\ k \in inited /\ token = k
    /\ k \in isDone => k \in done
    /\ isDone' = isDone \cup {k}
    /\ report' = [report EXCEPT ![k] = r]
    /\ Call(c, k, "record")
    /\ UNCHANGED <<owner, inited, done, files, error, todo, serverVars>>

\* CompareAndSwap succeeds: this request decides the outcome.
FinishFirst(c, k, token, r) ==
    /\ k \in Keys /\ Stored(k) /\ k \in inited /\ token = k
    /\ k \notin isDone
    /\ isDone' = isDone \cup {k}
    /\ report' = [report EXCEPT ![k] = r]
    /\ Call(c, k, "record")
    /\ UNCHANGED <<owner, inited, done, files, error, todo, serverVars>>

Finish(c, k, token, r) ==
    \/ FinishRejected(c, k, token)
    \/ FinishAgain(c, k, token)
    \/ FinishFirst(c, k, token, r)

\* Mutant: the files copied so far stay.
AbandonKeepingFiles(c, why) ==
    /\ error' = [error EXCEPT ![key[c]] = why]
    /\ Goto(c, "close")
    /\ UNCHANGED <<owner, inited, isDone, done, files, report, todo, key,
                   serverVars>>

\* Gives up on the task of the caller's key: what was copied is dropped.
Abandon(c, why) ==
    /\ error' = [error EXCEPT ![key[c]] = why]
    /\ files' = [files EXCEPT ![key[c]] = NoFiles]
    /\ Goto(c, "close")
    /\ UNCHANGED <<owner, inited, isDone, done, report, todo, key, serverVars>>

\* req.Error != nil
RecordFailure(c) ==
    /\ pc[c] = "record" /\ up
    /\ report[key[c]].failed
    /\ Abandon(c, "task")

\* Mutant: a FinishRequest without files nor error is let through.
RecordNothingSilently(c) ==
    /\ pc[c] = "record" /\ up
    /\ ~report[key[c]].failed
    /\ report[key[c]].files = NoFiles
    /\ Goto(c, "close")
    /\ UNCHANGED <<buildVars, key, serverVars>>

\* errNoFilesNorError
RecordNothing(c) ==
    /\ pc[c] = "record" /\ up
    /\ ~report[key[c]].failed
    /\ report[key[c]].files = NoFiles
    /\ Abandon(c, "nofiles")

\* Mutant: onDone is called when the copying starts.
MakeDirThenDone(c) ==
    /\ pc[c] = "record" /\ up
    /\ ~report[key[c]].failed
    /\ report[key[c]].files # NoFiles
    /\ todo' = [todo EXCEPT ![key[c]] = DOMAIN report[key[c]].files]
    /\ done' = done \cup {key[c]}
    /\ Goto(c, "copy")
    /\ UNCHANGED <<owner, inited, isDone, files, error, report, key, serverVars>>

MakeDir(c) ==
    /\ pc[c] = "record" /\ up
    /\ ~report[key[c]].failed
    /\ report[key[c]].files # NoFiles
    /\ todo' = [todo EXCEPT ![key[c]] = DOMAIN report[key[c]].files]
    /\ Goto(c, "copy")
    /\ UNCHANGED <<owner, inited, isDone, done, files, error, report, key,
                   serverVars>>

MakeDirFails(c) ==
    /\ pc[c] = "record" /\ up
    /\ ~report[key[c]].failed
    /\ report[key[c]].files # NoFiles
    /\ Abandon(c, "mkdir")

\* One iteration of the copying loop, over a map: in any order.
CopyFile(c, l) ==
    /\ pc[c] = "copy" /\ up
    /\ l \in todo[key[c]]
    /\ report[key[c]].files[l] # Absent
    /\ files' = [files EXCEPT ![key[c]] = Put(@, l, report[key[c]].files[l])]
    /\ todo' = [todo EXCEPT ![key[c]] = @ \ {l}]
    /\ Goto(c, IF todo'[key[c]] = {} THEN "close" ELSE "copy")
    /\ UNCHANGED <<owner, inited, isDone, done, error, report, key, serverVars>>

CopyFileFails(c) ==
    /\ pc[c] = "copy" /\ up
    /\ Abandon(c, "copy")

\* Mutant: onDone is not deferred, and skipped by the error returns.
CloseDoneOnSuccess(c) ==
    /\ pc[c] = "close" /\ up
    /\ done' = IF error[key[c]] = "none" THEN done \cup {key[c]} ELSE done
    /\ Goto(c, "respond")
    /\ UNCHANGED <<owner, inited, isDone, files, error, report, todo, key,
                   serverVars>>

\* The deferred onDone runs before the response leaves.
CloseDone(c) ==
    /\ pc[c] = "close" /\ up
    /\ done' = done \cup {key[c]}
    /\ Goto(c, "respond")
    /\ UNCHANGED <<owner, inited, isDone, files, error, report, todo, key,
                   serverVars>>

\* An error the service itself ran into is returned; a reported one is not.
FinishAnswer(k) ==
    Answer(IF error[k] \in {"none", "task"} THEN "ok" ELSE "rejected", NoFiles)

FinishResponds(c) ==
    /\ pc[c] = "respond" /\ up
    /\ Respond(c, FinishAnswer(key[c]))
    /\ UNCHANGED <<buildVars, serverVars>>

-----------------------------------------------------------------------------
\* The server

\* The context given to Subscribe ends: every state.done closes with it.
CancelContext ==
    /\ Cancellable
    /\ up /\ ~cancelled
    /\ cancelled' = TRUE
    /\ UNCHANGED <<up, buildVars, callVars>>

\* Server.Shutdown: no response leaves any more, and the storage goes.
Shutdown ==
    /\ up
    /\ up' = FALSE
    /\ UNCHANGED <<cancelled, buildVars, callVars>>

\* The caller's connection closes under its pending request.
ConnectionLost(c) ==
    /\ ~up
    /\ pc[c] # "idle"
    /\ Respond(c, Answer("lost", NoFiles))
    /\ UNCHANGED <<buildVars, serverVars>>

-----------------------------------------------------------------------------
\* The steps of the request handlers, which the Go scheduler runs.
Handle(c) ==
    \/ InitBuild(c)
    \/ AwaitDone(c)
    \/ RecordFailure(c)
    \/ RecordNothing(c)
    \/ MakeDir(c)
    \/ MakeDirFails(c)
    \/ \E l \in Labels : CopyFile(c, l)
    \/ CopyFileFails(c)
    \/ CloseDone(c)
    \/ FinishResponds(c)
    \/ ConnectionLost(c)

Request(c) ==
    \/ \E k \in Keys \cup {NoKey} : Start(c, k)
    \/ \E k \in Keys \cup {NoKey}, token \in Keys \cup {NoKey, BadToken},
           r \in Reports : Finish(c, k, token, r)

Next ==
    \/ \E c \in Callers : Request(c) \/ Handle(c)
    \/ CancelContext
    \/ Shutdown

Spec == Init /\ [][Next]_vars

-----------------------------------------------------------------------------
TypeOK ==
    /\ owner \in [Keys -> Callers \cup {NoCaller}]
    /\ inited \subseteq Keys
    /\ isDone \subseteq Keys
    /\ done \subseteq Keys
    /\ files \in [Keys -> FileMap]
    /\ error \in [Keys -> Errors]
    /\ report \in [Keys -> Reports]
    /\ todo \in [Keys -> SUBSET Labels]
    /\ pc \in [Callers -> Steps]
    /\ key \in [Callers -> Keys \cup {NoKey}]
    /\ reply \in [Callers -> [kind : Kinds, files : FileMap]]
    /\ up \in BOOLEAN
    /\ cancelled \in BOOLEAN

\* Never build twice: of all callers that asked for a key, at most one was
\* handed a finish token, however their LoadOrStore calls interleave.
OneTokenPerKey ==
    \A c, d \in Callers :
        /\ reply[c].kind = "token"
        /\ reply[d].kind = "token"
        /\ key[c] = key[d]
        => c = d

\* How the task of k ended.
Settled(k) ==
    \/ /\ error[k] = "none"
       /\ ~report[k].failed
       /\ files[k] = report[k].files
       /\ files[k] # NoFiles
    \/ /\ error[k] # "none"
       /\ files[k] = NoFiles

\* Once waiters are let go, the task either left every file it reported, or
\* left an error and no file: never part of the files, and never neither.
AllOrNothing == \A k \in done : Settled(k)

\* A re-user is given exactly the files reported by the FinishRequest that won
\* the swap, and only after that request was processed completely.
ReuseAgrees ==
    \A c \in Callers :
        reply[c].kind = "files" /\ ~cancelled =>
            /\ key[c] \in done
            /\ error[key[c]] = "none"
            /\ reply[c].files = report[key[c]].files

\* A re-user is told context.Canceled only if the server's context ended:
\* the empty file set is never mistaken for a finished task.
NoSpuriousCancel ==
    \A c \in Callers : reply[c].kind = "cancelled" => cancelled

\* No later request, with the same token or another, changes what was
\* published for a key.
PublishedIsFinal ==
    [][\A k \in done : files'[k] = files[k] /\ error'[k] = error[k]]_vars

-----------------------------------------------------------------------------
\* The inductive invariant behind these properties.
Finishing == {"record", "copy", "close", "respond"}

\* The part of f on S.
Part(f, S) == [x \in S |-> f[x]]

\* The life of a key: stored, initialised, swapped, closed, in this order.
KeyOrder ==
    /\ \A k \in inited : Stored(k)
    /\ isDone \subseteq inited
    /\ done \subseteq isDone

\* What a handler under way may rely on.
HandlerInv ==
    \A c \in Callers : pc[c] # "idle" =>
        /\ key[c] \in Keys /\ Stored(key[c])
        /\ reply[c] = NoAnswer
        /\ pc[c] = "init" => owner[key[c]] = c
        /\ pc[c] = "wait" => key[c] \in inited
        /\ pc[c] \in Finishing => key[c] \in isDone
        /\ pc[c] \in Finishing \ {"respond"} => key[c] \notin done

\* The swap lets one handler per key in.
OneFinisher ==
    \A c, d \in Callers :
        /\ pc[c] \in Finishing \ {"respond"}
        /\ pc[d] \in Finishing \ {"respond"}
        /\ key[c] = key[d]
        => c = d

\* The progress of the handler that was let in.
FinishInv ==
    \A c \in Callers :
        LET k == key[c] IN
        /\ pc[c] = "record" => files[k] = NoFiles /\ error[k] = "none"
        /\ pc[c] = "copy" =>
              /\ ~report[k].failed
              /\ report[k].files # NoFiles
              /\ error[k] = "none"
              /\ todo[k] \subseteq DOMAIN report[k].files
              /\ todo[k] # {}
              /\ files[k] =
                    Part(report[k].files, DOMAIN report[k].files \ todo[k])
        /\ pc[c] = "close" => Settled(k)

KeyInv ==
    /\ \A k \in Keys \ isDone : files[k] = NoFiles /\ error[k] = "none"
    /\ \A k \in done : Settled(k)

\* What the last answer to each caller says about the key it asked for.
AnswerInv ==
    \A c \in Callers :
        /\ reply[c].kind = "token" => key[c] \in Keys /\ owner[key[c]] = c
        /\ reply[c].kind = "files" /\ ~cancelled =>
              /\ key[c] \in done
              /\ error[key[c]] = "none"
              /\ reply[c].files = files[key[c]]
        /\ reply[c].kind = "failed" =>
              /\ reply[c].files = NoFiles
              /\ ~cancelled => key[c] \in done /\ error[key[c]] # "none"
        /\ reply[c].kind = "cancelled" => cancelled

IInv ==
    /\ TypeOK
    /\ KeyOrder
    /\ HandlerInv
    /\ OneFinisher
    /\ FinishInv
    /\ KeyInv
    /\ AnswerInv

-----------------------------------------------------------------------------
\* Refinement: a key's outcome is published when its done channel closes, and
\* callers are told about it by the answers to their StartRequests.  Nothing is
\* promised of what they are told once the server's context is cancelled.
OutcomeOf(k) ==
    IF k \notin done THEN [status |-> "pending", files |-> NoFiles]
    ELSE IF error[k] # "none" THEN [status |-> "failed", files |-> NoFiles]
    ELSE [status |-> "built", files |-> files[k]]

ToldTo(c) ==
    IF cancelled \/ reply[c].kind \notin {"files", "failed"}
    THEN [key |-> NoKey, outcome |-> [status |-> "pending", files |-> NoFiles]]
    ELSE [key |-> key[c],
          outcome |->
            [status |-> IF reply[c].kind = "files" THEN "built" ELSE "failed",
             files |-> reply[c].files]]

BO == INSTANCE BuildOnce WITH
    FileSets <- FileMap,
    outcome <- [k \in Keys |-> OutcomeOf(k)],
    told <- [c \in Callers |-> ToldTo(c)]

\* However requests interleave, the service implements BuildOnce: one claim,
\* one published outcome, and nobody told anything else.
ImplementsBuildOnce == BO!Spec


=============================================================================
