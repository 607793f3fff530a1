------------------------------ MODULE Toolexec ------------------------------
(***************************************************************************)
(* `orchestrion toolexec compile ...` processes sharing one job server:    *)
(* the life of each process (internal/cmd/toolexec.go and the compile      *)
(* command of internal/toolexec/proxy/compile.go) composed with the        *)
(* never-build-twice service.  Go runs these processes concurrently, they  *)
(* fail at any step, and they may be killed.                               *)
(***************************************************************************)
EXTENDS NeverBuildTwice

CONSTANTS
    KeyOf,     \* KeyOf[p]: import path and build ID that p compiles
    Outputs,   \* Outputs[p]: the files asked from p (-o, -asmhdr)
    Tracked,   \* processes given an -importcfg: the others skip the server
    Archive    \* the label of the -o file

Procs == Callers

\* A file on disk: who compiled it, and whether link.deps was appended.
Artifact == [by : Procs, linkdeps : BOOLEAN]

ASSUME ToolexecAssumption ==
    /\ KeyOf \in [Procs -> Keys]
    /\ Outputs \in [Procs -> SUBSET Labels]
    /\ Tracked \subseteq Procs
    /\ Archive \in Labels
    /\ Content = Artifact

VARIABLES
    stage,     \* stage[p]: where p stands
    result,    \* result[p]: resErr of the command's action
    out,       \* out[p]: output files of p that exist
    compiled   \* processes that ran the Go compiler

procVars == <<stage, result, out, compiled>>
tvars == <<vars, procVars>>

Stages == {"parse", "starting", "imports", "reuse", "weave", "close",
           "notify", "finishing", "exited", "killed"}

TInit ==
    /\ Init
    /\ stage = [p \in Procs |-> "parse"]
    /\ result = [p \in Procs |-> "ok"]
    /\ out = [p \in Procs |-> NoFiles]
    /\ compiled = {}

-----------------------------------------------------------------------------
At(p, s) == stage[p] = s
Step(p, from, to) == At(p, from) /\ stage' = [stage EXCEPT ![p] = to]
Fail(p) == result' = [result EXCEPT ![p] = "failed"]
HasToken(p) == p \in Tracked /\ owner[KeyOf[p]] = p
\* The response to the request p sent has arrived.
Answered(p) == pc[p] = "idle"

\* No -importcfg: the command is not known to the job server.
ParseUntracked(p) ==
    /\ p \notin Tracked
    /\ Step(p, "parse", "weave")
    /\ UNCHANGED <<vars, result, out, compiled>>

\* client.FromEnvironment or the request fails.
NoServer(p) ==
    /\ p \in Tracked
    /\ Step(p, "parse", "exited")
    /\ Fail(p)
    /\ UNCHANGED <<vars, out, compiled>>

SendStart(p) ==
    /\ p \in Tracked
    /\ Step(p, "parse", "starting")
    /\ Start(p, KeyOf[p])
    /\ UNCHANGED <<result, out, compiled>>

ReceiveToken(p) ==
    /\ Answered(p) /\ reply[p].kind = "token"
    /\ Step(p, "starting", "imports")
    /\ UNCHANGED <<vars, result, out, compiled>>

ReceiveFiles(p) ==
    /\ Answered(p) /\ reply[p].kind = "files"
    /\ Step(p, "starting", "reuse")
    /\ UNCHANGED <<vars, result, out, compiled>>

\* Mutant: after an error of the server the package is compiled anyway.
ReceiveErrorIgnored(p) ==
    /\ Answered(p) /\ reply[p].kind \notin {"token", "files"}
    /\ Step(p, "starting", "weave")
    /\ UNCHANGED <<vars, result, out, compiled>>

ReceiveError(p) ==
    /\ Answered(p) /\ reply[p].kind \notin {"token", "files"}
    /\ Step(p, "starting", "exited")
    /\ Fail(p)
    /\ UNCHANGED <<vars, out, compiled>>

\* importcfg.ParseFile and linkdeps.FromImportConfig.
ReadImports(p) ==
    /\ Step(p, "imports", "weave")
    /\ UNCHANGED <<vars, result, out, compiled>>

\* ... of which an error leaves ParseCommand before Close is deferred.
ReadImportsFails(p) ==
    /\ Step(p, "imports", "exited")
    /\ Fail(p)
    /\ UNCHANGED <<vars, out, compiled>>

-----------------------------------------------------------------------------
\* Re-using the files of the original task: the archive first.
Missing(p) == Outputs[p] \ DOMAIN out[p]

ReuseFile(p, l) ==
    /\ At(p, "reuse")
    /\ l \in Missing(p)
    /\ Archive \in Missing(p) => l = Archive
    /\ l \in DOMAIN reply[p].files
    /\ out' = [out EXCEPT ![p] = Put(@, l, reply[p].files[l])]
    /\ UNCHANGED <<vars, stage, result, compiled>>

\* The label is missing, or copying or marking the file fails.
ReuseFails(p) ==
    /\ Missing(p) # {}
    /\ Step(p, "reuse", "exited")
    /\ Fail(p)
    /\ UNCHANGED <<vars, out, compiled>>

\* Mutant: a label that is missing is not an error.
ReuseDoneEarly(p) ==
    /\ Step(p, "reuse", "exited")
    /\ UNCHANGED <<vars, result, out, compiled>>

ReuseDone(p) ==
    /\ Missing(p) = {}
    /\ Step(p, "reuse", "exited")
    /\ UNCHANGED <<vars, result, out, compiled>>

-----------------------------------------------------------------------------
\* Pinning, OnCompile or OnCompileMain fails: the compiler is not run.
WeaveFails(p) ==
    /\ Step(p, "weave", "close")
    /\ Fail(p)
    /\ UNCHANGED <<vars, out, compiled>>

\* They panic: the deferred Close runs, with a nil error and no output.
WeavePanics(p) ==
    /\ Step(p, "weave", "close")
    /\ result' = [result EXCEPT ![p] = "panic"]
    /\ UNCHANGED <<vars, out, compiled>>

Compile(p) ==
    /\ Step(p, "weave", "close")
    /\ compiled' = compiled \cup {p}
    /\ out' = [out EXCEPT ![p] =
                  [l \in Outputs[p] |-> [by |-> p, linkdeps |-> FALSE]]]
    /\ UNCHANGED <<vars, result>>

CompileFails(p) ==
    /\ Step(p, "weave", "close")
    /\ compiled' = compiled \cup {p}
    /\ Fail(p)
    /\ UNCHANGED <<vars, out>>

-----------------------------------------------------------------------------
\* CompileCommand.Close: attachLinkDeps and attachTestMain on success ...
WithLinkDeps(files1) ==
    [l \in DOMAIN files1 |->
        IF l = Archive THEN [files1[l] EXCEPT !.linkdeps = TRUE] ELSE files1[l]]

\* Mutant: link.deps is not added to the archive.
AttachNothing(p) ==
    /\ Step(p, "close", "notify")
    /\ UNCHANGED <<vars, result, out, compiled>>

Attach(p) ==
    /\ Step(p, "close", "notify")
    /\ IF result[p] = "failed" THEN UNCHANGED out
       ELSE out' = [out EXCEPT ![p] = WithLinkDeps(@)]
    /\ UNCHANGED <<vars, result, compiled>>

AttachFails(p) ==
    /\ result[p] # "failed"
    /\ Archive \in DOMAIN out[p]
    /\ Step(p, "close", "notify")
    /\ Fail(p)
    /\ UNCHANGED <<vars, out, compiled>>

\* Mutant: files are reported, whatever came before.
ReportFiles(p) ==
    Report([l \in Outputs[p] |->
               IF l \in DOMAIN out[p] THEN out[p][l] ELSE Absent])

\* ... then notifyJobServer, if there is a token.
ReportOf(p) ==
    IF result[p] = "failed" THEN ReportError
    ELSE Report([l \in Outputs[p] |->
                    IF l \in DOMAIN out[p] THEN out[p][l] ELSE Absent])

\* What the process exits with: a panic resumes once Close returned.
Exit(p, from, ok) ==
    /\ Step(p, from, "exited")
    /\ IF ok /\ result[p] = "ok" THEN UNCHANGED result ELSE Fail(p)

NotifySkipped(p) ==
    /\ ~HasToken(p)
    /\ Exit(p, "notify", TRUE)
    /\ UNCHANGED <<vars, out, compiled>>

SendFinish(p) ==
    /\ HasToken(p)
    /\ Step(p, "notify", "finishing")
    /\ Finish(p, KeyOf[p], KeyOf[p], ReportOf(p))
    /\ UNCHANGED <<result, out, compiled>>

NotifyFails(p) ==
    /\ HasToken(p)
    /\ ~up
    /\ Exit(p, "notify", FALSE)
    /\ UNCHANGED <<vars, out, compiled>>

\* Mutant: the error of the FinishRequest is dropped.
ReceiveFinishedIgnored(p) ==
    /\ Answered(p)
    /\ Exit(p, "finishing", TRUE)
    /\ UNCHANGED <<vars, out, compiled>>

ReceiveFinished(p) ==
    /\ Answered(p)
    /\ Exit(p, "finishing", reply[p].kind = "ok")
    /\ UNCHANGED <<vars, out, compiled>>

-----------------------------------------------------------------------------
\* The process is killed; the handler of its pending request goes on.
Kill(p) ==
    /\ stage[p] \notin {"exited", "killed"}
    /\ stage' = [stage EXCEPT ![p] = "killed"]
    /\ UNCHANGED <<vars, result, out, compiled>>

Run(p) ==
    \/ ParseUntracked(p) \/ NoServer(p) \/ SendStart(p)
    \/ ReceiveToken(p) \/ ReceiveFiles(p) \/ ReceiveError(p)
    \/ ReadImports(p) \/ ReadImportsFails(p)
    \/ (\E l \in Labels : ReuseFile(p, l)) \/ ReuseFails(p) \/ ReuseDone(p)
    \/ WeaveFails(p) \/ WeavePanics(p) \/ Compile(p) \/ CompileFails(p)
    \/ Attach(p) \/ AttachFails(p)
    \/ NotifySkipped(p) \/ SendFinish(p) \/ NotifyFails(p) \/ ReceiveFinished(p)

Serve(p) == Handle(p) /\ UNCHANGED procVars

TNext ==
    \/ \E p \in Procs : Run(p) \/ Serve(p) \/ Kill(p)
    \/ Shutdown /\ UNCHANGED procVars

TSpec == TInit /\ [][TNext]_tvars

\* Processes and handlers are scheduled by the OS and the Go runtime; a kill
\* or a shutdown need never happen.
TFairSpec ==
    /\ TSpec
    /\ \A p \in Procs : WF_tvars(Run(p)) /\ WF_tvars(Serve(p))

-----------------------------------------------------------------------------
TTypeOK ==
    /\ TypeOK
    /\ stage \in [Procs -> Stages]
    /\ result \in [Procs -> {"ok", "failed", "panic"}]
    /\ out \in [Procs -> FileMap]
    /\ compiled \subseteq Procs

Succeeded(p) == stage[p] = "exited" /\ result[p] = "ok"

\* Two processes that compile the same key never both run the compiler.
CompiledOnce ==
    \A p, q \in compiled \cap Tracked : KeyOf[p] = KeyOf[q] => p = q

\* All processes of a key that exit with status 0 leave the same files, the
\* compiler's output of a single process, link.deps included: Go links any of
\* them and must not see two archives of one package.
SameArtifacts ==
    \A p, q \in Tracked :
        /\ Succeeded(p) /\ Succeeded(q) /\ KeyOf[p] = KeyOf[q]
        => /\ \A l \in Outputs[p] \cap Outputs[q] : out[p][l] = out[q][l]
           /\ Archive \in Outputs[p] => out[p][Archive].linkdeps

\* A process never exits with status 0 with some output missing, be it the one
\* that compiled or one that re-used.
SuccessIsComplete ==
    \A p \in Procs : Succeeded(p) => DOMAIN out[p] = Outputs[p]

\* If the original exits with status 0, its files were published: nobody that
\* asks later is sent away because storing them failed silently.
OwnerSuccessIsPublished ==
    \A p \in Tracked :
        Succeeded(p) /\ HasToken(p) =>
            KeyOf[p] \in done /\ files[KeyOf[p]] = out[p]

\* A failed (or panicked) original makes every process of its key fail.
FailureIsShared ==
    \A p, q \in Tracked :
        /\ HasToken(p) /\ stage[p] \in {"exited", "finishing"}
        /\ result[p] # "ok" /\ KeyOf[q] = KeyOf[p] /\ up
        => ~Succeeded(q)

\* The task of k has nobody left to finish it.
Orphaned(k) ==
    /\ Stored(k)
    /\ k \notin isDone
    /\ stage[owner[k]] \in {"exited", "killed"}

\* A process that asked the server gets through, unless the original of its key
\* was killed or left without a FinishRequest.
ProcessesExit ==
    \A p \in Tracked :
        stage[p] = "starting" ~>
            (stage[p] \in {"exited", "killed"} \/ Orphaned(KeyOf[p]))

\* nbt.go: a caller that was given a finish token "must proceed with the task,
\* then send a FinishRequest using that token".
TokenIsRedeemed ==
    \A p \in Tracked :
        stage[p] = "exited" /\ reply[p].kind = "token" /\ HasToken(p) /\ up
            => KeyOf[p] \in isDone

-----------------------------------------------------------------------------
\* The inductive invariant behind CompiledOnce and SuccessIsComplete: who is past
\* "starting" without re-using, or ran the compiler, is the owner of its key ...
OwnerInv ==
    \A p \in Procs :
        /\ stage[p] = "starting" => key[p] = KeyOf[p]
        /\ p \in Tracked /\ (stage[p] \in {"imports", "weave"} \/ p \in compiled)
               => owner[KeyOf[p]] = p

\* ... and what a process did without an error so far left all its outputs.
OutputInv ==
    \A p \in Procs :
        /\ DOMAIN out[p] \subseteq Outputs[p]
        /\ stage[p] \in {"close", "notify", "finishing", "exited"} /\ result[p] = "ok"
               => DOMAIN out[p] = Outputs[p]

TInv == IInv /\ TTypeOK /\ OwnerInv /\ OutputInv

\* Behind the other invariants: the service works for the processes as long as its
\* context is not cancelled, and answers a FinishRequest when it is done with it; the
\* original of a key is a process that compiles it.
ServiceInv ==
    /\ ~cancelled
    /\ \A p \in Procs :
          /\ reply[p].kind = "token" => key[p] \in inited
          /\ reply[p].kind = "lost" => ~up
          /\ pc[p] = "respond" => key[p] \in done
    /\ \A k \in Keys : error[k] = "task" => k \in isDone /\ report[k].failed
    /\ \A k \in Keys : Stored(k) => owner[k] \in Tracked /\ KeyOf[owner[k]] = k

\* What p has asked the service, and was answered, by the stage it is at.
AskInv(p) ==
    /\ HasToken(p) => stage[p] \notin {"parse", "reuse"}
    /\ stage[p] \notin {"starting", "finishing", "killed"} => pc[p] = "idle"
    /\ stage[p] = "starting" /\ HasToken(p) =>
          \/ pc[p] = "init"
          \/ pc[p] = "idle" /\ reply[p].kind \in {"token", "lost"}
    /\ stage[p] \in {"starting", "reuse", "finishing"} => p \in Tracked
    /\ p \in Tracked /\ stage[p] \in {"imports", "weave", "close", "notify", "finishing"}
           => HasToken(p) /\ KeyOf[p] \in inited

Reuses(p) ==
    \/ stage[p] = "reuse"
    \/ p \in Tracked /\ stage[p] = "exited" /\ result[p] = "ok" /\ ~HasToken(p)

\* The files of a process that re-uses are those of the answer ...
ReuseInv(p) ==
    Reuses(p) =>
        /\ p \in Tracked /\ key[p] = KeyOf[p] /\ reply[p].kind = "files"
        /\ \A l \in DOMAIN out[p] : l \in DOMAIN reply[p].files /\ out[p][l] = reply[p].files[l]

\* ... while those of an original that was not told of an error have link.deps ...
LinkedInv(p) ==
    /\ stage[p] \in {"parse", "starting", "imports", "weave"} \/ result[p] = "panic"
           => out[p] = NoFiles
    /\ result[p] = "panic" => stage[p] \in {"close", "notify", "finishing", "killed"}
    /\ stage[p] \in {"notify", "finishing"} /\ result[p] # "failed" /\ Archive \in DOMAIN out[p]
           => out[p][Archive].linkdeps

\* ... and are what the service was told of, after which they do not change ...
ReportedBy(p) == [l \in Outputs[p] |-> IF l \in DOMAIN out[p] THEN out[p][l] ELSE Absent]

ReportInv(p) ==
    LET r == report[KeyOf[p]] IN
    HasToken(p) /\ KeyOf[p] \in isDone =>
        /\ stage[p] \in {"finishing", "exited", "killed"}
        /\ stage[p] = "finishing" => (r.failed <=> result[p] = "failed")
        /\ r.failed => result[p] = "failed"
        /\ ~r.failed =>
               /\ r.files = ReportedBy(p)
               /\ Archive \in DOMAIN out[p] => out[p][Archive].linkdeps

\* ... by a FinishRequest whose answer decides what the original exits with.
FinishedInv(p) ==
    /\ stage[p] = "finishing" =>
          /\ key[p] = KeyOf[p] /\ KeyOf[p] \in isDone
          /\ pc[p] \in Finishing \cup {"idle"}
          /\ pc[p] = "idle" /\ reply[p].kind # "lost" =>
                /\ KeyOf[p] \in done
                /\ reply[p].kind = "ok" <=> error[KeyOf[p]] \in {"none", "task"}
    /\ stage[p] = "exited" /\ HasToken(p) =>
          /\ result[p] = "ok" => KeyOf[p] \in done /\ error[KeyOf[p]] = "none"
          /\ result[p] # "ok" /\ up /\ KeyOf[p] \in isDone =>
                KeyOf[p] \in done /\ error[KeyOf[p]] # "none"

ProcInv(p) == AskInv(p) /\ ReuseInv(p) /\ LinkedInv(p) /\ ReportInv(p) /\ FinishedInv(p)

PInv == TInv /\ ServiceInv /\ \A p \in Procs : ProcInv(p)
=============================================================================
