------------------------------- MODULE Resolve -------------------------------
(***************************************************************************)
(* Nested builds: the package resolution service of the job server         *)
(* (internal/jobserver/pkgs/resolve.go), the load cache and the graph that *)
(* is to detect circular injections (internal/jobserver/common), and the   *)
(* compilations that call it (internal/toolexec/aspect/oncompile.go).      *)
(*                                                                         *)
(* Weaving a package may inject imports that Go did not know of.  Its      *)
(* compile process asks the server to resolve them; the server runs a      *)
(* nested build, whose own compile processes may do the same.  A build is  *)
(* the sequence of patterns that led to it, << >> being the user's; a job  *)
(* <<b, p>> is the compilation of p within build b.                        *)
(***************************************************************************)
EXTENDS Naturals, Sequences, FiniteSets

CONSTANTS
    Packages,
    NoPackage,  \* the parent of a job of the user's build
    Worlds,     \* what may be built
    MaxDepth    \* bound: how deep builds nest

(***************************************************************************)
(* A world is what the user builds: the packages of the build (roots), what *)
(* weaving adds to each package (injects), what is compiled to load a       *)
(* pattern (closure: it and its dependencies), and which packages get the   *)
(* same build ID in every build, so that never-build-twice shares them.     *)
(***************************************************************************)
WorldType == [roots : SUBSET Packages,
              injects : [Packages -> SUBSET Packages],
              closure : [Packages -> SUBSET Packages],
              shared : SUBSET Packages]

ASSUME ResolveAssumption ==
    /\ IsFiniteSet(Packages)
    /\ NoPackage \notin Packages
    /\ Worlds \subseteq WorldType
    /\ MaxDepth \in Nat

VARIABLES
    world,      \* what is being built; never changes
    job,        \* job[j]: the state of each job that was started
    claimed,    \* packages for which a finish token was handed out
    built,      \* built[p]: the outcome never-build-twice keeps for p
    edges,      \* service.graph
    loaded      \* service.resolved: the slots marked as loaded

rvars == <<world, job, claimed, built, edges, loaded>>

Builds == UNION {[1..n -> Packages] : n \in 0..MaxDepth}
Jobs == Builds \X Packages
Build(j) == j[1]
Self(j) == j[2]

(***************************************************************************)
(* Stages.  resolve: the handler waits for its cache slot; load: it holds   *)
(* the slot's lock and the nested build runs; leave: the deferred calls and *)
(* the response are to come.                                                *)
(***************************************************************************)
JobStages == {"pending", "weave", "resolve", "load", "leave", "ok", "failed"}
JobState == [stage : JobStages,
             parent : Packages \cup {NoPackage}, \* RESOLVE_PARENT_ID
             want : SUBSET Packages,             \* imports not resolved yet
             target : Packages \cup {NoPackage}, \* the one being resolved
             answer : {"none", "ok", "failed", "cycle"}]

NewJob(p, parent) ==
    [stage |-> "pending", parent |-> parent, want |-> world.injects[p],
     target |-> NoPackage, answer |-> "none"]

RInit ==
    /\ world \in Worlds
    /\ job = [j \in {<< >>} \X world.roots |-> NewJob(j[2], NoPackage)]
    /\ claimed = {}
    /\ built = [p \in Packages |-> "none"]
    /\ edges = {}
    /\ loaded = {}

-----------------------------------------------------------------------------
Started == DOMAIN job
Ended(j) == job[j].stage \in {"ok", "failed"}

JobStep(j, from, to) ==
    /\ job[j].stage = from
    /\ job' = [job EXCEPT ![j].stage = to]

\* Never-build-twice: the first job to compile p does, the others are given its
\* outcome (NeverBuildTwice.tla).  Build IDs may also differ between builds.
Claim(j) ==
    /\ Self(j) \in world.shared => Self(j) \notin claimed
    /\ claimed' = claimed \cup {Self(j)}
    /\ JobStep(j, "pending", "weave")
    /\ UNCHANGED <<world, built, edges, loaded>>

Reuse(j) ==
    /\ Self(j) \in world.shared
    /\ built[Self(j)] # "none"
    /\ JobStep(j, "pending", built[Self(j)])
    /\ UNCHANGED <<world, claimed, built, edges, loaded>>

\* Go does not start a package once another one of the build failed.
Skip(j) ==
    /\ \E i \in Started : Build(i) = Build(j) /\ job[i].stage = "failed"
    /\ JobStep(j, "pending", "failed")
    /\ UNCHANGED <<world, claimed, built, edges, loaded>>

\* The end of a compilation, of which never-build-twice is told.
Report(j, result) == built' = [built EXCEPT ![Self(j)] = result]

Compiled(j) ==
    /\ job[j].want = {}
    /\ JobStep(j, "weave", "ok")
    /\ Report(j, "ok")
    /\ UNCHANGED <<world, claimed, edges, loaded>>

-----------------------------------------------------------------------------
\* common.Graph
Children(v) == {e[2] : e \in {f \in edges : f[1] = v}}

\* The packages that walks along the pairs of next lead to, from those of base.
Reached(base, next) ==
    {p \in Packages :
        \A S \in SUBSET Packages :
            base \subseteq S /\ (\A e \in next : e[1] \in S => e[2] \in S) => p \in S}

Parents(v) == {u \in Packages : v \in Children(u)}
Upwards(us) == {<<e[2], e[1]>> : e \in {f \in edges : f[1] \in us}}

\* Nodes that a walk leads from to v.
Above(v) == Reached(Parents(v), Upwards(Packages))

(***************************************************************************)
(* path(u, v) visits the children of u in an arbitrary order.  A child that *)
(* is v ends the search.  Otherwise, if there is no path from the child     *)
(* visited last, its nil result is shorter than, and replaces, any path     *)
(* found earlier.  So path may find nothing from the nodes of MissesPath(v),*)
(* and may find a path from those of Above(v).                              *)
(***************************************************************************)
MissesPath(v) ==
    Reached({u \in Packages : Children(u) = {}}, Upwards(Packages \ Parents(v)))

\* Mutant: path is searched in the direction of the new edge.
MayRejectReversed(from, to) == from = to \/ from \in Above(to)

\* AddEdge(from, to) may report a cycle, and may add the edge.
MayReject(from, to) == from = to \/ to \in Above(from)
MayAdd(from, to) == from # to /\ to \in MissesPath(from)

-----------------------------------------------------------------------------
\* service.resolve: the request of j for the injected import x, up to AddEdge.
Nested(j) == job[j].parent # NoPackage
EdgeOf(j) == <<job[j].parent, Self(j)>>

Request(j, x) ==
    /\ job[j].stage = "weave"
    /\ x \in job[j].want
    /\ IF Nested(j)
       THEN MayAdd(job[j].parent, Self(j)) /\ edges' = edges \cup {EdgeOf(j)}
       ELSE UNCHANGED edges
    /\ job' = [job EXCEPT ![j].stage = "resolve", ![j].target = x]
    /\ UNCHANGED <<world, claimed, built, loaded>>

\* AddEdge reports a cycle: the compilation of j fails.
RequestRejected(j, x) ==
    /\ job[j].stage = "weave"
    /\ x \in job[j].want
    /\ Nested(j) /\ MayReject(job[j].parent, Self(j))
    /\ job' = [job EXCEPT ![j].stage = "failed", ![j].target = x,
                          ![j].answer = "cycle"]
    /\ Report(j, "failed")
    /\ UNCHANGED <<world, claimed, edges, loaded>>

\* The hash of a request covers its pattern and the work directory of the build
\* it comes from, but not the compilation that sent it.
Slot(j) == <<Build(j), job[j].target>>

\* Mutant: the lock is not released when the loader fails.
LockedForever(slot) ==
    \E i \in Started : /\ Slot(i) = slot
                       /\ \/ job[i].stage = "load"
                          \/ job[i].answer = "failed"

\* Cache.Load holds the lock of the slot for as long as the loader runs.
Locked(slot) == \E i \in Started : job[i].stage = "load" /\ Slot(i) = slot

HasSlot(j) == job[j].stage = "resolve" /\ ~Locked(Slot(j))

Leave(j, ans) == job' = [job EXCEPT ![j].stage = "leave", ![j].answer = ans]

Hit(j) ==
    /\ HasSlot(j)
    /\ Slot(j) \in loaded
    /\ Leave(j, "ok")
    /\ UNCHANGED <<world, claimed, built, edges, loaded>>

\* packages.Load builds the target and its dependencies, in a work directory of
\* its own.
LoadJobs(j) ==
    {Append(Build(j), job[j].target)} \X world.closure[job[j].target]

StartLoad(j) ==
    /\ HasSlot(j)
    /\ Slot(j) \notin loaded
    /\ Len(Build(j)) < MaxDepth
    /\ job' = [i \in Started \cup LoadJobs(j) |->
                  IF i = j THEN [job[j] EXCEPT !.stage = "load"]
                  ELSE IF i \in LoadJobs(j) THEN NewJob(Self(i), Self(j))
                  ELSE job[i]]
    /\ UNCHANGED <<world, claimed, built, edges, loaded>>

\* No build runs: its temporary directory cannot be made, go list fails.
LoadFails(j) ==
    /\ HasSlot(j)
    /\ Slot(j) \notin loaded
    /\ Leave(j, "failed")
    /\ UNCHANGED <<world, claimed, built, edges, loaded>>

Loaded(j) ==
    /\ job[j].stage = "load"
    /\ \A i \in LoadJobs(j) : job[i].stage = "ok"
    /\ loaded' = loaded \cup {Slot(j)}
    /\ Leave(j, "ok")
    /\ UNCHANGED <<world, claimed, built, edges>>

\* Mutant: the errors of the packages of the nested build are dropped.
NotLoadedUnnoticed(j) ==
    /\ job[j].stage = "load"
    /\ \A i \in LoadJobs(j) : Ended(i)
    /\ \E i \in LoadJobs(j) : job[i].stage = "failed"
    /\ Leave(j, "ok")
    /\ UNCHANGED <<world, claimed, built, edges, loaded>>

\* An error leaves the slot unloaded: the next request tries again.
NotLoaded(j) ==
    /\ job[j].stage = "load"
    /\ \A i \in LoadJobs(j) : Ended(i)
    /\ \E i \in LoadJobs(j) : job[i].stage = "failed"
    /\ Leave(j, "failed")
    /\ UNCHANGED <<world, claimed, built, edges, loaded>>

\* The deferred RemoveEdge, if AddEdge was called; then the response.
RemoveEdge(j) == edges' = edges \ {EdgeOf(j)}

Resolved(j) ==
    /\ job[j].stage = "leave" /\ job[j].answer = "ok"
    /\ RemoveEdge(j)
    /\ job' = [job EXCEPT ![j].stage = "weave", ![j].want = @ \ {job[j].target}]
    /\ UNCHANGED <<world, claimed, built, loaded>>

\* Mutant: RemoveEdge is not deferred, and skipped by the error return.
NotResolvedLeaking(j) ==
    /\ job[j].answer = "failed"
    /\ JobStep(j, "leave", "failed")
    /\ Report(j, "failed")
    /\ UNCHANGED <<world, claimed, edges, loaded>>

NotResolved(j) ==
    /\ job[j].answer = "failed"
    /\ RemoveEdge(j)
    /\ JobStep(j, "leave", "failed")
    /\ Report(j, "failed")
    /\ UNCHANGED <<world, claimed, loaded>>

-----------------------------------------------------------------------------
RunJob(j) ==
    \/ Claim(j) \/ Reuse(j) \/ Skip(j) \/ Compiled(j)
    \/ \E x \in Packages : Request(j, x) \/ RequestRejected(j, x)
    \/ Hit(j) \/ StartLoad(j) \/ LoadFails(j) \/ Loaded(j) \/ NotLoaded(j)
    \/ Resolved(j) \/ NotResolved(j)

RNext == \E j \in Started : RunJob(j)

RSpec == RInit /\ [][RNext]_rvars

\* Some process or handler that can take a step does.
RFairSpec == RSpec /\ WF_rvars(RNext)

-----------------------------------------------------------------------------
RTypeOK ==
    /\ world \in Worlds
    /\ Started \subseteq Jobs
    /\ job \in [Started -> JobState]
    /\ claimed \subseteq Packages
    /\ built \in [Packages -> {"none", "ok", "failed"}]
    /\ edges \subseteq Packages \X Packages
    /\ loaded \subseteq Jobs

\* Compiling p has to wait for q: q is built for an import injected in p.
Needs(p, q) == \E x \in world.injects[p] : q \in world.closure[x]

\* Packages whose compilation would have to wait for itself.
NeedsPairs == {e \in Packages \X Packages : Needs(e[1], e[2])}
NeededBy(p) == {q \in Packages : Needs(p, q)}
Circular == {p \in Packages : p \in Reached(NeededBy(p), NeedsPairs)}

\* Requests past AddEdge.
InService ==
    {j \in Started : job[j].stage \in {"resolve", "load", "leave"} /\ Nested(j)}

\* The graph holds the edges of the nested requests in service and no other:
\* none leaks when a request fails.  None goes missing while a request still
\* waits either, if never-build-twice keeps two compilations of a package from
\* asking at once: an edge is stored without a count.
GraphIsExact ==
    /\ edges \subseteq {EdgeOf(j) : j \in InService}
    /\ world.shared = Packages => {EdgeOf(j) : j \in InService} \subseteq edges

\* A cycle is reported only if injections are circular, never because builds
\* that run at the same time share packages.
NoFalseCycle ==
    \A j \in Started : job[j].answer = "cycle" => Circular # {}

\* A package is never compiled with an injected import of which some package
\* was not, and one whose injections are circular is not compiled at all.
CompiledIsComplete ==
    \A p \in Packages :
        built[p] = "ok" =>
            /\ p \notin Circular
            /\ \A q \in world.shared : Needs(p, q) => built[q] = "ok"

UserJob(p) == <<<< >>, p>>

\* Every compilation of the user's build ends, in success or error: nested
\* builds never wait for each other in a circle.
BuildEnds ==
    \A p \in Packages : UserJob(p) \in Started ~>
                           UserJob(p) \in Started /\ Ended(UserJob(p))

\* resolve.go: the identities of the compilation and of its parent "can be used
\* to detect cycles", so that a circular injection makes the compilation fail.
CyclesAreDetected ==
    \A p \in Packages :
        UserJob(p) \in Started /\ p \in Circular ~>
            UserJob(p) \in Started /\ job[UserJob(p)].stage = "failed"

\* graph.go: "Graph keeps track of a directed acyclic graph", in which AddEdge
\* "Returns an error if the new edge would introduce a cycle".
GraphIsAcyclic == \A v \in Packages : v \notin Above(v)

-----------------------------------------------------------------------------
\* The inductive invariant behind the safety properties.  A job asks for one import
\* after the other of those that weaving injected ...
JobInv ==
    \A j \in Started :
        /\ Nested(j) => Needs(job[j].parent, Self(j))
        /\ job[j].want \subseteq world.injects[Self(j)]
        /\ job[j].stage = "pending" => job[j].want = world.injects[Self(j)]
        /\ job[j].stage \in {"resolve", "load", "leave"} => job[j].target \in job[j].want

\* ... a nested build runs for as long as the slot it is to fill is locked ...
LoadInv ==
    /\ \A j \in Started : job[j].stage = "load" => LoadJobs(j) \subseteq Started
    /\ \A i \in Started :
           Build(i) # << >> /\ ~Ended(i) =>
               \E j \in Started : job[j].stage = "load" /\ i \in LoadJobs(j)

\* ... of the jobs of a package that builds share, one works and decides the outcome ...
Working(j) == job[j].stage \in {"weave", "resolve", "load", "leave"}

ClaimInv ==
    /\ \A p \in Packages : built[p] # "none" => p \in claimed
    /\ \A j \in Started : Working(j) =>
           /\ Self(j) \in claimed
           /\ Self(j) \in world.shared => built[Self(j)] = "none"
    /\ \A i, j \in Started :
           Working(i) /\ Working(j) /\ Self(i) = Self(j) /\ Self(i) \in world.shared => i = j

\* ... and what was resolved for it had been compiled, and needs nothing circular.
Complete(q) == q \notin Circular /\ (q \in world.shared => built[q] = "ok")
Available(x) == \A q \in world.closure[x] : Complete(q)

AvailableInv ==
    /\ \A p \in Packages : built[p] = "ok" =>
           p \notin Circular /\ \A q \in NeededBy(p) : Complete(q)
    /\ \A slot \in loaded : Available(slot[2])
    /\ \A j \in Started :
           /\ job[j].stage = "ok" => Complete(Self(j))
           /\ Working(j) => \A x \in world.injects[Self(j)] \ job[j].want : Available(x)
           /\ job[j].stage = "leave" /\ job[j].answer = "ok" => Available(job[j].target)

RInv ==
    /\ RTypeOK /\ JobInv /\ LoadInv /\ ClaimInv /\ AvailableInv
    /\ GraphIsExact /\ NoFalseCycle
=============================================================================
