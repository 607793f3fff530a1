------------------------------ MODULE BuildOnce ------------------------------
(***************************************************************************)
(* What the never-build-twice service promises, with no request handlers,  *)
(* tokens or channels: a build key (import path and build ID) is claimed   *)
(* by one caller, its task gets one outcome, published once, and whoever   *)
(* is told anything about that task is told that outcome.                  *)
(* NeverBuildTwice is shown to implement this specification.               *)
(***************************************************************************)
CONSTANTS
    Callers,    \* goroutines and processes that ask about build keys
    Keys,       \* build keys
    NoCaller,   \* "nobody claimed this key yet"
    NoKey,      \* "told nothing yet"
    FileSets,   \* what a successful task may produce
    NoFiles     \* what a failed or unfinished one produces

VARIABLES
    owner,      \* owner[k]: who must run the task of k
    outcome,    \* outcome[k]: what became of it
    told        \* told[c]: the last outcome c was told, and of which key

vars == <<owner, outcome, told>>

Pending  == [status |-> "pending", files |-> NoFiles]
Failed   == [status |-> "failed", files |-> NoFiles]
Built(f) == [status |-> "built", files |-> f]

Outcomes == {Failed} \cup {Built(f) : f \in FileSets \ {NoFiles}}

ToldNothing == [key |-> NoKey, outcome |-> Pending]

Init ==
    /\ owner = [k \in Keys |-> NoCaller]
    /\ outcome = [k \in Keys |-> Pending]
    /\ told = [c \in Callers |-> ToldNothing]

\* Only the first caller to ask for k has to do the work.
Claim(c, k) ==
    /\ owner[k] = NoCaller
    /\ owner' = [owner EXCEPT ![k] = c]
    /\ UNCHANGED outcome

\* The task of a claimed key ends, once.
Publish(k, o) ==
    /\ owner[k] # NoCaller
    /\ outcome[k] = Pending
    /\ outcome' = [outcome EXCEPT ![k] = o]
    /\ UNCHANGED <<owner, told>>

\* A caller learns the published outcome, never anything else.
Learn(c, k) ==
    /\ outcome[k] # Pending
    /\ told' = [told EXCEPT ![c] = [key |-> k, outcome |-> outcome[k]]]
    /\ UNCHANGED <<owner, outcome>>

\* Callers turn to something else: one of them may be the first to ask for k.
Forget(C) ==
    /\ told' = [c \in Callers |-> IF c \in C THEN ToldNothing ELSE told[c]]
    /\ \/ UNCHANGED <<owner, outcome>>
       \/ \E c \in C, k \in Keys : Claim(c, k)

Next ==
    \/ \E C \in SUBSET Callers : Forget(C)
    \/ \E c \in Callers, k \in Keys : Learn(c, k)
    \/ \E k \in Keys, o \in Outcomes : Publish(k, o)

Spec == Init /\ [][Next]_vars
=============================================================================
