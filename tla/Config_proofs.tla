--------------------------- MODULE Config_proofs ---------------------------
(***************************************************************************)
(* Theorems about Config, for any files, however they lead to each other:   *)
(* the loader never loads a file while it is loading it, succeeds only if    *)
(* nothing that it reaches is wrong, fails only for a reason, and what it    *)
(* gives when it succeeds are the aspects of the files that can be reached,  *)
(* each once and those of what a file leads to before its own.               *)
(***************************************************************************)
EXTENDS Config, SequenceTheorems, WellFoundedInduction, TLAPS

IsFrame(frame) ==
  /\ DOMAIN frame = {"fn", "name", "at", "todo", "cfgs"}
  /\ frame.fn \in {"package", "tool", "yml"}

\* The file that a frame loads, once it is past its start.
File(frame) == <<frame.fn, frame.name>>
Loading(frame) == frame.at # "start" /\ frame.fn # "package"

\* What is being loaded was marked as loaded, and is being loaded by one call only.
CInv ==
  /\ stack \in Seq({stack[i] : i \in DOMAIN stack})
  /\ \A i \in DOMAIN stack : IsFrame(stack[i])
  /\ \A i \in DOMAIN stack : Loading(stack[i]) => File(stack[i]) \in loaded
  /\ \A i, j \in DOMAIN stack :
        Loading(stack[i]) /\ Loading(stack[j]) /\ File(stack[i]) = File(stack[j]) => i = j

LEMMA InitInv == Init => CInv
  BY DEF Init, CInv

-----------------------------------------------------------------------------
(* Stacks *)

LEMMA Elements ==
  ASSUME NEW S, NEW s \in Seq(S)
  PROVE  s \in Seq({s[i] : i \in DOMAIN s})
  OBVIOUS

\* What is left of a stack by a return, and by a frame that takes the place of the top.
LEMMA Pop ==
  ASSUME NEW S, NEW s \in Seq(S), s # << >>
  PROVE  /\ Front(s) \in Seq(S) /\ Len(Front(s)) = Len(s) - 1
         /\ \A i \in 1..Len(s) - 1 : Front(s)[i] = s[i]
<1>1. /\ Len(s) \in Nat /\ Len(s) > 0 /\ 1 \in Int /\ Len(s) - 1 \in Int
      /\ \A i \in 1..Len(s) - 1 : s[i] \in S
  OBVIOUS
<1>2. /\ SubSeq(s, 1, Len(s) - 1) \in Seq(S)
      /\ Len(SubSeq(s, 1, Len(s) - 1)) = IF 1 <= Len(s) - 1 THEN Len(s) - 1 - 1 + 1 ELSE 0
      /\ \A i \in 1..Len(s) - 1 - 1 + 1 : SubSeq(s, 1, Len(s) - 1)[i] = s[1 + i - 1]
  BY <1>1, SubSeqProperties
<1>3. Front(s) = SubSeq(s, 1, Len(s) - 1)
  BY DEF Front
<1>4. Len(Front(s)) = Len(s) - 1
  <2>1. \A n \in Nat : n > 0 => (IF 1 <= n - 1 THEN n - 1 - 1 + 1 ELSE 0) = n - 1
    OBVIOUS
  <2>2. (IF 1 <= Len(s) - 1 THEN Len(s) - 1 - 1 + 1 ELSE 0) = Len(s) - 1
    BY <1>1, <2>1
  <2> QED BY <1>2, <1>3, <2>2
<1>5. ASSUME NEW i \in 1..Len(s) - 1
      PROVE  i \in 1..Len(s) - 1 - 1 + 1 /\ 1 + i - 1 = i
  BY <1>1
<1>6. \A i \in 1..Len(s) - 1 : Front(s)[i] = s[i]
  <2> TAKE i \in 1..Len(s) - 1
  <2>1. Front(s)[i] = s[1 + i - 1]
    BY <1>2, <1>3, <1>5
  <2>2. 1 + i - 1 = i
    BY <1>5
  <2> QED BY <2>1, <2>2
<1> QED BY <1>2, <1>3, <1>4, <1>6

LEMMA BelowTop ==
  ASSUME NEW n \in Nat, n > 0
  PROVE  n \in 1..n /\ \A i \in 1..n - 1 : i \in 1..n /\ i # n
  OBVIOUS

LEMMA Replace ==
  ASSUME NEW S, NEW s \in Seq(S), s # << >>, NEW f \in S
  PROVE  /\ Append(Front(s), f) \in Seq(S) /\ Len(Append(Front(s), f)) = Len(s)
         /\ \A i \in 1..Len(s) - 1 : Append(Front(s), f)[i] = s[i]
         /\ Append(Front(s), f)[Len(s)] = f
<1>1. /\ Front(s) \in Seq(S) /\ Len(Front(s)) = Len(s) - 1
      /\ \A i \in 1..Len(s) - 1 : Front(s)[i] = s[i]
  BY Pop
<1>2. Len(s) \in Nat /\ Len(s) > 0
  OBVIOUS
<1> QED BY <1>1, <1>2

LEMMA Push ==
  ASSUME NEW S, NEW s \in Seq(S), s # << >>, NEW f \in S, NEW g \in S
  PROVE  LET t == Append(Append(Front(s), f), g) IN
         /\ t \in Seq(S) /\ Len(t) = Len(s) + 1
         /\ \A i \in 1..Len(s) - 1 : t[i] = s[i]
         /\ t[Len(s)] = f /\ t[Len(s) + 1] = g
<1> DEFINE r == Append(Front(s), f)
<1>1. /\ r \in Seq(S) /\ Len(r) = Len(s)
      /\ \A i \in 1..Len(s) - 1 : r[i] = s[i]
      /\ r[Len(s)] = f
  BY Replace
<1>2. Len(s) \in Nat /\ Len(s) > 0
  OBVIOUS
<1> HIDE DEF r
<1>3. LET t == Append(r, g) IN
         /\ t \in Seq(S) /\ Len(t) = Len(s) + 1
         /\ \A i \in 1..Len(s) - 1 : t[i] = s[i]
         /\ t[Len(s)] = f /\ t[Len(s) + 1] = g
  BY <1>1, <1>2
<1> QED BY <1>3 DEF r

-----------------------------------------------------------------------------
(* The steps: a return, a frame that goes on, and one that calls another *)

\* The frames below the top keep what the invariant says of them.
LEMMA ReturnKeeps ==
  ASSUME CInv, stack # << >>, stack' = Front(stack), loaded \subseteq loaded'
  PROVE  CInv'
<1>1. stack \in Seq({stack[i] : i \in DOMAIN stack})
  BY DEF CInv
<1>2. /\ stack' \in Seq({stack[i] : i \in DOMAIN stack}) /\ Len(stack') = Len(stack) - 1
      /\ \A i \in 1..Len(stack) - 1 : stack'[i] = stack[i]
  BY <1>1, Pop
<1>3. DOMAIN stack' = 1..Len(stack) - 1 /\ DOMAIN stack' \subseteq DOMAIN stack
  BY <1>1, <1>2
<1>4. stack' \in Seq({stack'[i] : i \in DOMAIN stack'})
  BY <1>2, Elements
<1>5. \A i \in DOMAIN stack' : i \in DOMAIN stack /\ stack'[i] = stack[i]
  BY <1>2, <1>3
<1> QED BY <1>4, <1>5 DEF CInv, IsFrame, Loading, File

\* A frame may take the place of the top when it loads the same file as the top did, or
\* one that nobody below loads, and the file is marked as loaded.
MayReplaceTop(frame) ==
  /\ IsFrame(frame)
  /\ Loading(frame) =>
        /\ File(frame) \in loaded'
        /\ \/ Loading(Top) /\ File(frame) = File(Top)
           \/ File(frame) \notin loaded

LEMMA ContinueKeeps ==
  ASSUME CInv, stack # << >>, loaded \subseteq loaded',
         NEW frame, MayReplaceTop(frame), stack' = Append(Front(stack), frame)
  PROVE  CInv'
<1> DEFINE S == {stack[i] : i \in DOMAIN stack} \cup {frame}
<1>1. stack \in Seq(S) /\ Len(stack) \in Nat /\ Len(stack) > 0
  BY DEF CInv
<1>2. /\ stack' \in Seq(S) /\ Len(stack') = Len(stack)
      /\ \A i \in 1..Len(stack) - 1 : stack'[i] = stack[i]
      /\ stack'[Len(stack)] = frame
  BY <1>1, Replace
<1>3. stack' \in Seq({stack'[i] : i \in DOMAIN stack'})
  BY <1>2, Elements
<1> HIDE DEF S
<1>4. DOMAIN stack' = DOMAIN stack /\ DOMAIN stack = 1..Len(stack)
  BY <1>1, <1>2
<1>a. Len(stack) \in DOMAIN stack /\ \A i \in 1..Len(stack) - 1 : i \in DOMAIN stack /\ i # Len(stack)
  BY <1>1, <1>4, BelowTop
<1>5. \A i \in 1..Len(stack) - 1 : 
         /\ IsFrame(stack[i])
         /\ Loading(stack[i]) => File(stack[i]) \in loaded
         /\ Loading(stack[i]) /\ Loading(frame) => File(stack[i]) # File(frame)
  BY <1>a DEF CInv, MayReplaceTop, Top
<1>6. \A i, j \in 1..Len(stack) - 1 :
         Loading(stack[i]) /\ Loading(stack[j]) /\ File(stack[i]) = File(stack[j]) => i = j
  BY <1>a DEF CInv
<1>7. \A i \in DOMAIN stack' : \/ i \in 1..Len(stack) - 1 /\ stack'[i] = stack[i]
                               \/ i = Len(stack) /\ stack'[i] = frame
  BY <1>1, <1>2, <1>4
<1>8. \A i \in DOMAIN stack' : IsFrame(stack'[i])
  BY <1>5, <1>7 DEF MayReplaceTop
<1>9. \A i \in DOMAIN stack' : Loading(stack'[i]) => File(stack'[i]) \in loaded'
  BY <1>5, <1>7 DEF MayReplaceTop
<1>10. \A i, j \in DOMAIN stack' :
          Loading(stack'[i]) /\ Loading(stack'[j]) /\ File(stack'[i]) = File(stack'[j]) => i = j
  BY <1>5, <1>6, <1>7
<1> QED BY <1>3, <1>8, <1>9, <1>10 DEF CInv, IsFrame, Loading, File

\* A call adds a frame that loads nothing yet.
LEMMA CallKeeps ==
  ASSUME CInv, stack # << >>, loaded \subseteq loaded', NEW frame, MayReplaceTop(frame),
         NEW fn \in {"package", "tool", "yml"}, NEW name,
         stack' = Append(Append(Front(stack), frame), Frame(fn, name))
  PROVE  CInv'
<1> DEFINE new == Frame(fn, name)
           S == {stack[i] : i \in DOMAIN stack} \cup {frame, new}
<1>0. IsFrame(new) /\ ~Loading(new)
  BY DEF Frame, IsFrame, Loading
<1> HIDE DEF new
<1>1. stack \in Seq(S) /\ Len(stack) \in Nat /\ Len(stack) > 0
  BY DEF CInv
<1>2. /\ stack' \in Seq(S) /\ Len(stack') = Len(stack) + 1
      /\ \A i \in 1..Len(stack) - 1 : stack'[i] = stack[i]
      /\ stack'[Len(stack)] = frame /\ stack'[Len(stack) + 1] = new
  BY <1>1, Push DEF new
<1> HIDE DEF S
<1>3. stack' \in Seq({stack'[i] : i \in DOMAIN stack'})
  BY <1>2, Elements
<1>4. DOMAIN stack' = 1..Len(stack) + 1 /\ DOMAIN stack = 1..Len(stack)
  BY <1>1, <1>2
<1>a. Len(stack) \in DOMAIN stack /\ \A i \in 1..Len(stack) - 1 : i \in DOMAIN stack /\ i # Len(stack)
  BY <1>1, <1>4, BelowTop
<1>5. \A i \in 1..Len(stack) - 1 : 
         /\ IsFrame(stack[i])
         /\ Loading(stack[i]) => File(stack[i]) \in loaded
         /\ Loading(stack[i]) /\ Loading(frame) => File(stack[i]) # File(frame)
  BY <1>a DEF CInv, MayReplaceTop, Top
<1>6. \A i, j \in 1..Len(stack) - 1 :
         Loading(stack[i]) /\ Loading(stack[j]) /\ File(stack[i]) = File(stack[j]) => i = j
  BY <1>a DEF CInv
<1>7. \A i \in DOMAIN stack' : \/ i \in 1..Len(stack) - 1 /\ stack'[i] = stack[i]
                               \/ i = Len(stack) /\ stack'[i] = frame
                               \/ i = Len(stack) + 1 /\ stack'[i] = new
  <2>1. \A n \in Nat : \A i \in 1..n + 1 : i \in 1..n - 1 \/ i = n \/ i = n + 1
    OBVIOUS
  <2> QED BY <1>1, <1>2, <1>4, <2>1
<1>8. \A i \in DOMAIN stack' : IsFrame(stack'[i])
  BY <1>0, <1>5, <1>7 DEF MayReplaceTop
<1>9. \A i \in DOMAIN stack' : Loading(stack'[i]) => File(stack'[i]) \in loaded'
  BY <1>0, <1>5, <1>7 DEF MayReplaceTop
<1>10. \A i, j \in DOMAIN stack' :
          Loading(stack'[i]) /\ Loading(stack'[j]) /\ File(stack'[i]) = File(stack'[j]) => i = j
  BY <1>0, <1>5, <1>6, <1>7
<1> QED BY <1>3, <1>8, <1>9, <1>10 DEF CInv, IsFrame, Loading, File

-----------------------------------------------------------------------------
(* The actions *)

LEMMA TopOfStack ==
  ASSUME CInv, stack # << >>
  PROVE  Len(stack) \in DOMAIN stack /\ IsFrame(Top) /\ (Loading(Top) => File(Top) \in loaded)
<1>1. Len(stack) \in Nat /\ Len(stack) > 0 /\ DOMAIN stack = 1..Len(stack)
  BY DEF CInv
<1>2. Len(stack) \in DOMAIN stack
  BY <1>1
<1> QED BY <1>2 DEF CInv, Top

\* A frame that goes on with the file of the top, which is being loaded.
LEMMA SameFile ==
  ASSUME CInv, stack # << >>, loaded \subseteq loaded', Top.at # "start",
         NEW frame, IsFrame(frame), frame.fn = Top.fn, frame.name = Top.name
  PROVE  MayReplaceTop(frame)
  BY TopOfStack DEF MayReplaceTop, Loading, File

LEMMA PackageStep ==
  ASSUME CInv, loadGoPackage \/ ToolLoaded \/ YMLLoaded
  PROVE  CInv'
<1>1. stack # << >> /\ IsFrame(Top) /\ Top.fn = "package" /\ loaded' = loaded
  BY TopOfStack DEF loadGoPackage, ToolLoaded, YMLLoaded, Asked, Answered, In
<1>2. \/ stack' = Front(stack)
      \/ \E frame : /\ MayReplaceTop(frame)
                    /\ \E fn \in {"tool", "yml"} : \E name :
                          stack' = Append(Append(Front(stack), frame), Frame(fn, name))
  BY <1>1 DEF loadGoPackage, ToolLoaded, YMLLoaded, Return, Call, MayReplaceTop, Loading, IsFrame
<1> QED BY <1>1, <1>2, ReturnKeeps, CallKeeps

LEMMA StartLoadingStep ==
  ASSUME CInv, loadGoFile \/ loadYMLFile
  PROVE  CInv'
<1>1. /\ stack # << >> /\ IsFrame(Top) /\ Top.fn \in {"tool", "yml"} /\ loaded \subseteq loaded'
      /\ File(Top) \in loaded'
  BY TopOfStack DEF loadGoFile, loadYMLFile, Asked, In, MarkLoaded, Tool, Yml, File
<1>2. \/ stack' = Front(stack)
      \/ \E frame : MayReplaceTop(frame) /\ stack' = Append(Front(stack), frame)
  BY <1>1 DEF loadGoFile, loadYMLFile, Asked, In, Return, ListingFails, Continue, Tool, Yml,
     MayReplaceTop, Loading, File, IsFrame
<1> QED BY <1>1, <1>2, ReturnKeeps, ContinueKeeps

LEMMA GoOnStep ==
  ASSUME CInv,
         \/ LoadImport \/ ImportLoaded \/ EndImports
         \/ LoadExtension \/ ExtensionLoaded \/ EndExtends
  PROVE  CInv'
<1> USE DEF LoadImport, ImportLoaded, EndImports, LoadExtension, ExtensionLoaded, EndExtends
<1>1. /\ stack # << >> /\ IsFrame(Top) /\ loaded' = loaded /\ Top.at # "start"
  BY TopOfStack DEF Asked, Answered, In
<1>2. \/ stack' = Front(stack)
      \/ \E todo, cfgs : stack' = Append(Front(stack), [Top EXCEPT !.todo = todo, !.cfgs = cfgs])
      \/ \E fn \in {"package", "yml"} : \E name : 
            stack' = Append(Append(Front(stack), Top), Frame(fn, name))
  BY <1>1 DEF Return, Continue, Call, ListingFails, IsFrame
<1>3. MayReplaceTop(Top)
  BY <1>1, SameFile
<1>4. ASSUME NEW todo, NEW cfgs
      PROVE  MayReplaceTop([Top EXCEPT !.todo = todo, !.cfgs = cfgs])
  BY <1>1, SameFile DEF IsFrame
<1> QED BY <1>1, <1>2, <1>3, <1>4, ReturnKeeps, ContinueKeeps, CallKeeps

LEMMA NextStep == CInv /\ [CNext]_vars => CInv'
<1> SUFFICES ASSUME CInv, [CNext]_vars PROVE CInv'
  OBVIOUS
<1>1. CASE UNCHANGED vars \/ Ended
  BY <1>1 DEF Ended, vars, CInv, IsFrame, Loading, File
<1>2. CASE Start
  <2>1. CASE stack' = stack
    BY <1>2, <2>1 DEF Start, Outside, CInv, IsFrame, Loading, File
  <2>2. CASE \E root : stack' = <<Frame("package", root)>>
    <3>1. PICK root : stack' = <<Frame("package", root)>>
      BY <2>2
    <3>2. IsFrame(Frame("package", root)) /\ ~Loading(Frame("package", root))
      BY DEF Frame, IsFrame, Loading
    <3>3. /\ DOMAIN stack' = {1} /\ stack'[1] = Frame("package", root)
          /\ stack' \in Seq({stack'[i] : i \in DOMAIN stack'})
      BY <3>1
    <3> QED BY <3>2, <3>3 DEF CInv, IsFrame, Loading, File
  <2> QED BY <1>2, <2>1, <2>2 DEF Start
<1>3. CASE End
  BY <1>3 DEF End, Outside, CInv, IsFrame, Loading, File
<1> QED BY <1>1, <1>2, <1>3, PackageStep, StartLoadingStep, GoOnStep DEF CNext

-----------------------------------------------------------------------------
(* Worlds, and what they reach *)

LEMMA WorldFacts ==
  ASSUME world \in worlds
  PROVE  /\ world.root \in DOMAIN world.tool
         /\ DOMAIN world.tool \subseteq DOMAIN world.yml
         /\ \A p \in DOMAIN world.tool :
               /\ world.tool[p].state \in {"ok", "error", "notExist"}
               /\ Listed(world.tool[p].imports) \in Seq(ToSet(Listed(world.tool[p].imports)))
               /\ ToSet(Listed(world.tool[p].imports)) \subseteq DOMAIN world.tool
         /\ \A f \in DOMAIN world.yml :
               /\ parseYMLFile(f) \in {"ok", "error", "notExist"}
               /\ parseYMLFile(f) = "notExist" => world.yml[f].state = "notExist"
               /\ world.yml[f].extends \in Seq(ToSet(world.yml[f].extends))
               /\ \A ext \in ToSet(world.yml[f].extends) :
                     /\ ext.is \in {"dir", "file", "missing"}
                     /\ ext.is = "dir" => ext.name \in DOMAIN world.tool
                     /\ ext.is = "file" => ext.name \in DOMAIN world.yml /\ ext.name # BuiltIn
<1>1. IsWorld(world)
  BY WorldsAssumption
<1>2. ASSUME NEW S, NEW s \in Seq(S)
      PROVE  s \in Seq(ToSet(s)) /\ ToSet(s) \subseteq S
  BY DEF ToSet
<1>3. ASSUME NEW p \in DOMAIN world.tool
      PROVE  Listed(world.tool[p].imports) \in Seq(DOMAIN world.tool)
  <2>1. world.tool[p].imports \in Seq(DOMAIN world.tool) /\ world.root \in DOMAIN world.tool
    BY <1>1 DEF IsWorld
  <2>2. \A S : \A r \in S : <<r>> \in Seq(S)
    OBVIOUS
  <2>3. <<world.root>> \in Seq(DOMAIN world.tool)
    BY <2>1, <2>2
  <2> QED BY <2>1, <2>3 DEF Listed
<1>4. ASSUME NEW p \in DOMAIN world.tool
      PROVE  /\ Listed(world.tool[p].imports) \in Seq(ToSet(Listed(world.tool[p].imports)))
             /\ ToSet(Listed(world.tool[p].imports)) \subseteq DOMAIN world.tool
  BY <1>2, <1>3
<1>5. ASSUME NEW f \in DOMAIN world.yml
      PROVE  /\ parseYMLFile(f) \in {"ok", "error", "notExist"}
             /\ parseYMLFile(f) = "notExist" => world.yml[f].state = "notExist"
  BY <1>1 DEF IsWorld, parseYMLFile, ValidateObject
<1>6. ASSUME NEW f \in DOMAIN world.yml
      PROVE  /\ world.yml[f].extends \in Seq(ToSet(world.yml[f].extends))
             /\ ToSet(world.yml[f].extends) \subseteq Extensions(world)
  BY <1>1, <1>2 DEF IsWorld
<1>7. \A ext \in Extensions(world) :
         /\ ext.is \in {"dir", "file", "missing"}
         /\ ext.is = "dir" => ext.name \in DOMAIN world.tool
         /\ ext.is = "file" => ext.name \in DOMAIN world.yml /\ ext.name # BuiltIn
  BY DEF Extensions
<1> QED BY <1>1, <1>4, <1>5, <1>6, <1>7 DEF IsWorld

LEMMA FilesFacts ==
  ASSUME world \in worlds
  PROVE  /\ \A f : Yml(f) \in FilesOf(f) /\ \A n \in FilesOf(f) : n \in {Tool(f), Yml(f)}
         /\ \A p \in DOMAIN world.tool : FilesOf(p) = {Tool(p), Yml(p)} /\ FilesOf(p) \subseteq AllFiles
         /\ \A f \in DOMAIN world.yml : Yml(f) \in AllFiles
         /\ \A n \in AllFiles : \/ n[1] = "tool" /\ n[2] \in DOMAIN world.tool
                                \/ n[1] = "yml" /\ n[2] \in DOMAIN world.yml
BY WorldFacts DEF FilesOf, AllFiles, Tool, Yml

LEMMA LeadsFacts ==
  ASSUME world \in worlds, NEW n \in AllFiles
  PROVE  Leads(n) \subseteq AllFiles
<1>1. CASE n[1] = "tool" /\ n[2] \in DOMAIN world.tool
  BY <1>1, FilesFacts, WorldFacts DEF Leads
<1>2. CASE n[1] = "yml" /\ n[2] \in DOMAIN world.yml
  <2>1. ASSUME NEW ext \in ToSet(world.yml[n[2]].extends)
        PROVE  FilesOfExtension(ext) \subseteq AllFiles
    BY <1>2, FilesFacts, WorldFacts DEF FilesOfExtension
  <2> QED BY <1>2, <2>1 DEF Leads
<1> QED BY <1>1, <1>2, FilesFacts

\* What is reached is the least set of files with those of the root that is closed.
LEMMA ReachableFacts ==
  ASSUME world \in worlds
  PROVE  /\ FilesOf(world.root) \subseteq Reachable /\ Reachable \subseteq AllFiles
         /\ \A n \in Reachable : n[2] # BuiltIn => Leads(n) \subseteq Reachable
         /\ \A T \in SUBSET AllFiles : FilesOf(world.root) \subseteq T /\ IsClosed(T) => Reachable \subseteq T
<1>1. FilesOf(world.root) \subseteq AllFiles
  BY FilesFacts, WorldFacts
<1>2. FilesOf(world.root) \subseteq Reachable /\ Reachable \subseteq AllFiles
  BY <1>1 DEF Reachable, ReachableFrom
<1>3. ASSUME NEW n \in Reachable, n[2] # BuiltIn, NEW m \in Leads(n) PROVE m \in Reachable
  <2>1. m \in AllFiles
    BY <1>2, LeadsFacts
  <2>2. ASSUME NEW T \in SUBSET AllFiles, FilesOf(world.root) \subseteq T, IsClosed(T) PROVE m \in T
    BY <1>3, <2>2 DEF IsClosed, Reachable, ReachableFrom
  <2> QED BY <2>1, <2>2 DEF Reachable, ReachableFrom
<1>4. ASSUME NEW T \in SUBSET AllFiles, FilesOf(world.root) \subseteq T, IsClosed(T)
      PROVE  Reachable \subseteq T
  BY <1>4 DEF Reachable, ReachableFrom
<1> QED BY <1>2, <1>3, <1>4

\* The files of the world stay as they are.
LEMMA SameWorld ==
  ASSUME world' = world
  PROVE  /\ Reachable' = Reachable
         /\ \A n : Leads(n)' = Leads(n) /\ Duties(n)' = Duties(n) /\ (Wrong(n)' <=> Wrong(n))
         /\ \A f : /\ FilesOf(f)' = FilesOf(f) /\ parseYMLFile(f)' = parseYMLFile(f)
                   /\ packageRoot(f)' <=> packageRoot(f)
         /\ \A ext : Exists(ext)' <=> Exists(ext)
         /\ \A frame : Pending(frame)' = Pending(frame) /\ (Waiting(frame)' <=> Waiting(frame))
         /\ \A fn, name : AskedFor(fn, name)' = AskedFor(fn, name)
<1>1. \A f : /\ FilesOf(f)' = FilesOf(f) /\ parseYMLFile(f)' = parseYMLFile(f)
             /\ packageRoot(f)' <=> packageRoot(f)
  BY DEF FilesOf, parseYMLFile, packageRoot, ValidateObject
<1>2. \A ext : Exists(ext)' <=> Exists(ext)
  BY DEF Exists
<1>3. \A ext : FilesOfExtension(ext)' = FilesOfExtension(ext)
  BY DEF FilesOfExtension, FilesOf
<1>4. \A n : Leads(n)' = Leads(n)
  BY DEF Leads, FilesOf, FilesOfExtension, parseYMLFile, ValidateObject, Listed
<1>5. \A n : Duties(n)' = Duties(n)
  BY <1>1, <1>4 DEF Duties, parseYMLFile, ValidateObject
<1>6. \A n : Wrong(n)' <=> Wrong(n)
  BY DEF Wrong, packageRoot, parseYMLFile, ValidateObject, Exists
<1>7. Reachable' = Reachable
  BY DEF Reachable, ReachableFrom, AllFiles, FilesOf, IsClosed, Leads, FilesOfExtension, parseYMLFile,
         ValidateObject, Listed
<1>8. \A frame : Pending(frame)' = Pending(frame)
  BY DEF Pending, FilesOf, DutiesOf, FilesOfExtension
<1>9. \A frame : Waiting(frame)' <=> Waiting(frame)
  BY DEF Waiting, Exists
<1>10. \A fn, name : AskedFor(fn, name)' = AskedFor(fn, name)
  BY DEF AskedFor, FilesOf
<1> QED BY <1>1, <1>2, <1>4, <1>5, <1>6, <1>7, <1>8, <1>9, <1>10

-----------------------------------------------------------------------------
(* The frames, after a return, when the top goes on, and after a call *)

LEMMA StackFacts ==
  ASSUME CInv, stack # << >>
  PROVE  /\ Len(stack) \in Nat /\ Len(stack) > 0 /\ DOMAIN stack = 1..Len(stack)
         /\ Len(stack) \in DOMAIN stack /\ Len(stack) + 1 \notin DOMAIN stack
         /\ 1 \in DOMAIN stack
         /\ stack[Len(stack)] = Top /\ IsFrame(Top)
<1>1. Len(stack) \in Nat /\ Len(stack) > 0 /\ DOMAIN stack = 1..Len(stack)
  BY DEF CInv
<1>2. /\ Len(stack) \in DOMAIN stack /\ Len(stack) + 1 \notin DOMAIN stack
      /\ 1 \in DOMAIN stack
  BY <1>1
<1> QED BY <1>1, <1>2 DEF CInv, Top

LEMMA AfterReturn ==
  ASSUME CInv, stack # << >>, stack' = Front(stack)
  PROVE  /\ \A i \in DOMAIN stack' : i \in DOMAIN stack /\ i + 1 \in DOMAIN stack /\ stack'[i] = stack[i]
         /\ \A i \in DOMAIN stack : i \in DOMAIN stack' \/ stack[i] = Top
         /\ stack' = << >> => stack[1] = Top
         /\ stack' # << >> =>
               /\ stack'[1] = stack[1]
               /\ \E i \in DOMAIN stack : i + 1 \in DOMAIN stack /\ Top' = stack[i] /\ stack[i + 1] = Top
<1> DEFINE n == Len(stack)
<1>1. n \in Nat /\ n > 0 /\ DOMAIN stack = 1..n /\ stack[n] = Top
  BY StackFacts
<1>2. stack \in Seq({stack[i] : i \in DOMAIN stack})
  BY DEF CInv
<1>3. /\ stack' \in Seq({stack[i] : i \in DOMAIN stack}) /\ Len(stack') = n - 1
      /\ \A i \in 1..n - 1 : stack'[i] = stack[i]
  BY <1>2, Pop
<1>4. DOMAIN stack' = 1..n - 1
  BY <1>3
<1> HIDE DEF n
<1>5. /\ \A i \in 1..n - 1 : i \in 1..n /\ i + 1 \in 1..n
      /\ \A i \in 1..n : i \in 1..n - 1 \/ i = n
      /\ n # 1 => 1 \in 1..n - 1 /\ n - 1 \in 1..n - 1 /\ n - 1 + 1 = n
  BY <1>1
<1>6. stack' = << >> => n = 1
  BY <1>1, <1>3
<1>7. stack' # << >> => n # 1
  BY <1>1, <1>3
<1>8. n # 1 => Top' = stack[n - 1]
  BY <1>3, <1>5 DEF Top
<1> QED BY <1>1, <1>3, <1>4, <1>5, <1>6, <1>7, <1>8

LEMMA AfterContinue ==
  ASSUME CInv, stack # << >>, NEW frame, stack' = Append(Front(stack), frame)
  PROVE  /\ stack' # << >> /\ DOMAIN stack' = DOMAIN stack /\ Top' = frame
         /\ \A i \in DOMAIN stack : stack'[i] = IF i = Len(stack) THEN frame ELSE stack[i]
<1> DEFINE n == Len(stack)
           S == {stack[i] : i \in DOMAIN stack} \cup {frame}
<1>1. n \in Nat /\ n > 0 /\ DOMAIN stack = 1..n
  BY StackFacts
<1>2. stack \in Seq(S)
  BY DEF CInv
<1>3. /\ stack' \in Seq(S) /\ Len(stack') = n
      /\ \A i \in 1..n - 1 : stack'[i] = stack[i]
      /\ stack'[n] = frame
  BY <1>2, Replace
<1> HIDE DEF S
<1>4. DOMAIN stack' = 1..n /\ stack' # << >>
  <2>1. DOMAIN stack' = 1..n
    BY <1>3
  <2>2. Len(stack') # 0
    BY <1>1, <1>3
  <2> QED BY <2>1, <2>2
<1>5. Top' = frame
  BY <1>3 DEF Top
<1> HIDE DEF n
<1>6. \A i \in 1..n : i \in 1..n - 1 \/ i = n
  BY <1>1
<1>7. \A i \in DOMAIN stack : stack'[i] = IF i = n THEN frame ELSE stack[i]
  BY <1>1, <1>3, <1>6
<1> QED BY <1>1, <1>4, <1>5, <1>7 DEF n

LEMMA AfterCall ==
  ASSUME CInv, stack # << >>, NEW frame, NEW new, stack' = Append(Append(Front(stack), frame), new)
  PROVE  /\ stack' # << >> /\ DOMAIN stack' = DOMAIN stack \cup {Len(stack) + 1} /\ Top' = new
         /\ \A i \in DOMAIN stack : stack'[i] = IF i = Len(stack) THEN frame ELSE stack[i]
         /\ stack'[Len(stack) + 1] = new
<1> DEFINE n == Len(stack)
           S == {stack[i] : i \in DOMAIN stack} \cup {frame, new}
<1>1. n \in Nat /\ n > 0 /\ DOMAIN stack = 1..n
  BY StackFacts
<1>2. stack \in Seq(S)
  BY DEF CInv
<1>3. /\ stack' \in Seq(S) /\ Len(stack') = n + 1
      /\ \A i \in 1..n - 1 : stack'[i] = stack[i]
      /\ stack'[n] = frame /\ stack'[n + 1] = new
  BY <1>2, Push
<1> HIDE DEF S
<1>4. DOMAIN stack' = 1..n + 1 /\ stack' # << >>
  <2>1. DOMAIN stack' = 1..n + 1
    BY <1>3
  <2>2. Len(stack') # 0
    <3>1. n \in Nat /\ Len(stack') = n + 1
      BY <1>1, <1>3
    <3> HIDE DEF n
    <3> QED BY <3>1
  <2> QED BY <2>1, <2>2
<1>5. Top' = new
  BY <1>3 DEF Top
<1> HIDE DEF n
<1>6. /\ \A i \in 1..n : i \in 1..n - 1 \/ i = n
      /\ 1..n + 1 = 1..n \cup {n + 1}
  BY <1>1
<1>7. \A i \in DOMAIN stack : stack'[i] = IF i = n THEN frame ELSE stack[i]
  BY <1>1, <1>3, <1>6
<1> QED BY <1>1, <1>3, <1>4, <1>5, <1>6, <1>7 DEF n

LEMMA FrameKept ==
  ASSUME world' = world, loaded \subseteq loaded'
  PROVE  \A frame : FrameOK(frame) => FrameOK(frame)'
<1> SUFFICES ASSUME NEW frame, FrameOK(frame) PROVE FrameOK(frame)'
  OBVIOUS
<1>1. \A imports : Listed(imports)' = Listed(imports)
  BY DEF Listed
<1> QED BY <1>1, SameWorld DEF FrameOK

LEMMA FramesAfterReturn ==
  ASSUME CInv, FramesOK, world' = world, result' = result, loaded \subseteq loaded', stack # << >>,
         NEW kind, NEW cfg, Return(kind, cfg)
  PROVE  FramesOK' /\ LastCall' = <<Top.fn, Top.name>>
<1>1. stack' = Front(stack)
  BY DEF Return
<1>2. \A i \in DOMAIN stack' : FrameOK(stack[i])'
  BY <1>1, AfterReturn, FrameKept DEF FramesOK
<1>3. stack' # << >> => stack'[1].fn = "package" /\ stack'[1].name = world'.root
  BY <1>1, AfterReturn DEF FramesOK
<1>4. \A i \in DOMAIN stack' : i + 1 \in DOMAIN stack' =>
         Waiting(stack[i])' /\ Callee(stack'[i]) = <<stack'[i + 1].fn, stack'[i + 1].name>>
  BY <1>1, AfterReturn, SameWorld DEF FramesOK
<1>5. stack' # << >> => Waiting(Top)' /\ Callee(Top') = <<Top.fn, Top.name>>
  BY <1>1, AfterReturn, SameWorld DEF FramesOK
<1>6. LastCall' = <<Top.fn, Top.name>>
  <2>1. CASE stack' = << >>
    BY <1>1, <2>1, AfterReturn DEF LastCall, FramesOK
  <2>2. CASE stack' # << >>
    BY <1>5, <2>2 DEF LastCall
  <2> QED BY <2>1, <2>2
<1> QED BY <1>2, <1>3, <1>4, <1>5, <1>6 DEF FramesOK

LEMMA FramesAfterContinue ==
  ASSUME CInv, FramesOK, world' = world, result' = result, loaded \subseteq loaded', stack # << >>,
         NEW frame, Continue(frame), FrameOK(frame)', frame.fn = Top.fn, frame.name = Top.name
  PROVE  FramesOK'
<1>1. stack' = Append(Front(stack), frame) /\ ret' = None
  BY DEF Continue
<1>2. /\ stack' # << >> /\ DOMAIN stack' = DOMAIN stack
      /\ \A i \in DOMAIN stack : stack'[i] = IF i = Len(stack) THEN frame ELSE stack[i]
  BY <1>1, AfterContinue
<1>3. \A i \in DOMAIN stack : stack'[i].fn = stack[i].fn /\ stack'[i].name = stack[i].name
  BY <1>2, StackFacts
<1>4. \A i \in DOMAIN stack' : FrameOK(stack[i])'
  BY <1>2, FrameKept DEF FramesOK
<1>5. stack'[1].fn = "package" /\ stack'[1].name = world'.root
  BY <1>3, StackFacts DEF FramesOK
<1>6. \A i \in DOMAIN stack' : i + 1 \in DOMAIN stack' =>
         Waiting(stack[i])' /\ Callee(stack'[i]) = <<stack'[i + 1].fn, stack'[i + 1].name>>
  BY <1>2, <1>3, StackFacts, SameWorld DEF FramesOK
<1> QED BY <1>1, <1>2, <1>4, <1>5, <1>6 DEF FramesOK

LEMMA FramesAfterCall ==
  ASSUME CInv, FramesOK, world' = world, result' = result, loaded \subseteq loaded', stack # << >>,
         NEW frame, NEW fn, NEW name, Call(frame, fn, name),
         FrameOK(frame)', frame.fn = Top.fn, frame.name = Top.name,
         Waiting(frame), Callee(frame) = <<fn, name>>, FrameOK(Frame(fn, name))'
  PROVE  FramesOK'
<1> DEFINE new == Frame(fn, name)
<1>0. stack' = Append(Append(Front(stack), frame), new) /\ ret' = None /\ new.fn = fn /\ new.name = name
  BY DEF Call, Frame
<1>1. FrameOK(new)'
  OBVIOUS
<1> HIDE DEF new
<1>2. /\ stack' # << >> /\ DOMAIN stack' = DOMAIN stack \cup {Len(stack) + 1}
      /\ \A i \in DOMAIN stack : stack'[i] = IF i = Len(stack) THEN frame ELSE stack[i]
      /\ stack'[Len(stack) + 1] = new
  BY <1>0, AfterCall
<1>3. \A i \in DOMAIN stack : stack'[i].fn = stack[i].fn /\ stack'[i].name = stack[i].name
  BY <1>2, StackFacts
<1>4. \A i \in DOMAIN stack' : FrameOK(stack[i])'
  BY <1>1, <1>2, FrameKept DEF FramesOK
<1>5. stack'[1].fn = "package" /\ stack'[1].name = world'.root
  BY <1>3, StackFacts DEF FramesOK
<1>6. ASSUME NEW i \in DOMAIN stack', i + 1 \in DOMAIN stack'
      PROVE  Waiting(stack[i])' /\ Callee(stack'[i]) = <<stack'[i + 1].fn, stack'[i + 1].name>>
  <2>1. i \in DOMAIN stack
    BY <1>2, <1>6, StackFacts
  <2>2. CASE i = Len(stack)
    BY <1>0, <1>2, <2>1, <2>2, SameWorld
  <2>3. CASE i # Len(stack)
    <3>1. i + 1 \in DOMAIN stack /\ stack'[i] = stack[i]
      BY <1>2, <2>1, <2>3, StackFacts
    <3> QED BY <1>3, <2>1, <3>1, SameWorld DEF FramesOK
  <2> QED BY <2>2, <2>3
<1> QED BY <1>0, <1>2, <1>4, <1>5, <1>6 DEF FramesOK

-----------------------------------------------------------------------------
(* What files call for, after each kind of step *)

IsFor(frame, n) == n = <<frame.fn, frame.name>>
DutiesDone ==
  \A n \in loaded : \A d \in Duties(n) :
      Settled(d) \/ \E i \in DOMAIN stack : IsFor(stack[i], n) /\ d \in Pending(stack[i])

FilesUsable ==
  \A n \in loaded : IF n[1] = "tool" THEN packageRoot(n[2]) /\ world.tool[n[2]].state # "error"
                    ELSE parseYMLFile(n[2]) # "error"

LEMMA SettledKept ==
  ASSUME world' = world, loaded \subseteq loaded'
  PROVE  \A d : Settled(d) => Settled(d)'
<1> QED BY SameWorld DEF Settled

LEMMA UsableKept ==
  ASSUME world' = world, FilesUsable, NEW n,
         loaded' = loaded \/ /\ loaded' = loaded \cup {n}
                             /\ IF n[1] = "tool" THEN packageRoot(n[2]) /\ world.tool[n[2]].state # "error"
                                ELSE parseYMLFile(n[2]) # "error"
  PROVE  FilesUsable'
<1> QED BY SameWorld DEF FilesUsable

LEMMA DutiesAfterReturn ==
  ASSUME CInv, DutiesDone, stack # << >>, world' = world, loaded \subseteq loaded',
         stack' = Front(stack), \A d \in Pending(Top) : Settled(d)',
         \A n \in loaded' \ loaded : Duties(n) = {}
  PROVE  DutiesDone'
<1> SUFFICES ASSUME NEW n \in loaded', NEW d \in Duties(n)
             PROVE  Settled(d)' \/ \E i \in DOMAIN stack' : IsFor(stack'[i], n) /\ d \in Pending(stack[i])'
  BY SameWorld DEF DutiesDone, IsFor
<1>1. Settled(d) \/ \E i \in DOMAIN stack : IsFor(stack[i], n) /\ d \in Pending(stack[i])
  BY DEF DutiesDone
<1>2. CASE Settled(d)
  BY <1>2, SettledKept
<1>3. CASE \E i \in DOMAIN stack : IsFor(stack[i], n) /\ d \in Pending(stack[i])
  <2>1. PICK i \in DOMAIN stack : IsFor(stack[i], n) /\ d \in Pending(stack[i])
    BY <1>3
  <2>2. CASE i \in DOMAIN stack'
    <3>1. stack'[i] = stack[i]
      BY <2>2, AfterReturn
    <3> QED BY <2>1, <2>2, <3>1, SameWorld
  <2>3. CASE stack[i] = Top
    BY <2>1, <2>3
  <2> QED BY <2>2, <2>3, AfterReturn
<1> QED BY <1>1, <1>2, <1>3

LEMMA DutiesAfterContinue ==
  ASSUME CInv, DutiesDone, stack # << >>, world' = world, loaded \subseteq loaded',
         NEW frame, stack' = Append(Front(stack), frame), frame.fn = Top.fn, frame.name = Top.name,
         \A d \in Pending(Top) : Settled(d)' \/ d \in Pending(frame),
         \A n \in loaded' \ loaded : IsFor(frame, n) /\ Duties(n) \subseteq Pending(frame)
  PROVE  DutiesDone'
<1>1. /\ DOMAIN stack' = DOMAIN stack /\ Len(stack) \in DOMAIN stack /\ stack[Len(stack)] = Top
      /\ \A i \in DOMAIN stack : stack'[i] = IF i = Len(stack) THEN frame ELSE stack[i]
  BY AfterContinue, StackFacts
<1> SUFFICES ASSUME NEW n \in loaded', NEW d \in Duties(n)
             PROVE  Settled(d)' \/ \E i \in DOMAIN stack' : IsFor(stack'[i], n) /\ d \in Pending(stack[i])'
  BY SameWorld DEF DutiesDone, IsFor
<1>2. IsFor(frame, n) /\ d \in Pending(frame) =>
         \E i \in DOMAIN stack' : IsFor(stack'[i], n) /\ d \in Pending(stack[i])'
  BY <1>1, SameWorld
<1>3. CASE n \notin loaded
  BY <1>2, <1>3
<1>4. CASE n \in loaded /\ Settled(d)
  BY <1>4, SettledKept
<1>5. CASE n \in loaded /\ \E i \in DOMAIN stack : IsFor(stack[i], n) /\ d \in Pending(stack[i])
  <2>1. PICK i \in DOMAIN stack : IsFor(stack[i], n) /\ d \in Pending(stack[i])
    BY <1>5
  <2>2. CASE i = Len(stack)
    BY <1>1, <1>2, <2>1, <2>2 DEF IsFor
  <2>3. CASE i # Len(stack)
    BY <1>1, <2>1, <2>3, SameWorld
  <2> QED BY <2>2, <2>3
<1> QED BY <1>3, <1>4, <1>5 DEF DutiesDone

LEMMA DutiesAfterCall ==
  ASSUME CInv, DutiesDone, stack # << >>, world' = world, loaded' = loaded,
         NEW frame, NEW new, stack' = Append(Append(Front(stack), frame), new),
         frame.fn = Top.fn, frame.name = Top.name,
         \A d \in Pending(Top) : Settled(d) \/ d \in Pending(frame)
  PROVE  DutiesDone'
<1>1. /\ DOMAIN stack \subseteq DOMAIN stack' /\ Len(stack) \in DOMAIN stack /\ stack[Len(stack)] = Top
      /\ \A i \in DOMAIN stack : stack'[i] = IF i = Len(stack) THEN frame ELSE stack[i]
  BY AfterCall, StackFacts
<1> SUFFICES ASSUME NEW n \in loaded, NEW d \in Duties(n)
             PROVE  Settled(d)' \/ \E i \in DOMAIN stack' : IsFor(stack'[i], n) /\ d \in Pending(stack[i])'
  BY SameWorld DEF DutiesDone, IsFor
<1>2. IsFor(frame, n) /\ d \in Pending(frame) =>
         \E i \in DOMAIN stack' : IsFor(stack'[i], n) /\ d \in Pending(stack[i])'
  BY <1>1, SameWorld
<1>3. CASE Settled(d)
  BY <1>3, SettledKept
<1>4. CASE \E i \in DOMAIN stack : IsFor(stack[i], n) /\ d \in Pending(stack[i])
  <2>1. PICK i \in DOMAIN stack : IsFor(stack[i], n) /\ d \in Pending(stack[i])
    BY <1>4
  <2>2. CASE i = Len(stack)
    BY <1>1, <1>2, <2>1, <2>2, SettledKept DEF IsFor
  <2>3. CASE i # Len(stack)
    BY <1>1, <2>1, <2>3, SameWorld
  <2> QED BY <2>2, <2>3
<1> QED BY <1>3, <1>4 DEF DutiesDone

-----------------------------------------------------------------------------
(* The invariant, after each kind of step *)

Inv == CInv /\ LoadInv

LEMMA InvFacts ==
  ASSUME Inv, stack # << >>
  PROVE  /\ CInv /\ world \in worlds /\ FramesOK /\ FrameOK(Top) /\ IsFrame(Top) /\ result.kind = "none"
         /\ LastCall = Callee(Top)
         /\ ret # None => Waiting(Top)
         /\ ret.kind \in {"none", "ok", "error", "notExist"} /\ (ret.kind = "none" => ret = None)
         /\ ret.kind # "error" =>
               /\ DutiesDone /\ FilesUsable /\ ~unlisted
               /\ ret.kind \in {"ok", "notExist"} =>
                     \A n \in AskedFor(Callee(Top)[1], Callee(Top)[2]) : Settled(n)
         /\ ret.kind = "error" => unlisted \/ \E n \in Reachable : Wrong(n)
         /\ ret.kind = "notExist" => \/ Callee(Top)[1] = "tool"
                                     \/ Callee(Top)[1] = "yml" /\ world.yml[Callee(Top)[2]].state = "notExist"
<1>1. FrameOK(Top) /\ IsFrame(Top)
  BY StackFacts DEF Inv, LoadInv, FramesOK
<1>2. LastCall = Callee(Top)
  BY DEF LastCall
<1> QED BY <1>1, <1>2 DEF Inv, LoadInv, FramesOK, NothingForgotten, ErrorsAreDue, DutiesDone, FilesUsable, IsFor

\* A call that found what it was asked for, or found that it does not exist.
LEMMA ReturnStep ==
  ASSUME Inv, stack # << >>, UNCHANGED <<world, result, unlisted>>, loaded \subseteq loaded', ret.kind # "error",
         FilesUsable', \A n \in loaded' \ loaded : Duties(n) = {},
         NEW kind \in {"ok", "notExist"}, NEW cfg, Return(kind, cfg),
         kind = "notExist" => \/ Top.fn = "tool"
                              \/ Top.fn = "yml" /\ world.yml[Top.name].state = "notExist",
         \A d \in Pending(Top) : Settled(d)',
         \A n \in AskedFor(Top.fn, Top.name) : Settled(n)'
  PROVE  LoadInv'
<1>1. FramesOK' /\ LastCall' = <<Top.fn, Top.name>>
  BY InvFacts, FramesAfterReturn
<1>2. ret' = [kind |-> kind, cfg |-> cfg] /\ stack' = Front(stack)
  BY DEF Return
<1>3. DutiesDone'
  BY <1>2, InvFacts, DutiesAfterReturn
<1>4. \A n \in AskedFor(LastCall[1], LastCall[2])' : Settled(n)'
  BY <1>1, SameWorld
<1>5. NothingForgotten'
  BY <1>3, <1>4, InvFacts DEF NothingForgotten, DutiesDone, FilesUsable, IsFor
<1>6. ErrorsAreDue'
  BY <1>1, <1>2, InvFacts DEF ErrorsAreDue
<1>7. ErrorsAreExact'
  BY InvFacts DEF ErrorsAreExact, Succeeded
<1> QED BY <1>1, <1>5, <1>6, <1>7, InvFacts DEF LoadInv

LEMMA ErrorStep ==
  ASSUME Inv, stack # << >>, UNCHANGED <<world, result>>, loaded \subseteq loaded', unlisted => unlisted',
         unlisted' \/ \E n \in Reachable : Wrong(n), NEW cfg, Return("error", cfg)
  PROVE  LoadInv'
<1>1. FramesOK'
  BY InvFacts, FramesAfterReturn
<1>2. ret' = [kind |-> "error", cfg |-> cfg]
  BY DEF Return
<1>3. NothingForgotten'
  BY <1>2 DEF NothingForgotten
<1>4. ErrorsAreDue'
  BY <1>2, InvFacts, SameWorld DEF ErrorsAreDue
<1>5. ErrorsAreExact'
  BY InvFacts DEF ErrorsAreExact, Succeeded
<1> QED BY <1>1, <1>3, <1>4, <1>5, InvFacts DEF LoadInv

LEMMA ContinueStep ==
  ASSUME Inv, stack # << >>, UNCHANGED <<world, result, unlisted>>, loaded \subseteq loaded', ret.kind # "error",
         FilesUsable', NEW frame, Continue(frame), FrameOK(frame)', frame.fn = Top.fn, frame.name = Top.name,
         \A d \in Pending(Top) : Settled(d)' \/ d \in Pending(frame),
         \A n \in loaded' \ loaded : IsFor(frame, n) /\ Duties(n) \subseteq Pending(frame)
  PROVE  LoadInv'
<1>1. FramesOK'
  BY InvFacts, FramesAfterContinue
<1>2. ret' = None /\ stack' = Append(Front(stack), frame)
  BY DEF Continue
<1>3. DutiesDone'
  BY <1>2, InvFacts, DutiesAfterContinue
<1>4. ret'.kind = "none"
  BY <1>2 DEF None
<1>5. NothingForgotten'
  BY <1>3, <1>4, InvFacts DEF NothingForgotten, DutiesDone, FilesUsable, IsFor
<1>6. ErrorsAreDue'
  BY <1>2, <1>4, InvFacts DEF ErrorsAreDue
<1>7. ErrorsAreExact'
  BY InvFacts DEF ErrorsAreExact, Succeeded
<1> QED BY <1>1, <1>5, <1>6, <1>7, InvFacts DEF LoadInv

LEMMA CallStep ==
  ASSUME Inv, stack # << >>, UNCHANGED <<world, result, unlisted, loaded>>, ret.kind # "error",
         NEW frame, NEW fn, NEW name, Call(frame, fn, name),
         FrameOK(frame), frame.fn = Top.fn, frame.name = Top.name,
         Waiting(frame), Callee(frame) = <<fn, name>>, FrameOK(Frame(fn, name)),
         \A d \in Pending(Top) : Settled(d) \/ d \in Pending(frame)
  PROVE  LoadInv'
<1>1. FramesOK'
  BY InvFacts, FramesAfterCall, FrameKept
<1>2. ret' = None /\ stack' = Append(Append(Front(stack), frame), Frame(fn, name))
  BY DEF Call
<1>3. DutiesDone'
  BY <1>2, InvFacts, DutiesAfterCall
<1>4. FilesUsable'
  BY InvFacts, SameWorld DEF FilesUsable
<1>5. ret'.kind = "none"
  BY <1>2 DEF None
<1>6. NothingForgotten'
  BY <1>3, <1>4, <1>5, InvFacts DEF NothingForgotten, DutiesDone, FilesUsable, IsFor
<1>7. ErrorsAreDue'
  BY <1>2, <1>5, InvFacts DEF ErrorsAreDue
<1>8. ErrorsAreExact'
  BY InvFacts DEF ErrorsAreExact, Succeeded
<1> QED BY <1>1, <1>6, <1>7, <1>8, InvFacts DEF LoadInv

-----------------------------------------------------------------------------
(* The invariant, action by action *)

LEMMA HeadAndTail ==
  ASSUME NEW S, NEW s \in Seq(S), s # << >>
  PROVE  /\ Head(s) \in S /\ Head(s) \in ToSet(s) /\ Tail(s) \in Seq(S)
         /\ \A x \in ToSet(s) : x = Head(s) \/ x \in ToSet(Tail(s))
<1>1. /\ Head(s) = s[1] /\ 1 \in DOMAIN s /\ Head(s) \in S /\ Tail(s) \in Seq(S)
      /\ Len(s) \in Nat /\ DOMAIN s = 1..Len(s) /\ Len(s) # 0 /\ Len(Tail(s)) = Len(s) - 1
      /\ DOMAIN Tail(s) = 1..Len(s) - 1
      /\ \A i \in 1..Len(s) - 1 : Tail(s)[i] = s[i + 1]
  OBVIOUS
<1>2. ASSUME NEW n \in Nat, NEW i \in 1..n PROVE i = 1 \/ (i - 1 \in 1..n - 1 /\ i - 1 + 1 = i)
  OBVIOUS
<1>3. ASSUME NEW i \in DOMAIN s PROVE s[i] = Head(s) \/ \E j \in DOMAIN Tail(s) : s[i] = Tail(s)[j]
  BY <1>1, <1>2
<1> QED BY <1>1, <1>3 DEF ToSet

LEMMA NoneToDo ==
  ASSUME NEW s, s = << >>
  PROVE  ToSet(s) = {}
BY DEF ToSet

\* A new frame has to know nothing of what is loaded.
LEMMA NewFrame ==
  ASSUME NEW fn \in {"package", "tool", "yml"}, NEW name \in DOMAIN world.yml,
         AskedFor(fn, name) \subseteq Reachable, fn # "package" => name # BuiltIn,
         fn = "tool" => packageRoot(name), fn # "yml" => name \in DOMAIN world.tool
  PROVE  FrameOK(Frame(fn, name))
<1>1. /\ Frame(fn, name).fn = fn /\ Frame(fn, name).name = name /\ Frame(fn, name).at = "start"
  BY DEF Frame
<1> QED BY <1>1 DEF FrameOK

LEMMA LoadGoPackageInv ==
  ASSUME Inv, loadGoPackage
  PROVE  LoadInv'
<1> DEFINE name == Top.name
           frame == [Top EXCEPT !.at = "tool"]
<1>1. /\ stack # << >> /\ Top.fn = "package" /\ Top.at = "start" /\ ret = None
      /\ UNCHANGED <<world, result, loaded, unlisted>>
  BY DEF loadGoPackage, Asked, In, Inside
<1>2. /\ name \in DOMAIN world.tool /\ name \in DOMAIN world.yml /\ FilesOf(name) \subseteq Reachable
      /\ FilesOf(name) = {Tool(name), Yml(name)} /\ Pending(Top) = FilesOf(name)
      /\ AskedFor(Top.fn, name) = FilesOf(name)
      /\ ret.kind # "error" /\ FilesUsable
  BY <1>1, InvFacts, FilesFacts DEF FrameOK, AskedFor, Pending, None
<1>3. CASE name = BuiltIn
  <2>1. Return("ok", builtIn)
    BY <1>3 DEF loadGoPackage
  <2>2. \A d \in FilesOf(name) : Settled(d)'
    BY <1>2, <1>3 DEF Settled, Tool, Yml
  <2>3. FilesUsable'
    BY <1>1, <1>2, UsableKept
  <2> QED BY <1>1, <1>2, <2>1, <2>2, <2>3, ReturnStep
<1>4. CASE name # BuiltIn /\ ~packageRoot(name)
  <2>1. Return("error", Empty)
    BY <1>4 DEF loadGoPackage
  <2>2. Wrong(Tool(name))
    BY <1>4 DEF Wrong, Tool
  <2> QED BY <1>1, <1>2, <2>1, <2>2, ErrorStep
<1>5. CASE name # BuiltIn /\ packageRoot(name)
  <2>1. Call(frame, "tool", name)
    BY <1>5 DEF loadGoPackage
  <2>2. IsFrame(Top) /\ FrameOK(Top)
    BY <1>1, InvFacts
  <2>3. frame.fn = Top.fn /\ frame.name = name /\ frame.at = "tool"
    BY <2>2 DEF IsFrame
  <2>4. FrameOK(frame) /\ Waiting(frame) /\ Callee(frame) = <<"tool", name>>
    BY <1>1, <1>2, <1>5, <2>3 DEF FrameOK, Waiting, Callee, AskedFor
  <2>5. FrameOK(Frame("tool", name))
    BY <1>2, <1>5, NewFrame DEF AskedFor, Tool
  <2>6. Pending(frame) = Pending(Top)
    BY <1>1, <2>3 DEF Pending
  <2> HIDE DEF frame
  <2> QED BY <1>1, <1>2, <2>1, <2>3, <2>4, <2>5, <2>6, CallStep
<1> QED BY <1>3, <1>4, <1>5

LEMMA ToolLoadedInv ==
  ASSUME Inv, ToolLoaded
  PROVE  LoadInv'
<1> DEFINE name == Top.name
           frame == [Top EXCEPT !.at = "yml", !.cfgs = <<ret.cfg>>]
<1>1. /\ stack # << >> /\ Top.fn = "package" /\ Top.at = "tool" /\ ret # None
      /\ UNCHANGED <<world, result, loaded, unlisted>>
  BY DEF ToolLoaded, Answered, In, Inside
<1>2. Callee(Top) = <<"tool", name>>
  BY <1>1 DEF Callee
<1>3. CASE ret.kind = "error"
  <2>1. Return("error", Empty)
    BY <1>3 DEF ToolLoaded
  <2> QED BY <1>1, <1>3, <2>1, InvFacts, ErrorStep
<1>4. CASE ret.kind # "error"
  <2>1. Call(frame, "yml", name)
    BY <1>4 DEF ToolLoaded
  <2>2. IsFrame(Top) /\ FrameOK(Top) /\ FilesUsable /\ \A n \in AskedFor("tool", name) : Settled(n)
    BY <1>1, <1>2, <1>4, InvFacts
  <2>3. frame.fn = Top.fn /\ frame.name = name /\ frame.at = "yml"
    BY <2>2 DEF IsFrame
  <2>4. name \in DOMAIN world.tool /\ name \in DOMAIN world.yml /\ name # BuiltIn /\ FilesOf(name) \subseteq Reachable
    BY <1>1, <2>2 DEF FrameOK, AskedFor
  <2>5. Tool(name) \in loaded
    BY <2>2, <2>4 DEF AskedFor, Settled, Tool
  <2>6. FrameOK(frame) /\ Waiting(frame) /\ Callee(frame) = <<"yml", name>>
    BY <1>1, <2>2, <2>3, <2>5 DEF FrameOK, Waiting, Callee, AskedFor
  <2>7. FrameOK(Frame("yml", name))
    <3>1. AskedFor("yml", name) \subseteq Reachable
      BY <1>1, <2>4, InvFacts, FilesFacts DEF AskedFor, Yml
    <3> QED BY <2>4, <3>1, NewFrame
  <2>8. \A d \in Pending(Top) : Settled(d) \/ d \in Pending(frame)
    BY <1>1, <2>3, <2>5, FilesFacts, InvFacts DEF Pending, Settled, Tool
  <2> HIDE DEF frame
  <2> QED BY <1>1, <1>4, <2>1, <2>3, <2>6, <2>7, <2>8, CallStep
<1> QED BY <1>3, <1>4

LEMMA YMLLoadedInv ==
  ASSUME Inv, YMLLoaded
  PROVE  LoadInv'
<1> DEFINE name == Top.name
<1>1. /\ stack # << >> /\ Top.fn = "package" /\ Top.at = "yml" /\ ret # None
      /\ UNCHANGED <<world, result, loaded, unlisted>>
  BY DEF YMLLoaded, Answered, In, Inside
<1>2. Callee(Top) = <<"yml", name>>
  BY <1>1 DEF Callee
<1>3. CASE ret.kind = "error"
  <2>1. Return("error", Empty)
    BY <1>3 DEF YMLLoaded
  <2> QED BY <1>1, <1>3, <2>1, InvFacts, ErrorStep
<1>4. CASE ret.kind # "error"
  <2>1. Return("ok", configGo(Top.cfgs, ret.cfg))
    BY <1>4 DEF YMLLoaded
  <2>2. FrameOK(Top) /\ FilesUsable /\ \A n \in AskedFor("yml", name) : Settled(n)
    BY <1>1, <1>2, <1>4, InvFacts
  <2>3. Settled(Yml(name)) /\ Settled(Tool(name))
    BY <1>1, <2>2 DEF FrameOK, AskedFor, Settled, Tool, Yml
  <2>4. \A d \in FilesOf(name) : Settled(d)'
    BY <1>1, <2>3, InvFacts, FilesFacts, SettledKept
  <2>5. Pending(Top) \subseteq FilesOf(name) /\ AskedFor(Top.fn, name) = FilesOf(name)
    BY <1>1, InvFacts, FilesFacts DEF Pending, AskedFor
  <2>6. FilesUsable'
    BY <1>1, <2>2, UsableKept
  <2> QED BY <1>1, <1>4, <2>1, <2>4, <2>5, <2>6, ReturnStep
<1> QED BY <1>3, <1>4

LEMMA LoadGoFileInv ==
  ASSUME Inv, loadGoFile
  PROVE  LoadInv'
<1> PICK name : name = Top.name
  OBVIOUS
<1> PICK tool : tool = world.tool[name]
  OBVIOUS
<1> PICK frame : frame = [Top EXCEPT !.at = "imports", !.todo = Listed(tool.imports)]
  OBVIOUS
<1>1. /\ stack # << >> /\ Top.fn = "tool" /\ Top.at = "start" /\ ret = None
      /\ loaded' = loaded \cup {Tool(name)} /\ UNCHANGED <<world, result>>
  BY DEF loadGoFile, Asked, In, Inside, MarkLoaded
<1>2. /\ world \in worlds /\ FrameOK(Top) /\ IsFrame(Top)
      /\ name \in DOMAIN world.tool /\ name \in DOMAIN world.yml /\ name # BuiltIn /\ packageRoot(name)
      /\ Tool(name) \in Reachable
      /\ ret.kind # "error" /\ FilesUsable
  BY <1>1, InvFacts DEF FrameOK, AskedFor, None, Tool
<1>a. AskedFor(Top.fn, name) = {Tool(name)} /\ Pending(Top) = {Tool(name)} /\ Settled(Tool(name))'
  BY <1>1 DEF AskedFor, Pending, Tool, Settled
<1>3. CASE Tool(name) \in loaded /\ Return("ok", Empty) /\ UNCHANGED unlisted
  <2>1. FilesUsable' /\ loaded' = loaded
    BY <1>1, <1>2, <1>3, UsableKept
  <2> QED BY <1>1, <1>2, <1>a, <1>3, <2>1, ReturnStep
<1>4. CASE tool.state = "error" /\ Return("error", Empty) /\ UNCHANGED unlisted
  <2>1. Wrong(Tool(name))
    BY <1>2, <1>4 DEF Wrong, Tool
  <2> QED BY <1>1, <1>2, <1>4, <2>1, ErrorStep
<1>5. CASE tool.state = "notExist" /\ Return("notExist", Empty) /\ UNCHANGED unlisted
  <2>1. FilesUsable'
    BY <1>1, <1>2, <1>5, UsableKept DEF Tool
  <2>2. Duties(Tool(name)) = {}
    BY <1>5 DEF Duties, Leads, Tool
  <2> QED BY <1>1, <1>2, <1>5, <1>a, <2>1, <2>2, ReturnStep
<1>6. CASE ListingFails
  BY <1>1, <1>2, <1>6, ErrorStep DEF ListingFails
<1>7. CASE tool.state = "ok" /\ Continue(frame) /\ UNCHANGED unlisted
  <2>1. FilesUsable'
    BY <1>1, <1>2, <1>7, UsableKept DEF Tool
  <2>2. frame.fn = Top.fn /\ frame.name = name /\ frame.at = "imports" /\ frame.todo = Listed(tool.imports)
    BY <1>2 DEF IsFrame
  <2>3. \A imports : Listed(imports)' = Listed(imports)
    BY <1>1 DEF Listed
  <2>4. FrameOK(frame)'
    <3>1. Listed(tool.imports) \in Seq(ToSet(Listed(tool.imports)))
      BY <1>2, WorldFacts
    <3>2. /\ AskedFor(frame.fn, frame.name)' \subseteq Reachable' /\ packageRoot(frame.name)'
          /\ Tool(frame.name) \in loaded'
      BY <1>1, <1>2, <1>a, <2>2, SameWorld
    <3> QED BY <1>1, <1>2, <1>7, <2>2, <2>3, <3>1, <3>2 DEF FrameOK
  <2>5. Duties(Tool(name)) \subseteq Pending(frame)
    BY <1>1, <2>2 DEF Duties, Leads, Pending, Tool
  <2> QED BY <1>1, <1>2, <1>7, <2>1, <2>2, <1>a, <2>4, <2>5, ContinueStep DEF IsFor, Tool
<1> QED BY <1>3, <1>4, <1>5, <1>6, <1>7 DEF loadGoFile, Failures

LEMMA ToolFrame ==
  ASSUME Inv, stack # << >>, Top.fn = "tool", Top.at = "imports"
  PROVE  LET files == ToSet(Listed(world.tool[Top.name].imports)) IN
         /\ Tool(Top.name) \in loaded /\ AskedFor(Top.fn, Top.name) = {Tool(Top.name)}
         /\ Top.todo \in Seq(files) /\ files \subseteq DOMAIN world.tool
         /\ \A p \in files : FilesOf(p) \subseteq Reachable
         /\ Pending(Top) = UNION {FilesOf(p) : p \in ToSet(Top.todo)}
<1> DEFINE files == ToSet(Listed(world.tool[Top.name].imports))
<1>1. /\ world \in worlds /\ Tool(Top.name) \in loaded /\ AskedFor(Top.fn, Top.name) = {Tool(Top.name)}
      /\ Top.todo \in Seq(files) /\ Top.name \in DOMAIN world.tool /\ world.tool[Top.name].state = "ok"
      /\ Top.name # BuiltIn /\ Tool(Top.name) \in Reachable
  BY InvFacts DEF FrameOK, AskedFor, Tool
<1>2. files \subseteq DOMAIN world.tool
  BY <1>1, WorldFacts
<1>3. Leads(Tool(Top.name)) = UNION {FilesOf(p) : p \in files}
  BY <1>1 DEF Leads, Tool
<1>4. Leads(Tool(Top.name)) \subseteq Reachable
  BY <1>1, ReachableFacts DEF Tool
<1>5. Pending(Top) = UNION {FilesOf(p) : p \in ToSet(Top.todo)}
  BY DEF Pending
<1> QED BY <1>1, <1>2, <1>3, <1>4, <1>5

LEMMA LoadImportInv ==
  ASSUME Inv, LoadImport
  PROVE  LoadInv'
<1> DEFINE p == Head(Top.todo)
<1>1. /\ stack # << >> /\ Top.fn = "tool" /\ Top.at = "imports" /\ ret = None /\ Top.todo # << >>
      /\ Call(Top, "package", p) /\ UNCHANGED <<world, result, loaded, unlisted>>
  BY DEF LoadImport, Asked, In, Inside
<1>2. p \in DOMAIN world.tool /\ FilesOf(p) \subseteq Reachable
  BY <1>1, ToolFrame, HeadAndTail
<1>3. FrameOK(Frame("package", p))
  <2>1. p \in DOMAIN world.yml
    BY <1>1, <1>2, InvFacts, WorldFacts
  <2> QED BY <1>2, <2>1, NewFrame DEF AskedFor
<1>4. Waiting(Top) /\ Callee(Top) = <<"package", p>>
  BY <1>1 DEF Waiting, Callee
<1>5. ret.kind # "error" /\ FrameOK(Top)
  BY <1>1, InvFacts DEF None
<1> QED BY <1>1, <1>3, <1>4, <1>5, CallStep

LEMMA ImportLoadedInv ==
  ASSUME Inv, ImportLoaded
  PROVE  LoadInv'
<1> DEFINE p == Head(Top.todo)
<1> PICK frame : frame = [Top EXCEPT !.todo = Tail(@), !.cfgs = Keep(@, ret.cfg)]
  OBVIOUS
<1>1. /\ stack # << >> /\ Top.fn = "tool" /\ Top.at = "imports" /\ ret # None
      /\ UNCHANGED <<world, result, loaded, unlisted>>
  BY DEF ImportLoaded, Answered, In, Inside
<1>2. /\ Waiting(Top) /\ FrameOK(Top) /\ IsFrame(Top) /\ Callee(Top) = <<"package", p>> /\ Top.todo # << >>
      /\ ret.kind \in {"ok", "error"}
  BY <1>1, InvFacts DEF Waiting, Callee
<1>3. CASE ret.kind = "error"
  <2>1. Return("error", Empty)
    BY <1>3 DEF ImportLoaded, Failures
  <2> QED BY <1>1, <1>3, <2>1, InvFacts, ErrorStep
<1>4. CASE ret.kind = "ok"
  <2>1. Continue(frame)
    BY <1>4 DEF ImportLoaded, Failures
  <2>2. frame.fn = Top.fn /\ frame.name = Top.name /\ frame.at = Top.at /\ frame.todo = Tail(Top.todo)
    BY <1>2 DEF IsFrame
  <2>3. FrameOK(frame)'
    <3>1. Tail(Top.todo) \in Seq(ToSet(Listed(world.tool[Top.name].imports)))
      BY <1>1, <1>2, ToolFrame, HeadAndTail
    <3>2. FrameOK(frame)
      BY <1>1, <1>2, <2>2, <3>1 DEF FrameOK
    <3> QED BY <1>1, <3>2, FrameKept
  <2>4. FilesUsable /\ \A n \in FilesOf(p) : Settled(n)
    BY <1>1, <1>2, <1>4, InvFacts DEF AskedFor
  <2>5. \A d \in Pending(Top) : Settled(d)' \/ d \in Pending(frame)
    <3>1. \A q \in ToSet(Top.todo) : q = p \/ q \in ToSet(Tail(Top.todo))
      BY <1>1, <1>2, ToolFrame, HeadAndTail
    <3>2. Pending(frame) = UNION {FilesOf(q) : q \in ToSet(Tail(Top.todo))}
      BY <1>1, <2>2 DEF Pending
    <3> QED BY <1>1, <2>4, <3>1, <3>2, ToolFrame, SettledKept
  <2>6. FilesUsable'
    BY <1>1, <2>4, UsableKept
  <2> QED BY <1>1, <1>4, <2>1, <2>2, <2>3, <2>5, <2>6, ContinueStep
<1> QED BY <1>2, <1>3, <1>4

LEMMA EndImportsInv ==
  ASSUME Inv, EndImports
  PROVE  LoadInv'
<1>1. /\ stack # << >> /\ Top.fn = "tool" /\ Top.at = "imports" /\ ret = None /\ Top.todo = << >>
      /\ Return("ok", configGo(Top.cfgs, Empty)) /\ UNCHANGED <<world, result, loaded, unlisted>>
  BY DEF EndImports, Asked, In, Inside
<1>2. Pending(Top) = {} /\ \A n \in AskedFor(Top.fn, Top.name) : Settled(n)
  BY <1>1, ToolFrame, NoneToDo DEF Settled, Tool
<1>3. \A n \in AskedFor(Top.fn, Top.name) : Settled(n)'
  BY <1>1, <1>2, SettledKept
<1>4. ret.kind # "error" /\ FilesUsable
  BY <1>1, InvFacts DEF None
<1>5. FilesUsable'
  BY <1>1, <1>4, UsableKept
<1> QED BY <1>1, <1>2, <1>3, <1>4, <1>5, ReturnStep

LEMMA LoadYMLFileInv ==
  ASSUME Inv, loadYMLFile
  PROVE  LoadInv'
<1> PICK name : name = Top.name
  OBVIOUS
<1> PICK frame : frame = [Top EXCEPT !.at = "extends", !.todo = world.yml[name].extends]
  OBVIOUS
<1>1. /\ stack # << >> /\ Top.fn = "yml" /\ Top.at = "start" /\ ret = None
      /\ loaded' = loaded \cup {Yml(name)} /\ UNCHANGED <<world, result, unlisted>>
  BY DEF loadYMLFile, Asked, In, Inside, MarkLoaded
<1>2. /\ world \in worlds /\ FrameOK(Top) /\ IsFrame(Top)
      /\ name \in DOMAIN world.yml /\ name # BuiltIn
      /\ Yml(name) \in Reachable
      /\ ret.kind # "error" /\ FilesUsable
  BY <1>1, InvFacts DEF FrameOK, AskedFor, None, Yml
<1>3. AskedFor(Top.fn, name) = {Yml(name)} /\ Pending(Top) = {Yml(name)} /\ Settled(Yml(name))'
  BY <1>1 DEF AskedFor, Pending, Yml, Settled
<1>4. CASE Yml(name) \in loaded /\ Return("ok", Empty)
  <2>1. FilesUsable' /\ loaded' = loaded
    BY <1>1, <1>2, <1>4, UsableKept
  <2> QED BY <1>1, <1>2, <1>3, <1>4, <2>1, ReturnStep
<1>5. CASE parseYMLFile(name) = "error" /\ Return("error", Empty)
  <2>1. Wrong(Yml(name))
    BY <1>2, <1>5 DEF Wrong, Yml
  <2> QED BY <1>1, <1>2, <1>5, <2>1, ErrorStep
<1>6. CASE parseYMLFile(name) = "notExist" /\ Return("notExist", Empty)
  <2>1. FilesUsable'
    BY <1>1, <1>2, <1>6, UsableKept DEF Yml
  <2>2. Duties(Yml(name)) = {}
    BY <1>6 DEF Duties, Leads, Yml
  <2>3. world.yml[Top.name].state = "notExist"
    BY <1>2, <1>6, WorldFacts
  <2> QED BY <1>1, <1>2, <1>3, <1>6, <2>1, <2>2, <2>3, ReturnStep
<1>7. CASE parseYMLFile(name) = "ok" /\ Continue(frame)
  <2>1. FilesUsable'
    BY <1>1, <1>2, <1>7, UsableKept DEF Yml
  <2>2. frame.fn = Top.fn /\ frame.name = name /\ frame.at = "extends" /\ frame.todo = world.yml[name].extends
    BY <1>2 DEF IsFrame
  <2>3. FrameOK(frame)'
    <3>1. world.yml[name].extends \in Seq(ToSet(world.yml[name].extends))
      BY <1>2, WorldFacts
    <3>2. /\ AskedFor(frame.fn, frame.name)' \subseteq Reachable' /\ parseYMLFile(frame.name)' = "ok"
          /\ Yml(frame.name) \in loaded'
      BY <1>1, <1>2, <1>3, <1>7, <2>2, SameWorld
    <3> QED BY <1>1, <1>2, <2>2, <3>1, <3>2 DEF FrameOK
  <2>4. Duties(Yml(name)) \subseteq Pending(frame)
    BY <1>1, <1>7, <2>2 DEF Duties, Leads, Pending, DutiesOf, Yml
  <2> QED BY <1>1, <1>2, <1>3, <1>7, <2>1, <2>2, <2>3, <2>4, ContinueStep DEF IsFor, Yml
<1>8. parseYMLFile(name) \in {"ok", "error", "notExist"}
  BY <1>2, WorldFacts
<1> QED BY <1>4, <1>5, <1>6, <1>7, <1>8 DEF loadYMLFile, Failures

LEMMA YMLFrame ==
  ASSUME Inv, stack # << >>, Top.fn = "yml", Top.at = "extends"
  PROVE  LET exts == ToSet(world.yml[Top.name].extends) IN
         /\ Yml(Top.name) \in loaded /\ AskedFor(Top.fn, Top.name) = {Yml(Top.name)}
         /\ Yml(Top.name) \in Reachable
         /\ Top.todo \in Seq(exts)
         /\ \A ext \in exts : /\ FilesOfExtension(ext) \subseteq Reachable
                              /\ ext.is \in {"dir", "file", "missing"}
                              /\ ext.is = "dir" => ext.name \in DOMAIN world.tool /\ ext.name \in DOMAIN world.yml
                              /\ ext.is = "file" => ext.name \in DOMAIN world.yml /\ ext.name # BuiltIn
                              /\ ~Exists(ext) => Wrong(Yml(Top.name))
         /\ Pending(Top) = UNION {DutiesOf(ext) : ext \in ToSet(Top.todo)}
<1> DEFINE exts == ToSet(world.yml[Top.name].extends)
<1>1. /\ world \in worlds /\ Yml(Top.name) \in loaded /\ AskedFor(Top.fn, Top.name) = {Yml(Top.name)}
      /\ Top.todo \in Seq(exts) /\ Top.name \in DOMAIN world.yml /\ parseYMLFile(Top.name) = "ok"
      /\ Top.name # BuiltIn /\ Yml(Top.name) \in Reachable
  BY InvFacts DEF FrameOK, AskedFor, Yml
<1>2. \A ext \in exts : /\ ext.is \in {"dir", "file", "missing"}
                        /\ ext.is = "dir" => ext.name \in DOMAIN world.tool /\ ext.name \in DOMAIN world.yml
                        /\ ext.is = "file" => ext.name \in DOMAIN world.yml /\ ext.name # BuiltIn
  BY <1>1, WorldFacts
<1>3. Leads(Yml(Top.name)) = UNION {FilesOfExtension(ext) : ext \in exts}
  BY <1>1 DEF Leads, Yml
<1>4. Leads(Yml(Top.name)) \subseteq Reachable
  BY <1>1, ReachableFacts DEF Yml
<1>5. \A ext \in exts : ~Exists(ext) => Wrong(Yml(Top.name))
  BY <1>1 DEF Wrong, Yml
<1>6. Pending(Top) = UNION {DutiesOf(ext) : ext \in ToSet(Top.todo)}
  BY DEF Pending
<1> QED BY <1>1, <1>2, <1>3, <1>4, <1>5, <1>6

LEMMA LoadExtensionInv ==
  ASSUME Inv, LoadExtension
  PROVE  LoadInv'
<1> DEFINE ext == Head(Top.todo)
<1>1. /\ stack # << >> /\ Top.fn = "yml" /\ Top.at = "extends" /\ ret = None /\ Top.todo # << >>
      /\ UNCHANGED <<world, result, loaded>>
  BY DEF LoadExtension, Asked, In, Inside
<1>2. /\ FilesOfExtension(ext) \subseteq Reachable /\ Yml(Top.name) \in Reachable
      /\ ext.is = "dir" => ext.name \in DOMAIN world.tool /\ ext.name \in DOMAIN world.yml
      /\ ext.is = "file" => ext.name \in DOMAIN world.yml /\ ext.name # BuiltIn
      /\ ~Exists(ext) => Wrong(Yml(Top.name))
  <2>1. ext \in ToSet(world.yml[Top.name].extends)
    BY <1>1, YMLFrame, HeadAndTail
  <2> HIDE DEF ext
  <2> QED BY <1>1, <2>1, YMLFrame
<1>3. ret.kind # "error" /\ FrameOK(Top)
  BY <1>1, InvFacts DEF None
<1>4. CASE ~Exists(ext) /\ Return(maskErrNotExist("notExist"), Empty) /\ UNCHANGED unlisted
  BY <1>1, <1>2, <1>4, ErrorStep DEF maskErrNotExist
<1>5. CASE ListingFails
  BY <1>1, <1>5, ErrorStep DEF ListingFails
<1>6. CASE ext.is = "dir" /\ Call(Top, "package", ext.name) /\ UNCHANGED unlisted
  <2>1. FrameOK(Frame("package", ext.name))
    BY <1>2, <1>6, NewFrame DEF AskedFor, FilesOfExtension
  <2>2. Waiting(Top) /\ Callee(Top) = <<"package", ext.name>>
    BY <1>1, <1>6 DEF Waiting, Callee, Exists
  <2> QED BY <1>1, <1>3, <1>6, <2>1, <2>2, CallStep
<1>7. CASE ext.is = "file" /\ Exists(ext) /\ Call(Top, "yml", ext.name) /\ UNCHANGED unlisted
  <2>1. FrameOK(Frame("yml", ext.name))
    BY <1>2, <1>7, NewFrame DEF AskedFor, FilesOfExtension, Yml
  <2>2. Waiting(Top) /\ Callee(Top) = <<"yml", ext.name>>
    BY <1>1, <1>7 DEF Waiting, Callee
  <2> QED BY <1>1, <1>3, <1>7, <2>1, <2>2, CallStep
<1> QED BY <1>4, <1>5, <1>6, <1>7 DEF LoadExtension

LEMMA ExtensionLoadedInv ==
  ASSUME Inv, ExtensionLoaded
  PROVE  LoadInv'
<1> DEFINE ext == Head(Top.todo)
<1> PICK frame : frame = [Top EXCEPT !.todo = Tail(@), !.cfgs = Keep(@, ret.cfg)]
  OBVIOUS
<1>1. /\ stack # << >> /\ Top.fn = "yml" /\ Top.at = "extends" /\ ret # None
      /\ UNCHANGED <<world, result, loaded, unlisted>>
  BY DEF ExtensionLoaded, Answered, In, Inside
<1>2. /\ Waiting(Top) /\ FrameOK(Top) /\ IsFrame(Top) /\ Top.todo # << >>
      /\ ext.is # "missing" /\ Exists(ext)
      /\ Callee(Top) = <<IF ext.is = "dir" THEN "package" ELSE "yml", ext.name>>
  BY <1>1, InvFacts DEF Waiting, Callee
<1>3. ext.is \in {"dir", "file"}
  <2>1. ext \in ToSet(world.yml[Top.name].extends)
    BY <1>1, <1>2, YMLFrame, HeadAndTail
  <2> HIDE DEF ext
  <2> QED BY <1>1, <1>2, <2>1, YMLFrame
<1>4. ret.kind \in {"ok", "error"}
  BY <1>1, <1>2, <1>3, InvFacts DEF Exists
<1>5. CASE ret.kind = "error"
  <2>1. Return("error", Empty)
    BY <1>5 DEF ExtensionLoaded, Failures, maskErrNotExist
  <2> QED BY <1>1, <1>5, <2>1, InvFacts, ErrorStep
<1>6. CASE ret.kind = "ok"
  <2>1. Continue(frame)
    BY <1>6 DEF ExtensionLoaded, Failures
  <2>2. frame.fn = Top.fn /\ frame.name = Top.name /\ frame.at = Top.at /\ frame.todo = Tail(Top.todo)
    BY <1>2 DEF IsFrame
  <2>3. FrameOK(frame)'
    <3>1. Tail(Top.todo) \in Seq(ToSet(world.yml[Top.name].extends))
      BY <1>1, <1>2, YMLFrame, HeadAndTail
    <3>2. FrameOK(frame)
      BY <1>1, <1>2, <2>2, <3>1 DEF FrameOK
    <3> QED BY <1>1, <3>2, FrameKept
  <2>4. \A n \in FilesOfExtension(ext) : Settled(n)
    BY <1>1, <1>2, <1>3, <1>6, InvFacts DEF AskedFor, FilesOfExtension, Yml
  <2>5. Settled(<<"exists", ext>>)
    BY <1>2 DEF Settled
  <2>6. \A d \in DutiesOf(ext) : Settled(d)'
    BY <1>1, <2>4, <2>5, SettledKept DEF DutiesOf
  <2>7. \A d \in Pending(Top) : Settled(d)' \/ d \in Pending(frame)
    <3>1. \A e \in ToSet(Top.todo) : e = ext \/ e \in ToSet(Tail(Top.todo))
      BY <1>1, <1>2, YMLFrame, HeadAndTail
    <3>2. Pending(frame) = UNION {DutiesOf(e) : e \in ToSet(Tail(Top.todo))}
      BY <1>1, <2>2 DEF Pending
    <3> QED BY <1>1, <2>6, <3>1, <3>2, YMLFrame
  <2>8. FilesUsable'
    BY <1>1, <1>6, InvFacts, UsableKept
  <2> QED BY <1>1, <1>6, <2>1, <2>2, <2>3, <2>7, <2>8, ContinueStep
<1> QED BY <1>4, <1>5, <1>6

LEMMA EndExtendsInv ==
  ASSUME Inv, EndExtends
  PROVE  LoadInv'
<1>1. /\ stack # << >> /\ Top.fn = "yml" /\ Top.at = "extends" /\ ret = None /\ Top.todo = << >>
      /\ \E cfg : Return("ok", cfg)
      /\ UNCHANGED <<world, result, loaded, unlisted>>
  BY DEF EndExtends, Asked, In, Inside
<1>2. Pending(Top) = {} /\ \A n \in AskedFor(Top.fn, Top.name) : Settled(n)
  BY <1>1, YMLFrame, NoneToDo DEF Settled, Yml
<1>3. \A n \in AskedFor(Top.fn, Top.name) : Settled(n)'
  BY <1>1, <1>2, SettledKept
<1>4. ret.kind # "error" /\ FilesUsable
  BY <1>1, InvFacts DEF None
<1>5. FilesUsable'
  BY <1>1, <1>4, UsableKept
<1> QED BY <1>1, <1>2, <1>3, <1>4, <1>5, ReturnStep

LEMMA StartInv ==
  ASSUME Inv, Start
  PROVE  LoadInv'
<1>1. /\ stack = << >> /\ ret = None /\ result.kind = "none" /\ UNCHANGED <<world, loaded, ret>>
      /\ world \in worlds
  BY DEF Start, Outside, Inv, LoadInv
<1>2. /\ ret.kind = "none" /\ \A n \in loaded : \A d \in Duties(n) : Settled(d)
      /\ FilesUsable /\ ~unlisted
  BY <1>1 DEF Inv, LoadInv, NothingForgotten, FilesUsable, None
<1>3. FilesUsable' /\ \A n \in loaded' : \A d \in Duties(n)' : Settled(d)'
  BY <1>1, <1>2, SameWorld, SettledKept, UsableKept
<1>4. CASE stack' = <<Frame("package", world.root)>> /\ UNCHANGED <<unlisted, result>>
  <2> PICK new : new = Frame("package", world.root)
    OBVIOUS
  <2>1. FrameOK(new)'
    <3>1. FrameOK(Frame("package", world.root))
      BY <1>1, WorldFacts, ReachableFacts, NewFrame DEF AskedFor
    <3> QED BY <1>1, <3>1, FrameKept
  <2>2. /\ DOMAIN stack' = {1} /\ 1 + 1 \notin DOMAIN stack' /\ stack'[1] = new /\ stack' # << >>
        /\ new.fn = "package" /\ new.name = world.root
    BY <1>4 DEF Frame
  <2>3. FramesOK'
    BY <1>1, <1>4, <2>1, <2>2 DEF FramesOK
  <2>4. NothingForgotten'
    BY <1>1, <1>2, <1>3, <1>4 DEF NothingForgotten, FilesUsable
  <2>5. ErrorsAreDue' /\ ErrorsAreExact'
    BY <1>1, <1>2, <1>4 DEF ErrorsAreDue, ErrorsAreExact, Succeeded
  <2> QED BY <1>1, <2>3, <2>4, <2>5 DEF LoadInv
<1>5. CASE UNCHANGED stack /\ (\/ unlisted' = TRUE /\ result'.kind = "error"
                               \/ ~packageRoot(world.root) /\ result'.kind = "ok" /\ UNCHANGED unlisted)
  <2>1. FramesOK'
    BY <1>1, <1>5 DEF FramesOK
  <2>2. NothingForgotten'
    BY <1>1, <1>2, <1>3, <1>5 DEF NothingForgotten, FilesUsable
  <2>3. ErrorsAreDue'
    BY <1>1, <1>2, <1>5 DEF ErrorsAreDue
  <2>4. ErrorsAreExact'
    BY <1>1, <1>5, SameWorld DEF ErrorsAreExact, Succeeded
  <2> QED BY <1>1, <2>1, <2>2, <2>3, <2>4 DEF LoadInv
<1>6. \/ stack' = <<Frame("package", world.root)>> /\ UNCHANGED <<unlisted, result>>
      \/ stack' = stack /\ unlisted' = TRUE /\ Finished("error", Empty, FALSE)
      \/ stack' = stack /\ ~packageRoot(world.root) /\ unlisted' = unlisted /\ Finished("ok", Empty, FALSE)
  BY DEF Start
<1>7. ASSUME NEW kind, Finished(kind, Empty, FALSE) PROVE result'.kind = kind
  BY <1>7 DEF Finished
<1> QED BY <1>4, <1>5, <1>6, <1>7

\* When nothing is left to do, what was loaded is closed, so that nothing else is reached.
LEMMA AllIsLoaded ==
  ASSUME Inv, stack = << >>, ret.kind = "ok", result.kind # "error"
  PROVE  \A n \in Reachable : n \in AllFiles /\ (n \in loaded \/ n[2] = BuiltIn)
<1> DEFINE T == {m \in AllFiles : m \in loaded \/ m[2] = BuiltIn}
<1>1. /\ world \in worlds
      /\ \A m \in loaded : \A d \in Duties(m) : Settled(d)
      /\ \A m \in FilesOf(world.root) : Settled(m)
  BY DEF Inv, LoadInv, NothingForgotten, LastCall, AskedFor
<1>2. \A m \in AllFiles : Settled(m) => m \in T
  BY <1>1, FilesFacts DEF Settled
<1>3. FilesOf(world.root) \subseteq T
  BY <1>1, <1>2, WorldFacts, FilesFacts
<1>4. IsClosed(T)
  BY <1>1, <1>2, LeadsFacts DEF IsClosed, Duties
<1> QED BY <1>1, <1>3, <1>4, ReachableFacts

LEMMA NothingWrongReached ==
  ASSUME Inv, stack = << >>, ret.kind = "ok", result.kind # "error", NEW n \in Reachable
  PROVE  ~Wrong(n)
<1>1. world \in worlds /\ FilesUsable /\ \A m \in loaded : \A d \in Duties(m) : Settled(d)
  BY DEF Inv, LoadInv, NothingForgotten, FilesUsable
<1>2. n \in AllFiles /\ (n \in loaded \/ n[2] = BuiltIn)
  BY AllIsLoaded
<1>3. CASE n[2] = BuiltIn
  BY <1>3 DEF Wrong
<1>4. CASE n \in loaded /\ n[1] = "tool"
  BY <1>1, <1>4 DEF FilesUsable, Wrong
<1>5. CASE n \in loaded /\ n[1] = "yml"
  <2>1. ASSUME parseYMLFile(n[2]) = "ok", NEW ext \in ToSet(world.yml[n[2]].extends) PROVE Exists(ext)
    <3>1. <<"exists", ext>> \in Duties(n)
      BY <1>5, <2>1 DEF Duties
    <3> QED BY <1>1, <1>5, <3>1 DEF Settled
  <2> QED BY <1>1, <1>5, <2>1 DEF FilesUsable, Wrong
<1> QED BY <1>1, <1>2, <1>3, <1>4, <1>5, FilesFacts

LEMMA EndInv ==
  ASSUME Inv, End
  PROVE  LoadInv'
<1>1. /\ stack = << >> /\ ret # None /\ result.kind = "none" /\ UNCHANGED <<world, loaded, stack, unlisted>>
      /\ world \in worlds /\ ret' = None /\ ret'.kind = "none" /\ result'.kind = ret.kind
  BY DEF End, Outside, Finished, Inv, LoadInv, None
<1>2. ret.kind \in {"ok", "error"}
  BY <1>1 DEF Inv, LoadInv, ErrorsAreDue, LastCall
<1>3. FramesOK'
  BY <1>1 DEF FramesOK
<1>4. ErrorsAreDue'
  BY <1>1, <1>2 DEF ErrorsAreDue
<1>5. CASE ret.kind = "error"
  <2>1. unlisted \/ \E n \in Reachable : Wrong(n)
    BY <1>5 DEF Inv, LoadInv, ErrorsAreDue
  <2>2. ErrorsAreExact'
    BY <1>1, <1>5, <2>1, SameWorld DEF ErrorsAreExact, Succeeded
  <2>3. NothingForgotten'
    BY <1>1, <1>5 DEF NothingForgotten
  <2> QED BY <1>1, <1>3, <1>4, <2>2, <2>3 DEF LoadInv
<1>6. CASE ret.kind = "ok"
  <2>1. /\ FilesUsable /\ ~unlisted
        /\ \A n \in loaded : \A d \in Duties(n) : Settled(d)
    BY <1>1, <1>6 DEF Inv, LoadInv, NothingForgotten, FilesUsable
  <2>2. FilesUsable' /\ \A n \in loaded' : \A d \in Duties(n)' : Settled(d)'
    BY <1>1, <2>1, SameWorld, SettledKept, UsableKept
  <2>3. NothingForgotten'
    BY <1>1, <2>1, <2>2 DEF NothingForgotten, FilesUsable
  <2>4. ErrorsAreExact'
    BY <1>1, <1>6, <2>1, NothingWrongReached, SameWorld DEF ErrorsAreExact, Succeeded
  <2> QED BY <1>1, <1>3, <1>4, <2>3, <2>4 DEF LoadInv
<1> QED BY <1>2, <1>5, <1>6

LEMMA InitLoadInv == Init => LoadInv
<1> SUFFICES ASSUME Init PROVE LoadInv
  OBVIOUS
<1>1. stack = << >> /\ loaded = {} /\ ret.kind = "none" /\ ret = None /\ ~unlisted /\ result.kind = "none"
      /\ world \in worlds
  BY DEF Init, None
<1> QED BY <1>1 DEF LoadInv, FramesOK, NothingForgotten, ErrorsAreDue, ErrorsAreExact, Succeeded

LEMMA StutterInv ==
  ASSUME LoadInv, UNCHANGED vars
  PROVE  LoadInv'
<1>1. /\ world' = world /\ stack' = stack /\ loaded' = loaded /\ ret' = ret /\ unlisted' = unlisted
      /\ result' = result
  BY DEF vars
<1>2. Top' = Top /\ LastCall' = LastCall
  BY <1>1 DEF Top, LastCall
<1>3. \A d : Settled(d)' <=> Settled(d)
  BY <1>1, SameWorld DEF Settled
<1>4. FramesOK'
  BY <1>1, <1>2, SameWorld, FrameKept DEF LoadInv, FramesOK
<1>5. NothingForgotten'
  BY <1>1, <1>2, <1>3, SameWorld DEF LoadInv, NothingForgotten
<1>6. ErrorsAreDue' /\ ErrorsAreExact'
  BY <1>1, <1>2, SameWorld DEF LoadInv, ErrorsAreDue, ErrorsAreExact, Succeeded
<1> QED BY <1>1, <1>4, <1>5, <1>6 DEF LoadInv

LEMMA NextLoadInv == Inv /\ [CNext]_vars => LoadInv'
<1> SUFFICES ASSUME Inv, [CNext]_vars PROVE LoadInv'
  OBVIOUS
<1>1. LoadInv /\ (Ended \/ UNCHANGED vars => UNCHANGED vars)
  BY DEF Inv, Ended
<1> QED BY <1>1, StutterInv, StartInv, EndInv, LoadGoPackageInv, ToolLoadedInv, YMLLoadedInv, LoadGoFileInv,
           LoadImportInv, ImportLoadedInv, EndImportsInv, LoadYMLFileInv, LoadExtensionInv,
           ExtensionLoadedInv, EndExtendsInv DEF CNext

-----------------------------------------------------------------------------
(* Theorems *)

LEMMA Always == CSpec => []Inv
<1>1. Init => Inv
  BY InitInv, InitLoadInv DEF Inv
<1>2. Inv /\ [CNext]_vars => Inv'
  BY NextStep, NextLoadInv DEF Inv
<1> QED BY <1>1, <1>2, PTL DEF CSpec

\* However the files of a configuration lead to each other, in circles or not, no file is
\* loaded while it is being loaded: markLoaded comes before what the file leads to
\* (loadGoFile, loadYMLFile).
THEOREM LoaderNeverReenters == CSpec => []NoReentry
<1>1. Inv => NoReentry
  BY DEF Inv, CInv, NoReentry, Loading, File, IsFrame
<1> QED BY <1>1, Always, PTL

\* Loading succeeds only if it has seen all files that can be reached and none of them is
\* wrong, and fails only if one is, or if packages could not be listed: whatever is skipped
\* as loaded already, and whatever errors are taken for a file that need not exist
\* (loadGoPackage, loadYMLFile, maskErrNotExist).
THEOREM LoadingIsSound == CSpec => []ErrorsAreExact
<1>1. Inv => ErrorsAreExact
  BY DEF Inv, LoadInv
<1> QED BY <1>1, Always, PTL
-----------------------------------------------------------------------------
(***************************************************************************)
(* What is loaded.  The aspects of the configurations that the frames hold  *)
(* and that the last call returned, in their order, are a sequence that      *)
(* grows at its end only: by the aspects of a YAML file when it is finished.  *)
(***************************************************************************)

Held(frame) == All(AspectsOf, frame.cfgs)
Shown(frame) == All(VisitOf, frame.cfgs)
Joined(frames) == FlattenSeq([i \in DOMAIN frames |-> Held(frames[i])])
Gathered == Joined(stack) \o ret.cfg.aspects

Injecting == {f \in Used : f = BuiltIn \/ world.yml[f].aspects}
Matching(aspects, visit) ==
  /\ aspects \in Seq(Injecting)
  /\ visit \in Seq(Used)
  /\ ToSet(aspects) \subseteq ToSet(visit)
HasCfgs(frame) ==
  /\ frame.cfgs \in Seq(ToSet(frame.cfgs))
  /\ Matching(Held(frame), Shown(frame))
  /\ frame.at = "start" \/ (frame.fn = "package" /\ frame.at = "tool") => frame.cfgs = << >>
CfgsOK ==
  /\ \A i \in DOMAIN stack : HasCfgs(stack[i])
  /\ Matching(ret.cfg.aspects, ret.cfg.visit)

\* The YAML files that are being loaded.
Busy == {f \in DOMAIN world.yml :
           \E i \in DOMAIN stack : Loading(stack[i]) /\ File(stack[i]) = Yml(f)}

LeadsBack(n, f) == ReachableFrom(Leads(n)) \cap FilesOf(f) # {}
\* What DependenciesFirst speaks of: file n of f, and another one that it leads to.
Precedes(n, f, g) ==
  /\ (n[1] = "tool" => ~AskedAlone(f))
  /\ g # BuiltIn /\ Yml(g) \in Leads(n) /\ ~LeadsBack(n, f)

\* Of a file whose aspects are gathered, and of two of them.
IsDone(f) ==
  /\ Yml(f) \in loaded /\ f \notin Busy
  /\ \A n \in FilesOf(f), g \in DOMAIN world.yml : Precedes(n, f, g) => Yml(g) \in loaded /\ g \notin Busy
InOrder(f, g) == f # g /\ \A n \in FilesOf(f) : ~Precedes(n, f, g)

GatheredInv ==
  /\ \A i \in DOMAIN Gathered : Gathered[i] # BuiltIn => IsDone(Gathered[i])
  /\ \A i, j \in DOMAIN Gathered :
        i < j /\ Gathered[i] # BuiltIn /\ Gathered[j] # BuiltIn => InOrder(Gathered[i], Gathered[j])

\* What was loaded is gathered or is still being loaded, and the built-in package was asked
\* for or will be.
BuiltInDue ==
  \A n \in loaded : Yml(BuiltIn) \in Leads(n) =>
      BuiltIn \in ToSet(Gathered) \/ \E i \in DOMAIN stack : Yml(BuiltIn) \in Pending(stack[i])
NoneLost ==
  /\ \A f \in Injecting : f # BuiltIn /\ Yml(f) \in loaded => f \in ToSet(Gathered) \cup Busy
  /\ \A n \in loaded : n[2] # BuiltIn
  /\ BuiltInDue
  /\ ret.kind = "ok" /\ LastCall = <<"package", BuiltIn>> => BuiltIn \in ToSet(Gathered)

\* Whether the YAML file of the root was met while its tool file was loaded.
RootImports == ReachableFrom(Leads(Tool(world.root)))
RootIsFirst == world.root \in Used /\ Yml(world.root) \notin RootImports
RootInv ==
  /\ stack = << >> /\ ret = None => loaded = {}
  /\ stack # << >> /\ stack[1].at \in {"start", "tool"} =>
        /\ loaded \subseteq {Tool(world.root)} \cup RootImports
        /\ \A i \in DOMAIN stack :
              i # 1 => AskedFor(stack[i].fn, stack[i].name) \subseteq {Tool(world.root)} \cup RootImports
  /\ stack # << >> /\ stack[1].at = "yml" =>
        /\ 2 \notin DOMAIN stack => (ret.cfg.yaml <=> RootIsFirst)
        /\ 2 \in DOMAIN stack /\ stack[2].at = "start" =>
              (Yml(world.root) \in loaded <=> Yml(world.root) \in RootImports)
        /\ 2 \in DOMAIN stack /\ stack[2].at # "start" => Yml(world.root) \notin RootImports
  /\ stack = << >> /\ ret.kind = "ok" => (ret.cfg.yaml <=> world.root = BuiltIn \/ RootIsFirst)

Running == ret.kind # "error" /\ result.kind = "none"
ExactInv ==
  /\ CfgsOK
  /\ Running => GatheredInv /\ NoneLost /\ RootInv
  /\ LoadIsExact
  /\ DependenciesFirst

-----------------------------------------------------------------------------
(* Concatenations *)

LEMMA LeastExists ==
  ASSUME NEW M \in SUBSET Nat, M # {}
  PROVE  \E k \in M : \A l \in M : ~ (l < k)
<1>1. \E k \in M : \A l \in M : ~ (<<l, k>> \in OpToRel(<, Nat))
  BY NatLessThanWellFounded, WFMin
<1> QED BY <1>1 DEF OpToRel

\* f joins the first k sequences.
IsJoined(f, seqs, k) ==
  \A i \in 1..k : f[i] = IF i = 1 THEN seqs[i] ELSE f[i - 1] \o seqs[i]

LEMMA JoinedExists ==
  ASSUME NEW seqs, NEW n \in Nat
  PROVE  \E f : IsJoined(f, seqs, n)
<1> DEFINE Missing == {k \in Nat : ~ \E f : IsJoined(f, seqs, k)}
<1> SUFFICES ASSUME Missing # {}
             PROVE  FALSE
  OBVIOUS
<1>1. Missing \in SUBSET Nat
  OBVIOUS
<1>2. PICK k \in Missing : \A l \in Missing : ~ (l < k)
  <2> HIDE DEF Missing
  <2> QED BY <1>1, LeastExists
<1>3. k # 0
  <2>1. IsJoined(<< >>, seqs, 0)
    BY DEF IsJoined
  <2> QED BY <2>1
<1>4. k \in Nat /\ k - 1 \in Nat /\ k - 1 < k
  BY <1>3
<1>5. PICK f : IsJoined(f, seqs, k - 1)
  BY <1>2, <1>4
<1> DEFINE last == IF k = 1 THEN seqs[k] ELSE f[k - 1] \o seqs[k]
           g == [i \in 1..k |-> IF i < k THEN f[i] ELSE last]
<1>6. ASSUME NEW i \in 1..k
      PROVE  g[i] = IF i = 1 THEN seqs[i] ELSE g[i - 1] \o seqs[i]
  <2>1. CASE i = 1 /\ k = 1
    BY <2>1
  <2>2. CASE i = 1 /\ k # 1
    <3>1. 1 \in 1..k - 1 /\ g[i] = f[1]
      BY <1>4, <2>2
    <3> HIDE DEF g
    <3> QED BY <1>5, <2>2, <3>1 DEF IsJoined
  <2>3. CASE i # 1
    <3>1. i - 1 \in 1..k /\ g[i - 1] = f[i - 1]
      BY <1>4, <2>3
    <3>2. CASE i = k
      <4>1. k # 1 /\ last = f[k - 1] \o seqs[k]
        BY <2>3, <3>2
      <4>2. g[i] = last
        <5> HIDE DEF last
        <5> QED BY <1>4, <3>2
      <4> HIDE DEF g, last
      <4> QED BY <2>3, <3>1, <3>2, <4>1, <4>2
    <3>3. CASE i # k
      <4>1. i \in 1..k - 1 /\ g[i] = f[i]
        BY <1>4, <3>3
      <4> HIDE DEF g
      <4> QED BY <1>5, <2>3, <3>1, <4>1 DEF IsJoined
    <3> QED BY <3>2, <3>3
  <2> QED BY <2>1, <2>2, <2>3
<1>7. IsJoined(g, seqs, k)
  <2> HIDE DEF g
  <2> QED BY <1>6 DEF IsJoined
<1> QED BY <1>7

LEMMA FlattenIsJoined ==
  ASSUME NEW T, NEW seqs \in Seq(T), seqs # << >>
  PROVE  \E f : IsJoined(f, seqs, Len(seqs)) /\ FlattenSeq(seqs) = f[Len(seqs)]
<1> DEFINE n == Len(seqs)
           step(f, i) == IF i = 1 THEN seqs[i] ELSE f[i - 1] \o seqs[i]
           Obeys(f) == f = [i \in 1..n |-> step(f, i)]
           flatten == CHOOSE f : Obeys(f)
<1>1. n \in Nat /\ n # 0
  OBVIOUS
<1>2. PICK g : IsJoined(g, seqs, n)
  BY <1>1, JoinedExists
<1> DEFINE h == [i \in 1..n |-> g[i]]
<1>3. Obeys(h)
  <2>1. ASSUME NEW i \in 1..n
        PROVE  h[i] = step(h, i)
    <3>1. CASE i = 1
      BY <1>2, <3>1 DEF IsJoined
    <3>2. CASE i # 1
      <4>1. h[i] = g[i] /\ h[i - 1] = g[i - 1]
        BY <1>1, <3>2
      <4> HIDE DEF h
      <4> QED BY <1>2, <3>2, <4>1 DEF IsJoined
    <3> QED BY <3>1, <3>2
  <2>2. h = [i \in 1..n |-> h[i]]
    OBVIOUS
  <2> HIDE DEF h, step
  <2> QED BY <2>1, <2>2
<1>4. Obeys(flatten)
  <2> HIDE DEF h, Obeys
  <2> QED BY <1>3
<1>5. FlattenSeq(seqs) = flatten[n]
  BY <1>1 DEF FlattenSeq
<1>6. IsJoined(flatten, seqs, n)
  <2>1. \A i \in 1..n : flatten[i] = step(flatten, i)
    <3> HIDE DEF flatten, step
    <3> QED BY <1>4
  <2> HIDE DEF flatten
  <2> QED BY <2>1 DEF IsJoined
<1> HIDE DEF flatten
<1> QED BY <1>5, <1>6

LEMMA JoinedIsUnique ==
  ASSUME NEW r, NEW s, NEW n \in Nat, \A i \in 1..n : r[i] = s[i],
         NEW f, IsJoined(f, s, n), NEW g, IsJoined(g, r, n)
  PROVE  \A i \in 1..n : f[i] = g[i]
<1> DEFINE Other == {i \in 1..n : f[i] # g[i]}
<1> SUFFICES ASSUME Other # {}
             PROVE  FALSE
  OBVIOUS
<1>1. Other \in SUBSET Nat
  OBVIOUS
<1>2. PICK i \in Other : \A l \in Other : ~ (l < i)
  <2> HIDE DEF Other
  <2> QED BY <1>1, LeastExists
<1>3. i \in 1..n /\ f[i] # g[i]
  OBVIOUS
<1>4. CASE i = 1
  BY <1>3, <1>4 DEF IsJoined
<1>5. CASE i # 1
  <2>1. i - 1 \in 1..n /\ i - 1 < i
    BY <1>3, <1>5
  <2>2. f[i - 1] = g[i - 1]
    BY <1>2, <2>1
  <2> QED BY <1>3, <1>5, <2>2 DEF IsJoined
<1> QED BY <1>4, <1>5

\* What is joined is the same whether the last sequence is there or joined to it.
LEMMA FlattenAppend ==
  ASSUME NEW T, NEW seqs \in Seq(T), NEW x \in T, NEW S, x \in Seq(S)
  PROVE  FlattenSeq(Append(seqs, x)) = FlattenSeq(seqs) \o x
<1> DEFINE n == Len(seqs)
           r == Append(seqs, x)
<1>1. /\ n \in Nat /\ r \in Seq(T) /\ Len(r) = n + 1 /\ r # << >>
      /\ \A i \in 1..n : r[i] = seqs[i]
      /\ r[n + 1] = x
  OBVIOUS
<1> HIDE DEF r
<1>2. PICK g : IsJoined(g, r, n + 1) /\ FlattenSeq(r) = g[n + 1]
  BY <1>1, FlattenIsJoined
<1>3. CASE seqs = << >>
  <2>1. n = 0 /\ FlattenSeq(seqs) = << >>
    BY <1>3 DEF FlattenSeq
  <2>2. g[1] = x
    BY <1>1, <1>2, <2>1 DEF IsJoined
  <2>3. << >> \o x = x
    OBVIOUS
  <2> QED BY <1>2, <2>1, <2>2, <2>3 DEF r
<1>4. CASE seqs # << >>
  <2>1. PICK f : IsJoined(f, seqs, n) /\ FlattenSeq(seqs) = f[n]
    BY <1>4, FlattenIsJoined
  <2>2. n \in 1..n /\ n + 1 \in 1..n + 1 /\ n + 1 # 1 /\ n + 1 - 1 = n /\ 1..n \subseteq 1..n + 1
    BY <1>1, <1>4
  <2> HIDE DEF n
  <2>3. IsJoined(g, r, n)
    BY <1>2, <2>2 DEF IsJoined
  <2>4. f[n] = g[n]
    BY <1>1, <2>1, <2>2, <2>3, JoinedIsUnique
  <2>5. g[n + 1] = g[n] \o x
    <3>1. PICK k : k = n + 1
      OBVIOUS
    <3>2. IsJoined(g, r, k) /\ k \in 1..k /\ k # 1 /\ k - 1 = n /\ r[k] = x
      BY <1>1, <1>2, <2>2, <3>1
    <3>3. g[k] = g[k - 1] \o r[k]
      BY <3>2 DEF IsJoined
    <3> QED BY <3>1, <3>2, <3>3
  <2> QED BY <1>2, <2>1, <2>4, <2>5 DEF r
<1> QED BY <1>3, <1>4

LEMMA FlattenNothing == FlattenSeq(<< >>) = << >>
BY DEF FlattenSeq

LEMMA ConcatElements ==
  ASSUME NEW T, NEW s \in Seq(T), NEW t \in Seq(T)
  PROVE  s \o t \in Seq(T) /\ ToSet(s \o t) = ToSet(s) \cup ToSet(t)
<1> DEFINE c == s \o t
<1>1. /\ c \in Seq(T) /\ Len(s) \in Nat /\ Len(t) \in Nat
      /\ DOMAIN s = 1..Len(s) /\ DOMAIN t = 1..Len(t) /\ DOMAIN c = 1..Len(s) + Len(t)
      /\ \A i \in DOMAIN c : c[i] = IF i <= Len(s) THEN s[i] ELSE t[i - Len(s)]
  OBVIOUS
<1> HIDE DEF c
<1>2. \A i \in DOMAIN s : i \in DOMAIN c /\ c[i] = s[i]
  BY <1>1
<1>3. \A i \in DOMAIN t : i + Len(s) \in DOMAIN c /\ c[i + Len(s)] = t[i]
  BY <1>1
<1>4. \A i \in DOMAIN c : i \in DOMAIN s \/ i - Len(s) \in DOMAIN t
  BY <1>1
<1>5. \A i \in DOMAIN c : c[i] \in ToSet(s) \cup ToSet(t)
  <2> SUFFICES ASSUME NEW i \in DOMAIN c
               PROVE  c[i] \in ToSet(s) \cup ToSet(t)
    OBVIOUS
  <2>1. CASE i <= Len(s)
    BY <1>1, <2>1 DEF ToSet
  <2>2. CASE ~ (i <= Len(s))
    BY <1>1, <2>2 DEF ToSet
  <2> QED BY <2>1, <2>2
<1>6. ToSet(c) = ToSet(s) \cup ToSet(t)
  BY <1>2, <1>3, <1>5 DEF ToSet
<1> QED BY <1>1, <1>6 DEF c

LEMMA ConcatIsAssociative ==
  ASSUME NEW T, NEW s \in Seq(T), NEW t \in Seq(T), NEW u \in Seq(T)
  PROVE  (s \o t) \o u = s \o (t \o u) /\ s \o << >> = s /\ << >> \o s = s
OBVIOUS

\* What is joined is a sequence of elements of its parts.
LEMMA FlattenElements ==
  ASSUME NEW T, NEW seqs \in Seq(Seq(T))
  PROVE  FlattenSeq(seqs) \in Seq(T)
<1>1. CASE seqs = << >>
  <2>1. << >> \in Seq(T)
    OBVIOUS
  <2> QED BY <1>1, <2>1, FlattenNothing
<1>2. CASE seqs # << >>
  <2>1. PICK f : IsJoined(f, seqs, Len(seqs)) /\ FlattenSeq(seqs) = f[Len(seqs)]
    BY <1>2, FlattenIsJoined
  <2> DEFINE n == Len(seqs)
             Bad == {k \in 1..n : f[k] \notin Seq(T)}
  <2>2. n \in Nat /\ n \in 1..n /\ \A i \in 1..n : seqs[i] \in Seq(T)
    BY <1>2
  <2>3. SUFFICES ASSUME Bad # {}
                 PROVE  FALSE
    BY <2>1, <2>2
  <2>4. Bad \in SUBSET Nat
    OBVIOUS
  <2>5. PICK k \in Bad : \A l \in Bad : ~ (l < k)
    <3> HIDE DEF Bad
    <3> QED BY <2>3, <2>4, LeastExists
  <2>6. k \in 1..n /\ f[k] \notin Seq(T)
    OBVIOUS
  <2> HIDE DEF n
  <2>7. CASE k = 1
    BY <2>1, <2>2, <2>6, <2>7 DEF IsJoined, n
  <2>8. CASE k # 1
    <3>1. k - 1 \in 1..n /\ k - 1 < k
      BY <2>2, <2>6, <2>8
    <3>2. f[k - 1] \in Seq(T)
      BY <2>5, <3>1
    <3>3. f[k] = f[k - 1] \o seqs[k]
      BY <2>1, <2>6, <2>8 DEF IsJoined, n
    <3> QED BY <2>2, <2>6, <3>2, <3>3, ConcatElements
  <2> QED BY <2>7, <2>8
<1> QED BY <1>1, <1>2

-----------------------------------------------------------------------------
(* What is held, after each kind of step *)

LEMMA EmptySeqs == \A T : << >> \in Seq(T) /\ ToSet(<< >>) = {}
BY DEF ToSet

LEMMA AllOfNone == All(AspectsOf, << >>) = << >> /\ All(VisitOf, << >>) = << >>
<1>1. All(AspectsOf, << >>) = FlattenSeq(<< >>) /\ All(VisitOf, << >>) = FlattenSeq(<< >>)
  BY DEF All, AspectsOf, VisitOf
<1> QED BY <1>1, FlattenNothing

LEMMA IsAppend ==
  ASSUME NEW S, NEW s \in Seq(S), NEW x \in S, NEW t \in Seq(S), Len(t) = Len(s) + 1,
         \A i \in 1..Len(s) : t[i] = s[i], t[Len(s) + 1] = x
  PROVE  t = Append(s, x)
<1> DEFINE r == Append(s, x)
<1>1. /\ r \in Seq(S) /\ Len(r) = Len(s) + 1 /\ r[Len(s) + 1] = x /\ Len(s) \in Nat
      /\ \A i \in 1..Len(s) : r[i] = s[i]
  OBVIOUS
<1> HIDE DEF r
<1>2. \A i \in 1..Len(s) + 1 : i \in 1..Len(s) \/ i = Len(s) + 1
  BY <1>1
<1>3. \A i \in 1..Len(t) : t[i] = r[i]
  BY <1>1, <1>2
<1>4. t = r
  BY <1>1, <1>3, SeqEqual
<1> QED BY <1>4 DEF r

\* The parts of configurations, one after the other.
LEMMA AllAppend ==
  ASSUME NEW cfgs, NEW T, cfgs \in Seq(T), NEW cfg, NEW A, cfg.aspects \in Seq(A),
         NEW V, cfg.visit \in Seq(V)
  PROVE  /\ All(AspectsOf, Append(cfgs, cfg)) = All(AspectsOf, cfgs) \o cfg.aspects
         /\ All(VisitOf, Append(cfgs, cfg)) = All(VisitOf, cfgs) \o cfg.visit
<1> DEFINE next == Append(cfgs, cfg)
           aspects == [i \in DOMAIN cfgs |-> cfgs[i].aspects]
           visits == [i \in DOMAIN cfgs |-> cfgs[i].visit]
           aspects1 == [i \in DOMAIN next |-> next[i].aspects]
           visits1 == [i \in DOMAIN next |-> next[i].visit]
           n == Len(cfgs)
           SA == {cfgs[i].aspects : i \in DOMAIN cfgs} \cup {cfg.aspects}
           SV == {cfgs[i].visit : i \in DOMAIN cfgs} \cup {cfg.visit}
<1>1. /\ n \in Nat /\ DOMAIN cfgs = 1..n /\ DOMAIN next = 1..n + 1 /\ n + 1 \in 1..n + 1
      /\ \A i \in 1..n : i \in 1..n + 1 /\ next[i] = cfgs[i]
      /\ next[n + 1] = cfg
  OBVIOUS
<1> HIDE DEF next, n
<1>2. /\ aspects \in Seq(SA) /\ Len(aspects) = n /\ cfg.aspects \in SA
      /\ visits \in Seq(SV) /\ Len(visits) = n /\ cfg.visit \in SV
  BY <1>1
<1>3. /\ aspects1 \in Seq(SA) /\ Len(aspects1) = n + 1 /\ aspects1[n + 1] = cfg.aspects
      /\ visits1 \in Seq(SV) /\ Len(visits1) = n + 1 /\ visits1[n + 1] = cfg.visit
      /\ \A i \in 1..n : aspects1[i] = aspects[i] /\ visits1[i] = visits[i]
  <2>1. \A i \in 1..n + 1 : i \in 1..n \/ i = n + 1
    BY <1>1
  <2>2. \A i \in 1..n + 1 : next[i].aspects \in SA /\ next[i].visit \in SV
    BY <1>1, <2>1
  <2> HIDE DEF SA, SV
  <2> QED BY <1>1, <2>2
<1>5. /\ All(AspectsOf, cfgs) = FlattenSeq(aspects) /\ All(AspectsOf, next) = FlattenSeq(aspects1)
      /\ All(VisitOf, cfgs) = FlattenSeq(visits) /\ All(VisitOf, next) = FlattenSeq(visits1)
  BY DEF All, AspectsOf, VisitOf
<1> HIDE DEF aspects, aspects1, visits, visits1, SA, SV
<1>6. aspects1 = Append(aspects, cfg.aspects)
  BY <1>1, <1>2, <1>3, IsAppend
<1>7. visits1 = Append(visits, cfg.visit)
  BY <1>1, <1>2, <1>3, IsAppend
<1>8. FlattenSeq(Append(aspects, cfg.aspects)) = FlattenSeq(aspects) \o cfg.aspects
  BY <1>2, FlattenAppend
<1>9. FlattenSeq(Append(visits, cfg.visit)) = FlattenSeq(visits) \o cfg.visit
  BY <1>2, FlattenAppend
<1> QED BY <1>5, <1>6, <1>7, <1>8, <1>9 DEF next

\* The configurations that frames hold, one frame after the other.
LEMMA JoinedAppend ==
  ASSUME NEW S, NEW s \in Seq(S), NEW f \in S, NEW T, \A g \in S : Held(g) \in Seq(T)
  PROVE  Joined(Append(s, f)) = Joined(s) \o Held(f) /\ Joined(s) \in Seq(T)
<1> DEFINE r == Append(s, f)
           helds == [i \in DOMAIN s |-> Held(s[i])]
           helds1 == [i \in DOMAIN r |-> Held(r[i])]
           n == Len(s)
<1>1. /\ n \in Nat /\ DOMAIN s = 1..n /\ DOMAIN r = 1..n + 1 /\ n + 1 \in 1..n + 1
      /\ \A i \in 1..n : i \in 1..n + 1 /\ r[i] = s[i] /\ s[i] \in S
      /\ r[n + 1] = f
  OBVIOUS
<1>2. \A i \in 1..n + 1 : r[i] \in S
  OBVIOUS
<1> HIDE DEF r, n
<1>3. helds \in Seq(Seq(T)) /\ Len(helds) = n /\ Held(f) \in Seq(T)
  BY <1>1
<1>4. /\ helds1 \in Seq(Seq(T)) /\ Len(helds1) = n + 1 /\ helds1[n + 1] = Held(f)
      /\ \A i \in 1..n : helds1[i] = helds[i]
  BY <1>1, <1>2
<1>5. Joined(s) = FlattenSeq(helds) /\ Joined(r) = FlattenSeq(helds1)
  BY DEF Joined
<1> HIDE DEF helds, helds1
<1>6. helds1 = Append(helds, Held(f))
  BY <1>3, <1>4, IsAppend
<1>7. FlattenSeq(Append(helds, Held(f))) = FlattenSeq(helds) \o Held(f)
  BY <1>3, FlattenAppend
<1>8. FlattenSeq(helds) \in Seq(T)
  BY <1>3, FlattenElements
<1> QED BY <1>5, <1>6, <1>7, <1>8 DEF r

LEMMA JoinedNothing == Joined(<< >>) = << >>
<1>1. Joined(<< >>) = FlattenSeq(<< >>)
  BY DEF Joined
<1> QED BY <1>1, FlattenNothing

LEMMA FrontAndTop ==
  ASSUME CInv, stack # << >>
  PROVE  LET S == {stack[i] : i \in DOMAIN stack} IN
         /\ Front(stack) \in Seq(S) /\ Top \in S
         /\ stack = Append(Front(stack), Top)
<1> DEFINE S == {stack[i] : i \in DOMAIN stack}
<1>1. stack \in Seq(S) /\ Top \in S /\ stack[Len(stack)] = Top /\ Len(stack) \in Nat /\ Len(stack) > 0
  BY StackFacts DEF CInv
<1> HIDE DEF S
<1>2. /\ Front(stack) \in Seq(S) /\ Len(Front(stack)) = Len(stack) - 1
      /\ \A i \in 1..Len(stack) - 1 : Front(stack)[i] = stack[i]
  BY <1>1, Pop
<1>3. Len(stack) = Len(Front(stack)) + 1
  BY <1>1, <1>2
<1>4. stack = Append(Front(stack), Top)
  BY <1>1, <1>2, <1>3, IsAppend
<1> QED BY <1>1, <1>2, <1>4 DEF S

LEMMA GatheredParts ==
  ASSUME CInv, CfgsOK, stack # << >>
  PROVE  LET S == {stack[i] : i \in DOMAIN stack} IN
         /\ Front(stack) \in Seq(S) /\ \A g \in S : Held(g) \in Seq(Injecting)
         /\ Joined(Front(stack)) \in Seq(Injecting) /\ Held(Top) \in Seq(Injecting)
         /\ ret.cfg.aspects \in Seq(Injecting)
         /\ Gathered = (Joined(Front(stack)) \o Held(Top)) \o ret.cfg.aspects
         /\ Gathered \in Seq(Injecting)
<1> DEFINE S == {stack[i] : i \in DOMAIN stack}
<1>1. \A g \in S : Held(g) \in Seq(Injecting)
  BY DEF CfgsOK, HasCfgs, Matching
<1>2. Front(stack) \in Seq(S) /\ Top \in S /\ stack = Append(Front(stack), Top)
  BY FrontAndTop
<1>3. ret.cfg.aspects \in Seq(Injecting)
  BY DEF CfgsOK, Matching
<1> HIDE DEF S
<1>4. Joined(Append(Front(stack), Top)) = Joined(Front(stack)) \o Held(Top) /\ Joined(Front(stack)) \in Seq(Injecting)
  BY <1>1, <1>2, JoinedAppend
<1>5. Gathered = (Joined(Front(stack)) \o Held(Top)) \o ret.cfg.aspects
  BY <1>2, <1>4 DEF Gathered
<1>6. Held(Top) \in Seq(Injecting)
  BY <1>1, <1>2
<1>7. Gathered \in Seq(Injecting)
  BY <1>3, <1>4, <1>5, <1>6, ConcatElements
<1> QED BY <1>1, <1>2, <1>3, <1>4, <1>5, <1>6, <1>7 DEF S

\* What a call returns are the aspects that its frame held, those it was just given, and its own.
LEMMA ReturnGathers ==
  ASSUME CInv, CfgsOK, stack # << >>, NEW kind, NEW cfg, Return(kind, cfg),
         NEW own \in Seq(Injecting), cfg.aspects = (Held(Top) \o ret.cfg.aspects) \o own
  PROVE  Gathered' = Gathered \o own
<1> DEFINE front == Joined(Front(stack))
           held == Held(Top)
           got == ret.cfg.aspects
           all == cfg.aspects
<1>1. stack' = Front(stack) /\ ret'.cfg.aspects = all
  BY DEF Return
<1>2. Gathered' = front \o all
  BY <1>1 DEF Gathered
<1>3. /\ front \in Seq(Injecting) /\ held \in Seq(Injecting) /\ got \in Seq(Injecting)
      /\ Gathered = (front \o held) \o got /\ all = (held \o got) \o own
  BY GatheredParts
<1> HIDE DEF front, held, got, all
<1>4. held \o got \in Seq(Injecting)
  BY <1>3, ConcatElements
<1>5. front \o ((held \o got) \o own) = (front \o (held \o got)) \o own
  <2> PICK both : both = held \o got
    OBVIOUS
  <2>1. both \in Seq(Injecting)
    BY <1>4
  <2>2. (front \o both) \o own = front \o (both \o own)
    BY <1>3, <2>1
  <2> QED BY <2>2
<1>6. front \o (held \o got) = (front \o held) \o got
  BY <1>3
<1> QED BY <1>2, <1>3, <1>5, <1>6

LEMMA NoCfgs == None.cfg.aspects = << >> /\ None.cfg.visit = << >> /\ None.cfg.yaml = FALSE /\ None.kind = "none"
BY DEF None, Empty

LEMMA ContinueGathers ==
  ASSUME CInv, CfgsOK, stack # << >>, NEW frame, Continue(frame), Held(frame) = Held(Top) \o ret.cfg.aspects
  PROVE  Gathered' = Gathered
<1> DEFINE old == {stack[i] : i \in DOMAIN stack}
           S == old \cup {frame}
           front == Joined(Front(stack))
           held == Held(Top)
           got == ret.cfg.aspects
<1>1. /\ Front(stack) \in Seq(old) /\ \A g \in old : Held(g) \in Seq(Injecting)
      /\ front \in Seq(Injecting) /\ held \in Seq(Injecting) /\ got \in Seq(Injecting)
      /\ Gathered = (front \o held) \o got
  BY GatheredParts
<1>2. held \o got \in Seq(Injecting)
  BY <1>1, ConcatElements
<1> HIDE DEF old
<1>3. Front(stack) \in Seq(S) /\ frame \in S /\ \A g \in S : Held(g) \in Seq(Injecting)
  <2>1. Front(stack) \in Seq(S) /\ frame \in S
    BY <1>1
  <2>2. Held(frame) \in Seq(Injecting)
    BY <1>2
  <2> QED BY <1>1, <2>1, <2>2
<1> HIDE DEF S
<1>4. Joined(Append(Front(stack), frame)) = front \o Held(frame)
  BY <1>3, JoinedAppend
<1>5. stack' = Append(Front(stack), frame) /\ ret'.cfg.aspects = << >>
  BY NoCfgs DEF Continue
<1>6. Gathered' = (front \o (held \o got)) \o << >>
  BY <1>4, <1>5 DEF Gathered
<1> HIDE DEF front, held, got
<1>7. front \o (held \o got) = (front \o held) \o got
  BY <1>1
<1>8. front \o (held \o got) \in Seq(Injecting)
  BY <1>1, <1>2, ConcatElements
<1> PICK all : all = front \o (held \o got)
  OBVIOUS
<1>9. all \in Seq(Injecting)
  BY <1>8
<1>10. all \o << >> = all
  BY <1>9
<1> QED BY <1>1, <1>6, <1>7, <1>10

LEMMA CallGathers ==
  ASSUME CInv, CfgsOK, stack # << >>, NEW frame, NEW fn, NEW name, Call(frame, fn, name),
         Held(frame) = Held(Top) \o ret.cfg.aspects
  PROVE  Gathered' = Gathered
<1> DEFINE new == Frame(fn, name)
           old == {stack[i] : i \in DOMAIN stack}
           S == old \cup {frame, new}
           front == Joined(Front(stack))
           held == Held(Top)
           got == ret.cfg.aspects
<1>1. /\ Front(stack) \in Seq(old) /\ \A g \in old : Held(g) \in Seq(Injecting)
      /\ front \in Seq(Injecting) /\ held \in Seq(Injecting) /\ got \in Seq(Injecting)
      /\ Gathered = (front \o held) \o got
  BY GatheredParts
<1>2. held \o got \in Seq(Injecting)
  BY <1>1, ConcatElements
<1>3. Held(new) = << >> /\ << >> \in Seq(Injecting)
  <2>1. new.cfgs = << >>
    BY DEF Frame
  <2> HIDE DEF new
  <2> QED BY <2>1, AllOfNone, EmptySeqs DEF Held
<1> HIDE DEF new, old
<1>4. Front(stack) \in Seq(S) /\ frame \in S /\ new \in S /\ \A g \in S : Held(g) \in Seq(Injecting)
  <2>1. Front(stack) \in Seq(S) /\ frame \in S /\ new \in S
    BY <1>1
  <2>2. Held(frame) \in Seq(Injecting) /\ Held(new) \in Seq(Injecting)
    BY <1>2, <1>3
  <2> QED BY <1>1, <2>1, <2>2
<1> HIDE DEF S
<1> PICK r : r = Append(Front(stack), frame)
  OBVIOUS
<1>5. Joined(r) = front \o Held(frame)
  BY <1>4, JoinedAppend
<1>6. r \in Seq(S)
  BY <1>4
<1>7. Joined(Append(r, new)) = Joined(r) \o << >>
  BY <1>3, <1>4, <1>6, JoinedAppend
<1>8. stack' = Append(r, new) /\ ret'.cfg.aspects = << >>
  BY NoCfgs DEF Call, new
<1>9. Gathered' = ((front \o (held \o got)) \o << >>) \o << >>
  BY <1>5, <1>7, <1>8 DEF Gathered
<1> HIDE DEF front, held, got
<1>10. front \o (held \o got) = (front \o held) \o got
  BY <1>1
<1>11. front \o (held \o got) \in Seq(Injecting)
  BY <1>1, <1>2, ConcatElements
<1> PICK all : all = front \o (held \o got)
  OBVIOUS
<1>12. all \in Seq(Injecting)
  BY <1>11
<1>13. all \o << >> = all
  BY <1>12
<1> QED BY <1>1, <1>9, <1>10, <1>13

\* A configuration that a frame takes up, or leaves out because it has no aspects.
LEMMA Kept ==
  ASSUME NEW cfgs, cfgs \in Seq(ToSet(cfgs)), NEW cfg, NEW frame, frame.cfgs = Keep(cfgs, cfg),
         Matching(All(AspectsOf, cfgs), All(VisitOf, cfgs)), Matching(cfg.aspects, cfg.visit)
  PROVE  /\ frame.cfgs \in Seq(ToSet(frame.cfgs)) /\ Matching(Held(frame), Shown(frame))
         /\ Held(frame) = All(AspectsOf, cfgs) \o cfg.aspects
<1> DEFINE aspects == All(AspectsOf, cfgs)
           visit == All(VisitOf, cfgs)
           T == ToSet(cfgs) \cup {cfg}
<1>1. CASE cfg.aspects = << >>
  <2>1. frame.cfgs = cfgs
    BY <1>1 DEF Keep, empty
  <2>2. aspects \in Seq(Injecting)
    BY DEF Matching
  <2>3. Held(frame) = aspects /\ Shown(frame) = visit
    BY <2>1 DEF Held, Shown
  <2> HIDE DEF aspects
  <2>4. aspects \o << >> = aspects
    BY <2>2
  <2> QED BY <1>1, <2>1, <2>3, <2>4 DEF aspects
<1>2. CASE cfg.aspects # << >>
  <2>1. frame.cfgs = Append(cfgs, cfg)
    BY <1>2 DEF Keep, empty
  <2>2. /\ aspects \in Seq(Injecting) /\ cfg.aspects \in Seq(Injecting)
        /\ visit \in Seq(Used) /\ cfg.visit \in Seq(Used)
        /\ ToSet(aspects) \subseteq ToSet(visit) /\ ToSet(cfg.aspects) \subseteq ToSet(cfg.visit)
    BY DEF Matching
  <2>3. Held(frame) = aspects \o cfg.aspects /\ Shown(frame) = visit \o cfg.visit
    BY <2>1, <2>2, AllAppend DEF Held, Shown
  <2>4. Matching(Held(frame), Shown(frame))
    <3> HIDE DEF aspects, visit
    <3>1. /\ aspects \o cfg.aspects \in Seq(Injecting)
          /\ ToSet(aspects \o cfg.aspects) = ToSet(aspects) \cup ToSet(cfg.aspects)
      BY <2>2, ConcatElements
    <3>2. /\ visit \o cfg.visit \in Seq(Used)
          /\ ToSet(visit \o cfg.visit) = ToSet(visit) \cup ToSet(cfg.visit)
      BY <2>2, ConcatElements
    <3> QED BY <2>2, <2>3, <3>1, <3>2 DEF Matching
  <2>5. frame.cfgs \in Seq(ToSet(frame.cfgs))
    <3>1. cfgs \in Seq(T) /\ cfg \in T
      OBVIOUS
    <3> HIDE DEF T
    <3>2. \A s \in Seq(T) : s \in Seq(ToSet(s))
      BY DEF ToSet
    <3>3. Append(cfgs, cfg) \in Seq(T)
      BY <3>1
    <3> QED BY <2>1, <3>2, <3>3
  <2> QED BY <2>3, <2>4, <2>5
<1> QED BY <1>1, <1>2

LEMMA SameFiles ==
  ASSUME world' = world
  PROVE  /\ Used' = Used /\ Injecting' = Injecting
         /\ \A aspects, visit : Matching(aspects, visit)' <=> Matching(aspects, visit)
         /\ \A S : ReachableFrom(S)' = ReachableFrom(S)
         /\ \A n, f, g : Precedes(n, f, g)' <=> Precedes(n, f, g)
         /\ RootImports' = RootImports /\ (RootIsFirst' <=> RootIsFirst)
         /\ AllFiles' = AllFiles
<1>1. AllFiles' = AllFiles
  BY DEF AllFiles, FilesOf
<1>2. \A n : Leads(n)' = Leads(n)
  BY SameWorld
<1>3. \A S : ReachableFrom(S)' = ReachableFrom(S)
  BY <1>1, <1>2 DEF ReachableFrom, IsClosed
<1>4. Used' = Used
  BY SameWorld DEF Used
<1>5. Injecting' = Injecting
  BY <1>4 DEF Injecting
<1>6. \A f : AskedAlone(f)' <=> AskedAlone(f)
  BY DEF AskedAlone
<1>7. \A n, f : LeadsBack(n, f)' <=> LeadsBack(n, f)
  <2> SUFFICES ASSUME NEW n, NEW f PROVE LeadsBack(n, f)' <=> LeadsBack(n, f)
    OBVIOUS
  <2>1. ReachableFrom(Leads(n))' = ReachableFrom(Leads(n))
    BY <1>1, <1>2 DEF ReachableFrom, IsClosed
  <2> QED BY <2>1, SameWorld DEF LeadsBack
<1>8. \A n, f, g : Precedes(n, f, g)' <=> Precedes(n, f, g)
  BY <1>2, <1>6, <1>7 DEF Precedes
<1>9. RootImports' = RootImports
  BY <1>1, <1>2 DEF RootImports, ReachableFrom, IsClosed
<1>10. RootIsFirst' <=> RootIsFirst
  BY <1>4, <1>9 DEF RootIsFirst
<1>11. \A aspects, visit : Matching(aspects, visit)' <=> Matching(aspects, visit)
  BY <1>4, <1>5 DEF Matching
<1> QED BY <1>1, <1>3, <1>4, <1>5, <1>8, <1>9, <1>10, <1>11

LEMMA SameHeld ==
  ASSUME world' = world
  PROVE  \A frame : HasCfgs(frame)' <=> HasCfgs(frame)
BY SameFiles DEF HasCfgs

LEMMA NewHasNoCfgs ==
  ASSUME NEW fn, NEW name
  PROVE  HasCfgs(Frame(fn, name))
<1>1. Frame(fn, name).cfgs = << >> /\ << >> \in Seq(ToSet(<< >>))
  BY DEF Frame
<1>2. Matching(<< >>, << >>)
  BY EmptySeqs DEF Matching
<1> QED BY <1>1, <1>2, AllOfNone DEF HasCfgs, Held, Shown

LEMMA CfgsAfterReturn ==
  ASSUME CInv, CfgsOK, world' = world, stack # << >>, NEW kind, NEW cfg, Return(kind, cfg),
         Matching(cfg.aspects, cfg.visit)
  PROVE  CfgsOK'
<1>1. stack' = Front(stack) /\ ret'.cfg = cfg
  BY DEF Return
<1>2. \A i \in DOMAIN stack' : HasCfgs(stack[i])'
  BY <1>1, AfterReturn, SameHeld DEF CfgsOK
<1>3. Matching(ret.cfg.aspects, ret.cfg.visit)'
  BY <1>1, SameFiles
<1> QED BY <1>2, <1>3 DEF CfgsOK

LEMMA CfgsAfterContinue ==
  ASSUME CInv, CfgsOK, world' = world, stack # << >>, NEW frame, Continue(frame), HasCfgs(frame)
  PROVE  CfgsOK'
<1>1. stack' = Append(Front(stack), frame) /\ ret' = None
  BY DEF Continue
<1>2. \A i \in DOMAIN stack' : HasCfgs(stack[i])'
  BY <1>1, AfterContinue, SameHeld DEF CfgsOK
<1>3. Matching(ret.cfg.aspects, ret.cfg.visit)'
  BY <1>1, NoCfgs, EmptySeqs DEF Matching
<1> QED BY <1>1, <1>2, <1>3 DEF CfgsOK

LEMMA CfgsAfterCall ==
  ASSUME CInv, CfgsOK, world' = world, stack # << >>, NEW frame, NEW fn, NEW name,
         Call(frame, fn, name), HasCfgs(frame)
  PROVE  CfgsOK'
<1> PICK new : new = Frame(fn, name)
  OBVIOUS
<1>1. stack' = Append(Append(Front(stack), frame), new) /\ ret' = None
  BY DEF Call
<1>2. HasCfgs(new)
  BY NewHasNoCfgs
<1>3. \A i \in DOMAIN stack' : HasCfgs(stack[i])'
  BY <1>1, <1>2, AfterCall, SameHeld DEF CfgsOK
<1>4. Matching(ret.cfg.aspects, ret.cfg.visit)'
  BY <1>1, NoCfgs, EmptySeqs DEF Matching
<1> QED BY <1>1, <1>3, <1>4 DEF CfgsOK

\* What is being loaded, after each kind of step.
LEMMA BusyAfterReturn ==
  ASSUME CInv, world' = world, stack # << >>, stack' = Front(stack)
  PROVE  /\ Busy' \subseteq Busy
         /\ \A f \in Busy : f \in Busy' <=> ~ (Loading(Top) /\ File(Top) = Yml(f))
<1>1. /\ \A i \in DOMAIN stack' : i \in DOMAIN stack /\ stack'[i] = stack[i]
      /\ \A i \in DOMAIN stack : i \in DOMAIN stack' \/ stack[i] = Top
  BY AfterReturn
<1>2. \A i \in DOMAIN stack' : i # Len(stack)
  <2>1. stack \in Seq({stack[i] : i \in DOMAIN stack})
    BY DEF CInv
  <2>2. Len(stack') = Len(stack) - 1 /\ stack' \in Seq({stack[i] : i \in DOMAIN stack})
    BY <2>1, Pop
  <2>3. DOMAIN stack' = 1..Len(stack) - 1
    BY <2>2
  <2> QED BY <2>3, StackFacts
<1>3. \A i \in DOMAIN stack' : Loading(stack[i]) /\ Loading(Top) => File(stack[i]) # File(Top)
  BY <1>1, <1>2, StackFacts DEF CInv
<1>4. Busy' = {f \in DOMAIN world.yml : \E i \in DOMAIN stack' : Loading(stack'[i]) /\ File(stack'[i]) = Yml(f)}
  BY DEF Busy, Loading, File, Yml
<1>5. Busy' \subseteq Busy
  BY <1>1, <1>4 DEF Busy
<1>6. ASSUME NEW f \in Busy PROVE f \in Busy' <=> ~ (Loading(Top) /\ File(Top) = Yml(f))
  <2>1. PICK i \in DOMAIN stack : Loading(stack[i]) /\ File(stack[i]) = Yml(f)
    BY DEF Busy
  <2>2. CASE Loading(Top) /\ File(Top) = Yml(f)
    BY <1>1, <1>3, <1>4, <2>2
  <2>3. CASE ~ (Loading(Top) /\ File(Top) = Yml(f))
    <3>1. i \in DOMAIN stack' /\ stack'[i] = stack[i]
      BY <1>1, <2>1, <2>3
    <3>2. f \in DOMAIN world.yml
      BY DEF Busy
    <3> QED BY <1>4, <2>1, <2>3, <3>1, <3>2
  <2> QED BY <2>2, <2>3
<1> QED BY <1>5, <1>6

LEMMA BusyAfterContinue ==
  ASSUME CInv, world' = world, stack # << >>, NEW frame, stack' = Append(Front(stack), frame),
         frame.fn = Top.fn, frame.name = Top.name, Loading(Top) => Loading(frame)
  PROVE  Busy' = Busy \cup {f \in DOMAIN world.yml : Loading(frame) /\ File(frame) = Yml(f)}
<1>1. /\ DOMAIN stack' = DOMAIN stack /\ Len(stack) \in DOMAIN stack /\ stack[Len(stack)] = Top
      /\ \A i \in DOMAIN stack : stack'[i] = IF i = Len(stack) THEN frame ELSE stack[i]
  BY AfterContinue, StackFacts
<1>2. Busy' = {f \in DOMAIN world.yml : \E i \in DOMAIN stack' : Loading(stack'[i]) /\ File(stack'[i]) = Yml(f)}
  BY DEF Busy, Loading, File, Yml
<1>3. File(frame) = File(Top)
  BY DEF File
<1> QED BY <1>1, <1>2, <1>3 DEF Busy

LEMMA BusyAfterCall ==
  ASSUME CInv, world' = world, stack # << >>, NEW frame, NEW fn, NEW name, Call(frame, fn, name),
         frame.fn = Top.fn, frame.name = Top.name, Loading(Top) <=> Loading(frame)
  PROVE  Busy' = Busy
<1> PICK new : new = Frame(fn, name)
  OBVIOUS
<1>1. stack' = Append(Append(Front(stack), frame), new) /\ ~ Loading(new)
  BY DEF Call, Frame, Loading
<1>2. /\ DOMAIN stack' = DOMAIN stack \cup {Len(stack) + 1} /\ Len(stack) \in DOMAIN stack
      /\ stack[Len(stack)] = Top /\ stack'[Len(stack) + 1] = new
      /\ \A i \in DOMAIN stack : stack'[i] = IF i = Len(stack) THEN frame ELSE stack[i]
  BY <1>1, AfterCall, StackFacts
<1>3. Busy' = {f \in DOMAIN world.yml : \E i \in DOMAIN stack' : Loading(stack'[i]) /\ File(stack'[i]) = Yml(f)}
  BY DEF Busy, Loading, File, Yml
<1>4. File(frame) = File(Top)
  BY DEF File
<1> QED BY <1>1, <1>2, <1>3, <1>4 DEF Busy

-----------------------------------------------------------------------------
(* What a file that is being loaded leads to *)

LEMMA ReachableFromFacts ==
  ASSUME world \in worlds, NEW S \in SUBSET AllFiles
  PROVE  /\ S \subseteq ReachableFrom(S) /\ ReachableFrom(S) \subseteq AllFiles
         /\ \A n \in ReachableFrom(S) : n[2] # BuiltIn => Leads(n) \subseteq ReachableFrom(S)
         /\ \A T \in SUBSET AllFiles : S \subseteq T /\ IsClosed(T) => ReachableFrom(S) \subseteq T
<1>1. S \subseteq ReachableFrom(S) /\ ReachableFrom(S) \subseteq AllFiles
  BY DEF ReachableFrom
<1>2. ASSUME NEW n \in ReachableFrom(S), n[2] # BuiltIn, NEW m \in Leads(n)
      PROVE  m \in ReachableFrom(S)
  <2>1. m \in AllFiles
    BY <1>1, LeadsFacts
  <2>2. ASSUME NEW T \in SUBSET AllFiles, S \subseteq T, IsClosed(T) PROVE m \in T
    BY <1>2, <2>2 DEF IsClosed, ReachableFrom
  <2> QED BY <2>1, <2>2 DEF ReachableFrom
<1>3. ASSUME NEW T \in SUBSET AllFiles, S \subseteq T, IsClosed(T)
      PROVE  ReachableFrom(S) \subseteq T
  BY <1>3 DEF ReachableFrom
<1> QED BY <1>1, <1>2, <1>3

\* What a frame waits for is what it was asked for, or what its file leads to.
LEMMA CalleeFiles ==
  ASSUME world \in worlds, NEW frame, FrameOK(frame), Waiting(frame)
  PROVE  LET callee == Callee(frame) IN
         /\ frame.fn = "package" =>
               AskedFor(callee[1], callee[2]) \subseteq AskedFor(frame.fn, frame.name)
         /\ frame.fn # "package" =>
               /\ AskedFor(callee[1], callee[2]) \subseteq Leads(File(frame))
               /\ Loading(frame) /\ File(frame) \in AllFiles /\ frame.name # BuiltIn
               /\ AskedFor(frame.fn, frame.name) = {File(frame)}
<1> DEFINE callee == Callee(frame)
<1>1. CASE frame.fn = "package"
  <2>1. frame.at \in {"tool", "yml"} /\ frame.name \in DOMAIN world.tool
    BY <1>1 DEF FrameOK, Waiting
  <2>2. AskedFor(callee[1], callee[2]) = {<<frame.at, frame.name>>}
    BY <1>1, <2>1 DEF Callee, AskedFor
  <2> QED BY <1>1, <2>1, <2>2, FilesFacts DEF AskedFor, Tool, Yml
<1>2. CASE frame.fn = "tool"
  <2>1. /\ frame.name \in DOMAIN world.tool /\ frame.name # BuiltIn /\ world.tool[frame.name].state = "ok"
        /\ frame.todo \in Seq(ToSet(Listed(world.tool[frame.name].imports)))
    BY <1>2 DEF FrameOK, Waiting
  <2>2. Head(frame.todo) \in ToSet(Listed(world.tool[frame.name].imports))
    BY <1>2, <2>1, HeadAndTail DEF Waiting
  <2>3. AskedFor(callee[1], callee[2]) = FilesOf(Head(frame.todo))
    BY <1>2 DEF Callee, AskedFor
  <2>4. Leads(File(frame)) = UNION {FilesOf(p) : p \in ToSet(Listed(world.tool[frame.name].imports))}
    BY <1>2, <2>1 DEF Leads, File
  <2>5. Tool(frame.name) \in AllFiles
    BY <2>1, FilesFacts
  <2>6. Loading(frame) /\ File(frame) \in AllFiles /\ AskedFor(frame.fn, frame.name) = {File(frame)}
    BY <1>2, <2>5 DEF Loading, Waiting, File, Tool, AskedFor
  <2> QED BY <1>2, <2>1, <2>2, <2>3, <2>4, <2>6
<1>3. CASE frame.fn = "yml"
  <2> DEFINE exts == ToSet(world.yml[frame.name].extends)
             ext == Head(frame.todo)
  <2>1. /\ frame.name \in DOMAIN world.yml /\ frame.name # BuiltIn /\ parseYMLFile(frame.name) = "ok"
        /\ frame.todo \in Seq(exts)
    BY <1>3 DEF FrameOK, Waiting
  <2>2. ext \in exts /\ ext.is # "missing"
    BY <1>3, <2>1, HeadAndTail DEF Waiting
  <2>3. callee = <<IF ext.is = "dir" THEN "package" ELSE "yml", ext.name>>
    BY <1>3 DEF Callee
  <2>4. ext.is \in {"dir", "file", "missing"}
    BY <2>1, <2>2, WorldFacts
  <2> HIDE DEF ext, callee, exts
  <2>5. AskedFor(callee[1], callee[2]) = FilesOfExtension(ext)
    BY <2>2, <2>3, <2>4 DEF AskedFor, FilesOfExtension, Yml
  <2>6. Leads(File(frame)) = UNION {FilesOfExtension(e) : e \in exts}
    BY <1>3, <2>1 DEF Leads, File, exts
  <2>7. Yml(frame.name) \in AllFiles
    BY <2>1, FilesFacts
  <2>8. Loading(frame) /\ File(frame) \in AllFiles /\ AskedFor(frame.fn, frame.name) = {File(frame)}
    BY <1>3, <2>7 DEF Loading, Waiting, File, Yml, AskedFor
  <2> QED BY <1>3, <2>1, <2>2, <2>5, <2>6, <2>8 DEF callee
<1> QED BY <1>1, <1>2, <1>3 DEF FrameOK

\* What is asked for above a file that is being loaded is what the file leads to.
LEMMA StackReach ==
  ASSUME Inv, NEW i \in DOMAIN stack, NEW j \in DOMAIN stack, i < j, Loading(stack[i])
  PROVE  AskedFor(stack[j].fn, stack[j].name) \subseteq ReachableFrom(Leads(File(stack[i])))
<1> DEFINE R == ReachableFrom(Leads(File(stack[i])))
           Bad == {k \in DOMAIN stack : i < k /\ ~ (AskedFor(stack[k].fn, stack[k].name) \subseteq R)}
<1>1. stack # << >> /\ world \in worlds
  BY DEF Inv, LoadInv
<1>2. Len(stack) \in Nat /\ DOMAIN stack = 1..Len(stack)
  BY <1>1, StackFacts DEF Inv
<1>3. ASSUME NEW k \in DOMAIN stack, k + 1 \in DOMAIN stack
      PROVE  /\ FrameOK(stack[k]) /\ Waiting(stack[k])
             /\ AskedFor(Callee(stack[k])[1], Callee(stack[k])[2]) = AskedFor(stack[k + 1].fn, stack[k + 1].name)
  BY <1>3 DEF Inv, LoadInv, FramesOK
<1>4. i + 1 \in DOMAIN stack
  BY <1>2
<1>5. /\ AskedFor(stack[i + 1].fn, stack[i + 1].name) \subseteq Leads(File(stack[i]))
      /\ Leads(File(stack[i])) \subseteq AllFiles
  BY <1>1, <1>3, <1>4, CalleeFiles, LeadsFacts DEF Loading
<1>6. Leads(File(stack[i])) \subseteq R /\ \A n \in R : n[2] # BuiltIn => Leads(n) \subseteq R
  BY <1>1, <1>5, ReachableFromFacts
<1> HIDE DEF R
<1> SUFFICES ASSUME Bad # {}
             PROVE  FALSE
  BY DEF R
<1>7. Bad \in SUBSET Nat
  BY <1>2
<1>8. PICK k \in Bad : \A l \in Bad : ~ (l < k)
  <2> HIDE DEF Bad
  <2> QED BY <1>7, LeastExists
<1>9. k \in DOMAIN stack /\ i < k /\ ~ (AskedFor(stack[k].fn, stack[k].name) \subseteq R)
  OBVIOUS
<1>10. k # i + 1
  BY <1>5, <1>6, <1>9
<1>11. k - 1 \in DOMAIN stack /\ i < k - 1 /\ k - 1 < k /\ k - 1 + 1 = k
  BY <1>2, <1>9, <1>10
<1>12. AskedFor(stack[k - 1].fn, stack[k - 1].name) \subseteq R
  BY <1>8, <1>11
<1> HIDE DEF Bad
<1>13. AskedFor(stack[k].fn, stack[k].name) \subseteq R
  <2> PICK l \in DOMAIN stack : l = k - 1
    BY <1>11
  <2> PICK frame : frame = stack[l]
    OBVIOUS
  <2>1. /\ FrameOK(frame) /\ Waiting(frame)
        /\ AskedFor(Callee(frame)[1], Callee(frame)[2]) = AskedFor(stack[k].fn, stack[k].name)
    BY <1>3, <1>9, <1>11
  <2>2. AskedFor(frame.fn, frame.name) \subseteq R
    BY <1>12
  <2>3. CASE frame.fn = "package"
    BY <1>1, <2>1, <2>2, <2>3, CalleeFiles
  <2>4. CASE frame.fn # "package"
    <3>1. /\ AskedFor(stack[k].fn, stack[k].name) \subseteq Leads(File(frame))
          /\ File(frame) \in R /\ File(frame)[2] # BuiltIn
      BY <1>1, <2>1, <2>2, <2>4, CalleeFiles DEF File
    <3> QED BY <1>6, <3>1
  <2> QED BY <2>3, <2>4
<1> QED BY <1>9, <1>13

\* While a file is being loaded, what it leads to without leading back to the top is not.
LEMMA NotBusy ==
  ASSUME Inv, stack # << >>, Top.fn = "yml", Loading(Top), NEW f, Top.name = f,
         NEW n \in FilesOf(f), NEW g, Precedes(n, f, g)
  PROVE  g \notin Busy /\ Yml(g) # Yml(f)
<1>1. world \in worlds /\ FrameOK(Top) /\ f \in DOMAIN world.yml
  BY InvFacts DEF FrameOK
<1>2. n \in AllFiles /\ Leads(n) \subseteq AllFiles
  <2>1. n \in AllFiles
    BY <1>1 DEF AllFiles
  <2> QED BY <1>1, <2>1, LeadsFacts
<1>3. /\ Leads(n) \subseteq ReachableFrom(Leads(n)) /\ ReachableFrom(Leads(n)) \subseteq AllFiles
      /\ \A m \in ReachableFrom(Leads(n)) : m[2] # BuiltIn => Leads(m) \subseteq ReachableFrom(Leads(n))
  BY <1>1, <1>2, ReachableFromFacts
<1>4. Yml(g) \in Leads(n) /\ g # BuiltIn /\ Yml(f) \notin ReachableFrom(Leads(n))
  BY <1>1, FilesFacts DEF Precedes, LeadsBack
<1>5. Leads(Yml(g)) \subseteq ReachableFrom(Leads(n))
  BY <1>3, <1>4 DEF Yml
<1>6. ReachableFrom(Leads(Yml(g))) \subseteq ReachableFrom(Leads(n))
  <2>1. Leads(Yml(g)) \subseteq AllFiles /\ IsClosed(ReachableFrom(Leads(n)))
    BY <1>3, <1>5 DEF IsClosed
  <2> QED BY <1>1, <1>3, <1>5, <2>1, ReachableFromFacts
<1>7. ASSUME g \in Busy
      PROVE  FALSE
  <2>1. PICK i \in DOMAIN stack : Loading(stack[i]) /\ File(stack[i]) = Yml(g)
    BY <1>7 DEF Busy
  <2>2. Len(stack) \in DOMAIN stack /\ stack[Len(stack)] = Top /\ DOMAIN stack = 1..Len(stack) /\ Len(stack) \in Nat
    BY StackFacts DEF Inv
  <2>3. i # Len(stack)
    BY <1>3, <1>4, <2>1, <2>2 DEF File, Yml
  <2>4. i < Len(stack)
    BY <2>2, <2>3
  <2>5. AskedFor(Top.fn, Top.name) \subseteq ReachableFrom(Leads(Yml(g)))
    BY <2>1, <2>2, <2>4, StackReach
  <2>6. Yml(f) \in AskedFor(Top.fn, Top.name)
    BY DEF AskedFor, Yml
  <2> QED BY <1>4, <1>6, <2>5, <2>6
<1> QED BY <1>3, <1>4, <1>7

\* A YAML file is done when all that it extends is: also what its package imports is,
\* as it was loaded before.
LEMMA FinishedIsDone ==
  ASSUME Inv, stack # << >>, ret.kind # "error", Top.fn = "yml", Top.at = "extends", Top.todo = << >>,
         NEW f, f = Top.name, NEW n \in FilesOf(f), NEW g, Precedes(n, f, g)
  PROVE  Yml(g) \in loaded /\ g \notin Busy
<1>1. /\ world \in worlds /\ FrameOK(Top) /\ f \in DOMAIN world.yml /\ f # BuiltIn /\ DutiesDone /\ Loading(Top)
      /\ Yml(f) \in loaded
  BY InvFacts, YMLFrame DEF FrameOK, Loading
<1>2. g \notin Busy /\ Yml(g) # Yml(f)
  BY <1>1, NotBusy
<1>3. Yml(g) \in Leads(n) /\ g # BuiltIn /\ Yml(f) \notin ReachableFrom(Leads(n)) /\ (n[1] = "tool" => ~AskedAlone(f))
  BY <1>1, FilesFacts DEF Precedes, LeadsBack
<1>4. Len(stack) \in DOMAIN stack /\ stack[Len(stack)] = Top /\ DOMAIN stack = 1..Len(stack) /\ Len(stack) \in Nat
  BY StackFacts DEF Inv
<1>5. n \in loaded
  <2>1. CASE n = Yml(f)
    BY <1>1, <2>1
  <2>2. CASE n = Tool(f)
    <3>1. Len(stack) # 1
      BY <1>4 DEF Inv, LoadInv, FramesOK
    <3> PICK i \in DOMAIN stack : i = Len(stack) - 1
      BY <1>4, <3>1
    <3> PICK frame : frame = stack[i]
      OBVIOUS
    <3>2. i + 1 \in DOMAIN stack /\ stack[i + 1] = Top
      BY <1>4
    <3>3. FrameOK(frame) /\ Waiting(frame) /\ Callee(frame) = <<"yml", f>>
      BY <3>2 DEF Inv, LoadInv, FramesOK
    <3>4. CASE frame.fn = "package"
      BY <2>2, <3>3, <3>4 DEF FrameOK, Waiting, Callee
    <3>5. CASE frame.fn = "tool"
      BY <3>3, <3>5 DEF Callee
    <3>6. CASE frame.fn = "yml"
      <4> DEFINE ext == Head(frame.todo)
                 exts == ToSet(world.yml[frame.name].extends)
      <4>1. ext \in exts /\ ext.is # "missing" /\ frame.name \in DOMAIN world.yml
        BY <3>3, <3>6, HeadAndTail DEF FrameOK, Waiting
      <4>2. ext.is = "file" /\ ext.name = f
        BY <1>1, <3>3, <3>6, <4>1, WorldFacts DEF Callee
      <4>3. AskedAlone(f)
        BY <4>1, <4>2 DEF AskedAlone
      <4> QED BY <1>3, <2>2, <4>3 DEF Tool
    <3> QED BY <3>3, <3>4, <3>5, <3>6 DEF FrameOK
  <2> QED BY <1>1, <2>1, <2>2, FilesFacts
<1>6. Settled(Yml(g)) \/ \E i \in DOMAIN stack : IsFor(stack[i], n) /\ Yml(g) \in Pending(stack[i])
  BY <1>1, <1>3, <1>5 DEF DutiesDone, Duties
<1>7. CASE Settled(Yml(g))
  BY <1>2, <1>3, <1>7 DEF Settled, Yml
<1>8. ASSUME NEW i \in DOMAIN stack, IsFor(stack[i], n), Yml(g) \in Pending(stack[i])
      PROVE  FALSE
  <2> PICK frame : frame = stack[i]
    OBVIOUS
  <2>1. FrameOK(frame) /\ n = <<frame.fn, frame.name>> /\ (n = Yml(f) \/ n = Tool(f))
    BY <1>1, <1>8, FilesFacts DEF Inv, LoadInv, FramesOK, IsFor
  <2>2. frame.fn \in {"tool", "yml"} /\ frame.name = f
    BY <2>1 DEF Yml, Tool
  <2>3. Loading(frame)
    <3>1. CASE frame.at = "start"
      <4>1. Yml(g) = n
        BY <1>8, <2>1, <2>2, <3>1 DEF Pending
      <4> QED BY <1>2, <2>1, <4>1 DEF Yml, Tool
    <3> QED BY <2>2, <3>1 DEF Loading
  <2>4. CASE i = Len(stack)
    <3>1. Pending(Top) = {}
      BY YMLFrame, NoneToDo
    <3> QED BY <1>4, <1>8, <2>4, <3>1
  <2>5. CASE i # Len(stack)
    <3>1. i < Len(stack)
      BY <1>4, <2>5
    <3>2. AskedFor(Top.fn, Top.name) \subseteq ReachableFrom(Leads(File(frame)))
      BY <1>4, <2>3, <3>1, StackReach
    <3>3. Yml(f) \in AskedFor(Top.fn, Top.name) /\ File(frame) = n
      BY <2>1 DEF AskedFor, Yml, File
    <3> QED BY <1>3, <3>2, <3>3
  <2> QED BY <2>4, <2>5
<1> QED BY <1>2, <1>6, <1>7, <1>8

-----------------------------------------------------------------------------
(* What is gathered, after each kind of step *)

LEMMA DoneStaysDone ==
  ASSUME world' = world, loaded \subseteq loaded', \A f \in Busy' : f \in Busy \/ Yml(f) \notin loaded
  PROVE  \A f : IsDone(f) => IsDone(f)'
<1> SUFFICES ASSUME NEW f, IsDone(f) PROVE IsDone(f)'
  OBVIOUS
<1>1. \A n, g : Precedes(n, f, g)' <=> Precedes(n, f, g)
  BY SameFiles
<1>2. FilesOf(f)' = FilesOf(f)
  BY SameWorld
<1>3. \A g : Yml(g) \in loaded /\ g \notin Busy => Yml(g) \in loaded' /\ g \notin Busy'
  OBVIOUS
<1>4. \A n \in FilesOf(f), g \in DOMAIN world'.yml : Precedes(n, f, g)' => Yml(g) \in loaded' /\ g \notin Busy'
  BY <1>1, <1>3 DEF IsDone
<1>5. Yml(f) \in loaded' /\ f \notin Busy'
  BY <1>3 DEF IsDone
<1> QED BY <1>2, <1>4, <1>5 DEF IsDone, Yml

LEMMA OrderStays ==
  ASSUME world' = world
  PROVE  \A f, g : InOrder(f, g)' <=> InOrder(f, g)
BY SameFiles, SameWorld DEF InOrder

LEMMA GatheredStays ==
  ASSUME world' = world, loaded \subseteq loaded', \A f \in Busy' : f \in Busy \/ Yml(f) \notin loaded,
         GatheredInv, Gathered' = Gathered
  PROVE  GatheredInv'
<1> PICK g : g = Gathered
  OBVIOUS
<1>1. \A i \in DOMAIN g : g[i] # BuiltIn => IsDone(g[i])'
  BY DoneStaysDone DEF GatheredInv
<1>2. \A i, j \in DOMAIN g : i < j /\ g[i] # BuiltIn /\ g[j] # BuiltIn => InOrder(g[i], g[j])'
  BY OrderStays DEF GatheredInv
<1>3. Gathered' = g
  OBVIOUS
<1> QED BY <1>1, <1>2, <1>3 DEF GatheredInv

\* A file that is finished had been loading until now, so that nothing that was gathered leads to it.
LEMMA GatheredGrows ==
  ASSUME world' = world, loaded \subseteq loaded', Busy' \subseteq Busy, GatheredInv,
         NEW T, Gathered \in Seq(T), NEW x \in T, Gathered' = Gathered \o <<x>>,
         x # BuiltIn => x \in Busy /\ IsDone(x)'
  PROVE  GatheredInv'
<1> PICK g : g = Gathered
  OBVIOUS
<1> PICK n : n = Len(g)
  OBVIOUS
<1> PICK h : h = g \o <<x>>
  OBVIOUS
<1>1. /\ n \in Nat /\ DOMAIN g = 1..n /\ DOMAIN h = 1..n + 1
      /\ \A i \in 1..n : h[i] = g[i]
      /\ h[n + 1] = x
  OBVIOUS
<1>2. Gathered' = h
  OBVIOUS
<1>3. \A i \in 1..n + 1 : i \in 1..n \/ i = n + 1
  BY <1>1
<1>4. \A i \in 1..n : g[i] # BuiltIn => IsDone(g[i]) /\ IsDone(g[i])'
  BY <1>1, DoneStaysDone DEF GatheredInv
<1>5. ASSUME NEW i \in 1..n + 1, h[i] # BuiltIn
      PROVE  IsDone(h[i])'
  <2>1. CASE i \in 1..n
    <3>1. IsDone(g[i])'
      BY <1>1, <1>4, <1>5, <2>1
    <3> QED BY <1>1, <2>1, <3>1
  <2>2. CASE i = n + 1
    BY <1>1, <1>5, <2>2
  <2> QED BY <1>3, <2>1, <2>2
<1>6. ASSUME NEW i \in 1..n + 1, NEW j \in 1..n + 1, i < j, h[i] # BuiltIn, h[j] # BuiltIn
      PROVE  InOrder(h[i], h[j])
  <2>1. i \in 1..n
    BY <1>1, <1>6
  <2>2. CASE j \in 1..n
    BY <1>1, <1>6, <2>1, <2>2 DEF GatheredInv
  <2>3. CASE j = n + 1
    <3>1. IsDone(g[i]) /\ h[i] = g[i] /\ h[j] = x /\ x \in Busy
      BY <1>1, <1>4, <1>6, <2>1, <2>3
    <3>2. x \in DOMAIN world.yml
      BY <3>1 DEF Busy
    <3> QED BY <3>1, <3>2 DEF InOrder, IsDone
  <2> QED BY <1>3, <2>2, <2>3
<1>7. \A i, j \in 1..n + 1 : i < j /\ h[i] # BuiltIn /\ h[j] # BuiltIn => InOrder(h[i], h[j])'
  BY <1>6, OrderStays
<1> QED BY <1>1, <1>2, <1>5, <1>7 DEF GatheredInv

LEMMA NoneLostAfter ==
  ASSUME world' = world, NoneLost, ToSet(Gathered) \subseteq ToSet(Gathered)',
         \A f \in Busy : f \in Busy' \/ f \notin Injecting \/ f \in ToSet(Gathered)',
         \A n \in loaded' \ loaded : n[2] # BuiltIn /\ \A f \in Injecting : n = Yml(f) => f \in Busy',
         BuiltInDue', ret'.kind = "ok" /\ LastCall' = <<"package", BuiltIn>> => BuiltIn \in ToSet(Gathered)'
  PROVE  NoneLost'
<1>1. Injecting' = Injecting
  BY SameFiles
<1>2. \A f \in Injecting : f # BuiltIn /\ Yml(f) \in loaded' => f \in ToSet(Gathered)' \cup Busy'
  BY DEF NoneLost
<1>3. \A n \in loaded' : n[2] # BuiltIn
  BY DEF NoneLost
<1> QED BY <1>1, <1>2, <1>3 DEF NoneLost, Yml

LEMMA BuiltInAfterReturn ==
  ASSUME CInv, BuiltInDue, world' = world, stack # << >>, stack' = Front(stack),
         ToSet(Gathered) \subseteq ToSet(Gathered)',
         Yml(BuiltIn) \in Pending(Top) => BuiltIn \in ToSet(Gathered)',
         \A n \in loaded' \ loaded : Leads(n) = {}
  PROVE  BuiltInDue'
<1> SUFFICES ASSUME NEW n \in loaded', Yml(BuiltIn) \in Leads(n), BuiltIn \notin ToSet(Gathered)'
             PROVE  \E i \in DOMAIN stack' : Yml(BuiltIn) \in Pending(stack[i])'
  BY SameWorld DEF BuiltInDue, Yml
<1>1. n \in loaded /\ BuiltIn \notin ToSet(Gathered)
  OBVIOUS
<1>2. PICK i \in DOMAIN stack : Yml(BuiltIn) \in Pending(stack[i])
  BY <1>1 DEF BuiltInDue
<1>3. i \in DOMAIN stack' /\ stack'[i] = stack[i]
  BY <1>2, AfterReturn
<1>4. Pending(stack[i])' = Pending(stack[i])
  BY <1>3, SameWorld
<1> QED BY <1>2, <1>3, <1>4

LEMMA BuiltInAfterContinue ==
  ASSUME CInv, BuiltInDue, world' = world, stack # << >>,
         NEW frame, stack' = Append(Front(stack), frame), ToSet(Gathered)' = ToSet(Gathered),
         Yml(BuiltIn) \in Pending(Top) => Yml(BuiltIn) \in Pending(frame) \/ BuiltIn \in ToSet(Gathered),
         \A n \in loaded' \ loaded : Leads(n) \subseteq Pending(frame)
  PROVE  BuiltInDue'
<1> SUFFICES ASSUME NEW n \in loaded', Yml(BuiltIn) \in Leads(n), BuiltIn \notin ToSet(Gathered)
             PROVE  \E i \in DOMAIN stack' : Yml(BuiltIn) \in Pending(stack[i])'
  BY SameWorld DEF BuiltInDue, Yml
<1>1. /\ DOMAIN stack' = DOMAIN stack /\ Len(stack) \in DOMAIN stack /\ stack[Len(stack)] = Top
      /\ \A i \in DOMAIN stack : stack'[i] = IF i = Len(stack) THEN frame ELSE stack[i]
  BY AfterContinue, StackFacts
<1>2. Yml(BuiltIn) \in Pending(frame) => \E i \in DOMAIN stack' : Yml(BuiltIn) \in Pending(stack[i])'
  BY <1>1, SameWorld
<1>3. CASE n \notin loaded
  BY <1>2, <1>3
<1>4. CASE n \in loaded
  <2>1. PICK i \in DOMAIN stack : Yml(BuiltIn) \in Pending(stack[i])
    BY <1>4 DEF BuiltInDue
  <2>2. CASE i = Len(stack)
    BY <1>1, <1>2, <2>1, <2>2
  <2>3. CASE i # Len(stack)
    BY <1>1, <2>1, <2>3, SameWorld
  <2> QED BY <2>2, <2>3
<1> QED BY <1>3, <1>4

LEMMA BuiltInAfterCall ==
  ASSUME CInv, BuiltInDue, world' = world, stack # << >>, loaded' = loaded,
         NEW frame, NEW new, stack' = Append(Append(Front(stack), frame), new),
         ToSet(Gathered)' = ToSet(Gathered), Yml(BuiltIn) \in Pending(Top) => Yml(BuiltIn) \in Pending(frame)
  PROVE  BuiltInDue'
<1> SUFFICES ASSUME NEW n \in loaded, Yml(BuiltIn) \in Leads(n), BuiltIn \notin ToSet(Gathered)
             PROVE  \E i \in DOMAIN stack' : Yml(BuiltIn) \in Pending(stack[i])'
  BY SameWorld DEF BuiltInDue, Yml
<1>1. /\ DOMAIN stack \subseteq DOMAIN stack' /\ Len(stack) \in DOMAIN stack /\ stack[Len(stack)] = Top
      /\ \A i \in DOMAIN stack : stack'[i] = IF i = Len(stack) THEN frame ELSE stack[i]
  BY AfterCall, StackFacts
<1>2. PICK i \in DOMAIN stack : Yml(BuiltIn) \in Pending(stack[i])
  BY DEF BuiltInDue
<1>3. CASE i = Len(stack)
  BY <1>1, <1>2, <1>3, SameWorld
<1>4. CASE i # Len(stack)
  BY <1>1, <1>2, <1>4, SameWorld
<1> QED BY <1>3, <1>4

-----------------------------------------------------------------------------
(* What is known of the root, after each kind of step *)

LEMMA Positions ==
  ASSUME Inv, stack # << >>
  PROVE  /\ Len(stack) \in Nat /\ Len(stack) > 0 /\ DOMAIN stack = 1..Len(stack)
         /\ stack[Len(stack)] = Top /\ stack[1].fn = "package" /\ stack[1].name = world.root
         /\ 2 \in DOMAIN stack <=> Len(stack) # 1
         /\ Len(stack) # 1 =>
               stack[1].at \in {"tool", "yml"} /\ stack[2].fn = stack[1].at /\ stack[2].name = world.root
         /\ Len(stack) > 2 => stack[2].at # "start"
<1>1. /\ Len(stack) \in Nat /\ Len(stack) > 0 /\ DOMAIN stack = 1..Len(stack)
      /\ stack[Len(stack)] = Top /\ stack[1].fn = "package" /\ stack[1].name = world.root
      /\ 1 \in DOMAIN stack
  BY StackFacts DEF Inv, LoadInv, FramesOK
<1>2. 2 \in DOMAIN stack <=> Len(stack) # 1
  BY <1>1
<1>3. CASE Len(stack) # 1
  <2>1. 1 + 1 \in DOMAIN stack /\ 1 + 1 = 2
    BY <1>2, <1>3
  <2>2. Waiting(stack[1]) /\ Callee(stack[1]) = <<stack[1 + 1].fn, stack[1 + 1].name>> /\ FrameOK(stack[1])
    BY <1>1, <2>1 DEF Inv, LoadInv, FramesOK
  <2>3. stack[1].at \in {"tool", "yml"} /\ Callee(stack[1]) = <<stack[1].at, world.root>>
    BY <1>1, <2>2 DEF Waiting, Callee, FrameOK
  <2>4. ASSUME Len(stack) > 2
        PROVE  stack[2].at # "start"
    <3>1. 2 \in DOMAIN stack /\ 2 + 1 \in DOMAIN stack
      BY <1>1, <2>4
    <3>2. Waiting(stack[2])
      BY <3>1 DEF Inv, LoadInv, FramesOK
    <3> QED BY <3>2 DEF Waiting
  <2> QED BY <1>1, <1>2, <1>3, <2>1, <2>2, <2>3, <2>4
<1> QED BY <1>1, <1>2, <1>3

ToolFiles == {Tool(world.root)} \cup RootImports

LEMMA SameToolFiles ==
  ASSUME world' = world
  PROVE  ToolFiles' = ToolFiles /\ Yml(world.root)' = Yml(world.root)
BY SameFiles DEF ToolFiles, Tool, Yml

LEMMA RootAfterReturn ==
  ASSUME Inv, RootInv, stack # << >>, world' = world, NEW kind \in {"ok", "notExist"}, NEW cfg, Return(kind, cfg),
         loaded' \subseteq loaded \cup AskedFor(Top.fn, Top.name), loaded' = loaded \/ Top.fn # "package",
         Len(stack) = 1 => (cfg.yaml <=> world.root = BuiltIn \/ RootIsFirst),
         Len(stack) = 2 /\ Top.fn = "yml" => (cfg.yaml <=> RootIsFirst)
  PROVE  RootInv'
<1>1. /\ stack' = Front(stack) /\ ret' = [kind |-> kind, cfg |-> cfg] /\ ret'.cfg = cfg
  BY DEF Return
<1>2. /\ \A i \in DOMAIN stack' : i \in DOMAIN stack /\ stack'[i] = stack[i]
      /\ stack' # << >> => stack'[1] = stack[1]
  BY <1>1, AfterReturn DEF Inv
<1>3. Len(stack') = Len(stack) - 1 /\ DOMAIN stack' = 1..Len(stack) - 1
  <2>1. stack \in Seq({stack[i] : i \in DOMAIN stack})
    BY DEF Inv, CInv
  <2>2. Len(stack') = Len(stack) - 1 /\ stack' \in Seq({stack[i] : i \in DOMAIN stack})
    BY <1>1, <2>1, Pop
  <2> QED BY <2>2
<1> PICK n : n = Len(stack)
  OBVIOUS
<1>4. n \in Nat /\ n > 0 /\ DOMAIN stack' = 1..n - 1 /\ stack[n] = Top /\ DOMAIN stack = 1..n
  BY <1>3, Positions
<1>5. CASE stack' = << >>
  <2>1. n = 1
    BY <1>3, <1>4, <1>5
  <2>2. ret' # None
    BY <1>1 DEF None
  <2>3. ret'.cfg.yaml <=> world'.root = BuiltIn \/ RootIsFirst'
    BY <1>1, <2>1, SameFiles
  <2> QED BY <1>5, <2>2, <2>3 DEF RootInv
<1>6. CASE stack' # << >>
  <2>1. n # 1 /\ 1 \in DOMAIN stack'
    BY <1>3, <1>4, <1>6
  <2>2. Top.fn = "yml" \/ Top.fn = "tool" \/ n # 2
    BY <2>1, Positions
  <2>3. ASSUME stack[1].at \in {"start", "tool"}
        PROVE  /\ loaded' \subseteq ToolFiles
               /\ \A i \in DOMAIN stack' : i # 1 => AskedFor(stack'[i].fn, stack'[i].name) \subseteq ToolFiles
    <3>1. /\ loaded \subseteq ToolFiles
          /\ \A i \in DOMAIN stack : i # 1 => AskedFor(stack[i].fn, stack[i].name) \subseteq ToolFiles
      BY <2>3 DEF RootInv, ToolFiles
    <3>2. AskedFor(Top.fn, Top.name) \subseteq ToolFiles
      BY <1>4, <2>1, <3>1
    <3> QED BY <1>2, <3>1, <3>2
  <2>4. ASSUME stack[1].at = "yml"
        PROVE  /\ 2 \notin DOMAIN stack' => (ret'.cfg.yaml <=> RootIsFirst)
               /\ 2 \in DOMAIN stack' => stack'[2].at # "start" /\ Yml(world.root) \notin RootImports
    <3>1. CASE 2 \notin DOMAIN stack'
      <4>1. n = 2
        BY <1>4, <2>1, <3>1
      <4>2. Top.fn = "yml"
        BY <2>1, <2>4, <4>1, Positions
      <4> QED BY <1>1, <3>1, <4>1, <4>2
    <3>2. CASE 2 \in DOMAIN stack'
      <4>1. n > 2 /\ stack'[2] = stack[2] /\ 2 \in DOMAIN stack
        BY <1>2, <1>4, <3>2
      <4>2. stack[2].at # "start"
        BY <4>1, Positions
      <4> QED BY <2>4, <3>2, <4>1, <4>2 DEF RootInv
    <3> QED BY <3>1, <3>2
  <2>5. RootImports' = RootImports /\ (RootIsFirst' <=> RootIsFirst) /\ ToolFiles' = ToolFiles
        /\ \A fn, name : AskedFor(fn, name)' = AskedFor(fn, name)
    BY SameFiles, SameToolFiles, SameWorld
  <2>6. stack'[1].at \in {"start", "tool"} =>
          /\ loaded' \subseteq ToolFiles'
          /\ \A i \in DOMAIN stack' : i # 1 => AskedFor(stack[i].fn, stack[i].name)' \subseteq ToolFiles'
    <3> SUFFICES ASSUME stack'[1].at \in {"start", "tool"}
                 PROVE  /\ loaded' \subseteq ToolFiles'
                        /\ \A i \in DOMAIN stack' : i # 1 => AskedFor(stack[i].fn, stack[i].name)' \subseteq ToolFiles'
      OBVIOUS
    <3>1. /\ loaded' \subseteq ToolFiles
          /\ \A i \in DOMAIN stack' : i # 1 => AskedFor(stack'[i].fn, stack'[i].name) \subseteq ToolFiles
      BY <1>2, <1>6, <2>3
    <3> QED BY <2>5, <3>1
  <2>7. stack'[1].at = "yml" =>
          /\ 2 \notin DOMAIN stack' => (ret'.cfg.yaml <=> RootIsFirst')
          /\ 2 \in DOMAIN stack' => stack'[2].at # "start" /\ Yml(world'.root) \notin RootImports'
    BY <1>2, <1>6, <2>4, <2>5
  <2> QED BY <1>6, <2>6, <2>7 DEF RootInv, ToolFiles, Yml
<1> QED BY <1>5, <1>6

LEMMA RootAfterContinue ==
  ASSUME Inv, RootInv, stack # << >>, world' = world, NEW frame, Continue(frame),
         frame.fn = Top.fn, frame.name = Top.name, Top.fn # "package", frame.at # "start",
         loaded' \subseteq loaded \cup AskedFor(Top.fn, Top.name),
         Top.at = "start" /\ Top.fn = "yml" => Yml(Top.name) \notin loaded
  PROVE  RootInv'
<1>1. stack' = Append(Front(stack), frame) /\ ret' = None
  BY DEF Continue
<1>2. /\ stack' # << >> /\ DOMAIN stack' = DOMAIN stack
      /\ \A i \in DOMAIN stack : stack'[i] = IF i = Len(stack) THEN frame ELSE stack[i]
  BY <1>1, AfterContinue DEF Inv
<1> PICK n : n = Len(stack)
  OBVIOUS
<1>3. n \in Nat /\ n > 0 /\ DOMAIN stack = 1..n /\ stack[n] = Top /\ n # 1 /\ 1 \in 1..n /\ 2 \in 1..n
  BY Positions
<1>4. stack'[1] = stack[1] /\ \A i \in DOMAIN stack : stack'[i].fn = stack[i].fn /\ stack'[i].name = stack[i].name
  BY <1>2, <1>3
<1>5. ASSUME stack[1].at \in {"start", "tool"}
      PROVE  /\ loaded' \subseteq ToolFiles
             /\ \A i \in DOMAIN stack' : i # 1 => AskedFor(stack'[i].fn, stack'[i].name) \subseteq ToolFiles
  <2>1. /\ loaded \subseteq ToolFiles
        /\ \A i \in DOMAIN stack : i # 1 => AskedFor(stack[i].fn, stack[i].name) \subseteq ToolFiles
    BY <1>5 DEF RootInv, ToolFiles
  <2>2. AskedFor(Top.fn, Top.name) \subseteq ToolFiles
    BY <1>3, <2>1
  <2> QED BY <1>2, <1>4, <2>1, <2>2
<1>6. ASSUME stack[1].at = "yml"
      PROVE  stack'[2].at # "start" /\ Yml(world.root) \notin RootImports
  <2>1. stack[2].fn = "yml" /\ stack[2].name = world.root
    BY <1>3, <1>6, Positions
  <2>2. CASE n = 2
    <3>1. stack'[2] = frame /\ Top = stack[2]
      BY <1>2, <1>3, <2>2
    <3>2. CASE Top.at = "start"
      BY <1>3, <1>6, <2>1, <3>1, <3>2 DEF RootInv
    <3>3. CASE Top.at # "start"
      BY <1>3, <1>6, <3>1, <3>3 DEF RootInv
    <3> QED BY <3>1, <3>2, <3>3
  <2>3. CASE n # 2
    <3>1. stack'[2] = stack[2] /\ n > 2
      BY <1>2, <1>3, <2>3
    <3>2. stack[2].at # "start"
      BY <3>1, Positions
    <3> QED BY <1>3, <1>6, <3>1, <3>2 DEF RootInv
  <2> QED BY <2>2, <2>3
<1>7. RootImports' = RootImports /\ ToolFiles' = ToolFiles /\ \A fn, name : AskedFor(fn, name)' = AskedFor(fn, name)
  BY SameFiles, SameToolFiles, SameWorld
<1>8. stack'[1].at \in {"start", "tool"} =>
        /\ loaded' \subseteq ToolFiles'
        /\ \A i \in DOMAIN stack' : i # 1 => AskedFor(stack[i].fn, stack[i].name)' \subseteq ToolFiles'
  <2> SUFFICES ASSUME stack'[1].at \in {"start", "tool"}
               PROVE  /\ loaded' \subseteq ToolFiles'
                      /\ \A i \in DOMAIN stack' : i # 1 => AskedFor(stack[i].fn, stack[i].name)' \subseteq ToolFiles'
    OBVIOUS
  <2>1. /\ loaded' \subseteq ToolFiles
        /\ \A i \in DOMAIN stack' : i # 1 => AskedFor(stack'[i].fn, stack'[i].name) \subseteq ToolFiles
    BY <1>4, <1>5
  <2> QED BY <1>7, <2>1
<1>9. stack'[1].at = "yml" => stack'[2].at # "start" /\ Yml(world'.root) \notin RootImports'
  BY <1>4, <1>6, <1>7
<1>10. 2 \in DOMAIN stack'
  BY <1>2, <1>3
<1> QED BY <1>2, <1>8, <1>9, <1>10 DEF RootInv, ToolFiles, Yml

LEMMA RootAfterCall ==
  ASSUME Inv, RootInv, stack # << >>, world' = world, loaded' = loaded,
         NEW frame, NEW fn, NEW name, Call(frame, fn, name), frame.fn = Top.fn, frame.name = Top.name,
         frame = Top \/ frame.fn = "package", frame.at # "start",
         Len(stack) # 1 /\ stack[1].at \in {"start", "tool"} => AskedFor(fn, name) \subseteq ToolFiles,
         Len(stack) = 1 /\ frame.at \in {"start", "tool"} => AskedFor(fn, name) \subseteq ToolFiles /\ loaded \subseteq ToolFiles,
         Len(stack) = 1 /\ frame.at = "yml" => (Yml(world.root) \in loaded <=> Yml(world.root) \in RootImports)
  PROVE  RootInv'
<1> PICK new : new = Frame(fn, name)
  OBVIOUS
<1>1. /\ stack' = Append(Append(Front(stack), frame), new) /\ ret' = None
      /\ new.fn = fn /\ new.name = name /\ new.at = "start"
  BY DEF Call, Frame
<1> PICK n : n = Len(stack)
  OBVIOUS
<1>2. /\ stack' # << >> /\ DOMAIN stack' = DOMAIN stack \cup {n + 1}
      /\ \A i \in DOMAIN stack : stack'[i] = IF i = n THEN frame ELSE stack[i]
      /\ stack'[n + 1] = new
  BY <1>1, AfterCall DEF Inv
<1>3. n \in Nat /\ n > 0 /\ DOMAIN stack = 1..n /\ stack[n] = Top /\ 1 \in 1..n
  BY Positions
<1>4. /\ \A i \in DOMAIN stack : stack'[i].fn = stack[i].fn /\ stack'[i].name = stack[i].name
      /\ n # 1 => stack'[1] = stack[1]
      /\ n = 1 => stack'[1] = frame
      /\ 2 \in DOMAIN stack'
      /\ n = 1 => stack'[2] = new
  BY <1>2, <1>3
<1>5. ASSUME stack'[1].at \in {"start", "tool"}
      PROVE  /\ loaded \subseteq ToolFiles
             /\ \A i \in DOMAIN stack' : i # 1 => AskedFor(stack'[i].fn, stack'[i].name) \subseteq ToolFiles
  <2>1. CASE n = 1
    <3>1. \A i \in DOMAIN stack' : i # 1 => stack'[i] = new
      BY <1>2, <1>3, <2>1
    <3> QED BY <1>1, <1>4, <1>5, <2>1, <3>1
  <2>2. CASE n # 1
    <3>1. /\ loaded \subseteq ToolFiles
          /\ \A i \in DOMAIN stack : i # 1 => AskedFor(stack[i].fn, stack[i].name) \subseteq ToolFiles
      BY <1>4, <1>5, <2>2 DEF RootInv, ToolFiles
    <3>2. AskedFor(fn, name) \subseteq ToolFiles
      BY <1>4, <1>5, <2>2
    <3> QED BY <1>1, <1>2, <1>4, <3>1, <3>2
  <2> QED BY <2>1, <2>2
<1>6. ASSUME stack'[1].at = "yml"
      PROVE  /\ stack'[2].at = "start" => (Yml(world.root) \in loaded <=> Yml(world.root) \in RootImports)
             /\ stack'[2].at # "start" => Yml(world.root) \notin RootImports
  <2>1. CASE n = 1
    BY <1>1, <1>4, <1>6, <2>1
  <2>2. CASE n # 1
    <3>1. stack[2].fn = "yml" /\ stack[2].name = world.root /\ 2 \in DOMAIN stack /\ stack[1].at = "yml"
      BY <1>4, <1>6, <2>2, Positions
    <3>2. stack'[2] = stack[2]
      <4>1. CASE n = 2
        BY <1>2, <1>3, <3>1, <4>1
      <4>2. CASE n # 2
        BY <1>2, <1>3, <3>1, <4>2
      <4> QED BY <4>1, <4>2
    <3> QED BY <3>1, <3>2 DEF RootInv
  <2> QED BY <2>1, <2>2
<1>7. RootImports' = RootImports /\ ToolFiles' = ToolFiles /\ \A g, h : AskedFor(g, h)' = AskedFor(g, h)
  BY SameFiles, SameToolFiles, SameWorld
<1>8. stack'[1].at \in {"start", "tool"} =>
        /\ loaded' \subseteq ToolFiles'
        /\ \A i \in DOMAIN stack' : i # 1 => AskedFor(stack[i].fn, stack[i].name)' \subseteq ToolFiles'
  BY <1>5, <1>7
<1>9. stack'[1].at = "yml" =>
        /\ stack'[2].at = "start" => (Yml(world'.root) \in loaded' <=> Yml(world'.root) \in RootImports')
        /\ stack'[2].at # "start" => Yml(world'.root) \notin RootImports'
  BY <1>6, <1>7
<1> QED BY <1>2, <1>4, <1>8, <1>9 DEF RootInv, ToolFiles, Yml

-----------------------------------------------------------------------------
(* The invariant of what is loaded, after each kind of step *)

LEMMA ExactFacts ==
  ASSUME Inv, ExactInv, stack # << >>, ret.kind # "error"
  PROVE  /\ CInv /\ CfgsOK /\ GatheredInv /\ NoneLost /\ RootInv /\ result.kind = "none"
         /\ Gathered \in Seq(Injecting) /\ HasCfgs(Top) /\ Matching(ret.cfg.aspects, ret.cfg.visit)
<1>1. CInv /\ result.kind = "none"
  BY InvFacts
<1>2. CfgsOK /\ GatheredInv /\ NoneLost /\ RootInv
  BY <1>1 DEF ExactInv, Running
<1>3. HasCfgs(Top) /\ Matching(ret.cfg.aspects, ret.cfg.visit)
  BY <1>1, <1>2, StackFacts DEF CfgsOK
<1> QED BY <1>1, <1>2, <1>3, GatheredParts

\* While calls are active there is no result to speak of.
LEMMA NoResultYet ==
  ASSUME result'.kind = "none" \/ result'.kind = "error"
  PROVE  LoadIsExact' /\ DependenciesFirst'
BY DEF LoadIsExact, DependenciesFirst, Succeeded

LEMMA ErrorExact ==
  ASSUME Inv, ExactInv, stack # << >>, UNCHANGED <<world, result>>, Return("error", Empty)
  PROVE  ExactInv'
<1>1. CInv /\ CfgsOK /\ result'.kind = "none" /\ ret' = [kind |-> "error", cfg |-> Empty]
  BY InvFacts DEF ExactInv, Return
<1>2. Matching(Empty.aspects, Empty.visit)
  BY EmptySeqs DEF Matching, Empty
<1>3. CfgsOK'
  BY <1>1, <1>2, CfgsAfterReturn
<1>4. ~ Running'
  BY <1>1 DEF Running
<1> QED BY <1>1, <1>3, <1>4, NoResultYet DEF ExactInv

LEMMA ContinueExact ==
  ASSUME Inv, ExactInv, stack # << >>, UNCHANGED <<world, result>>, ret.kind # "error",
         NEW frame, Continue(frame), frame.fn = Top.fn, frame.name = Top.name, Top.fn # "package", frame.at # "start",
         HasCfgs(frame), Held(frame) = Held(Top) \o ret.cfg.aspects,
         IF Top.at = "start" THEN File(Top) \notin loaded /\ loaded' = loaded \cup {File(Top)} ELSE loaded' = loaded,
         \A n \in loaded' \ loaded : Leads(n) \subseteq Pending(frame),
         Yml(BuiltIn) \in Pending(Top) => Yml(BuiltIn) \in Pending(frame) \/ BuiltIn \in ToSet(Gathered)
  PROVE  ExactInv'
<1>1. /\ CInv /\ CfgsOK /\ GatheredInv /\ NoneLost /\ RootInv /\ result.kind = "none" /\ FrameOK(Top)
      /\ stack' = Append(Front(stack), frame) /\ ret' = None
  BY ExactFacts, InvFacts DEF Continue
<1>2. CfgsOK' /\ Gathered' = Gathered
  BY <1>1, CfgsAfterContinue, ContinueGathers
<1>3. ToSet(Gathered)' = ToSet(Gathered)
  BY <1>2 DEF ToSet
<1>4. Loading(frame) /\ File(frame) = File(Top) /\ (Loading(Top) <=> Top.at # "start")
  BY DEF Loading, File
<1>5. Busy' = Busy \cup {f \in DOMAIN world.yml : File(Top) = Yml(f)}
  BY <1>1, <1>4, BusyAfterContinue
<1>6. \A f \in Busy' : f \in Busy \/ Yml(f) \notin loaded
  <2>1. CASE Top.at = "start"
    BY <1>5, <2>1
  <2>2. CASE Top.at # "start"
    <3>1. Len(stack) \in DOMAIN stack /\ stack[Len(stack)] = Top
      BY <1>1, StackFacts
    <3>2. \A f \in DOMAIN world.yml : File(Top) = Yml(f) => f \in Busy
      BY <1>4, <2>2, <3>1 DEF Busy
    <3> QED BY <1>5, <3>2
  <2> QED BY <2>1, <2>2
<1>7. GatheredInv'
  BY <1>1, <1>2, <1>6, GatheredStays
<1>8. BuiltInDue'
  BY <1>1, <1>3, BuiltInAfterContinue DEF NoneLost
<1>9. Top.name # BuiltIn /\ File(Top)[2] = Top.name
  BY <1>1 DEF FrameOK, File
<1>10. Injecting \subseteq DOMAIN world.yml
  BY DEF Injecting, Used
<1>11. \A n \in loaded' \ loaded : n[2] # BuiltIn /\ \A f \in Injecting : n = Yml(f) => f \in Busy'
  BY <1>5, <1>9, <1>10
<1>12. NoneLost'
  BY <1>1, <1>3, <1>5, <1>8, <1>11, NoCfgs, NoneLostAfter
<1>13. RootInv'
  <2>1. AskedFor(Top.fn, Top.name) = {File(Top)}
    BY DEF AskedFor, File
  <2>2. Top.at = "start" /\ Top.fn = "yml" => Yml(Top.name) \notin loaded
    BY DEF File, Yml
  <2> QED BY <1>1, <2>1, <2>2, RootAfterContinue
<1> QED BY <1>1, <1>2, <1>7, <1>12, <1>13, NoResultYet DEF ExactInv

LEMMA CallExact ==
  ASSUME Inv, ExactInv, stack # << >>, UNCHANGED <<world, result, loaded>>, ret.kind # "error",
         NEW frame, NEW fn, NEW name, Call(frame, fn, name), frame.fn = Top.fn, frame.name = Top.name,
         frame = Top \/ frame.fn = "package", frame.at # "start",
         HasCfgs(frame), Held(frame) = Held(Top) \o ret.cfg.aspects,
         Yml(BuiltIn) \in Pending(Top) => Yml(BuiltIn) \in Pending(frame),
         Len(stack) # 1 /\ stack[1].at \in {"start", "tool"} => AskedFor(fn, name) \subseteq ToolFiles,
         Len(stack) = 1 /\ frame.at \in {"start", "tool"} => AskedFor(fn, name) \subseteq ToolFiles /\ loaded \subseteq ToolFiles,
         Len(stack) = 1 /\ frame.at = "yml" => (Yml(world.root) \in loaded <=> Yml(world.root) \in RootImports)
  PROVE  ExactInv'
<1>1. /\ CInv /\ CfgsOK /\ GatheredInv /\ NoneLost /\ RootInv /\ result.kind = "none"
      /\ stack' = Append(Append(Front(stack), frame), Frame(fn, name)) /\ ret' = None
  BY ExactFacts DEF Call
<1>2. CfgsOK' /\ Gathered' = Gathered
  BY <1>1, CfgsAfterCall, CallGathers
<1>3. ToSet(Gathered)' = ToSet(Gathered)
  BY <1>2 DEF ToSet
<1>4. Busy' = Busy
  <2>1. Loading(Top) <=> Loading(frame)
    BY DEF Loading
  <2> QED BY <1>1, <2>1, BusyAfterCall
<1>5. GatheredInv'
  BY <1>1, <1>2, <1>4, GatheredStays
<1>6. BuiltInDue'
  BY <1>1, <1>3, BuiltInAfterCall DEF NoneLost
<1>7. NoneLost'
  BY <1>1, <1>3, <1>4, <1>6, NoCfgs, NoneLostAfter
<1>8. RootInv'
  BY <1>1, RootAfterCall
<1> QED BY <1>1, <1>2, <1>5, <1>7, <1>8, NoResultYet DEF ExactInv

\* The frame of a YAML file is about to return: the file is done.
LEMMA FinishedStaysDone ==
  ASSUME Inv, stack # << >>, ret.kind # "error", world' = world, loaded \subseteq loaded', stack' = Front(stack),
         Top.fn = "yml", Top.at = "extends", Top.todo = << >>, NEW f, f = Top.name
  PROVE  f \in Busy /\ IsDone(f)'
<1>1. /\ world \in worlds /\ FrameOK(Top) /\ f \in DOMAIN world.yml /\ Yml(f) \in loaded
      /\ Loading(Top) /\ File(Top) = Yml(f)
  BY InvFacts, YMLFrame DEF FrameOK, Loading, File, Yml
<1>2. f \in Busy
  BY <1>1, StackFacts DEF Busy, Inv
<1>3. Busy' \subseteq Busy /\ f \notin Busy'
  BY <1>1, <1>2, BusyAfterReturn DEF Inv
<1>4. \A n \in FilesOf(f), g \in DOMAIN world.yml : Precedes(n, f, g) => Yml(g) \in loaded' /\ g \notin Busy'
  BY <1>3, FinishedIsDone
<1>5. \A n, g : Precedes(n, f, g)' <=> Precedes(n, f, g)
  BY SameFiles
<1>6. FilesOf(f)' = FilesOf(f)
  BY SameWorld
<1>7. \A n \in FilesOf(f), g \in DOMAIN world'.yml : Precedes(n, f, g)' => Yml(g) \in loaded' /\ g \notin Busy'
  BY <1>4, <1>5
<1>8. IsDone(f)'
  BY <1>1, <1>3, <1>6, <1>7 DEF IsDone, Yml
<1> QED BY <1>2, <1>8

LEMMA ReturnExact ==
  ASSUME Inv, ExactInv, stack # << >>, UNCHANGED <<world, result>>, ret.kind # "error",
         NEW kind \in {"ok", "notExist"}, NEW cfg, Return(kind, cfg), Matching(cfg.aspects, cfg.visit),
         NEW own, cfg.aspects = (Held(Top) \o ret.cfg.aspects) \o own,
         \/ own = << >>
         \/ \E x \in Injecting :
               own = <<x>> /\ (x # BuiltIn => /\ Top.fn = "yml" /\ Top.at = "extends" /\ Top.todo = << >>
                                              /\ x = Top.name),
         loaded \subseteq loaded', loaded' \subseteq loaded \cup AskedFor(Top.fn, Top.name),
         loaded' = loaded \/ Top.fn # "package",
         \A n \in loaded' \ loaded : Leads(n) = {} /\ n[2] # BuiltIn /\ \A f \in Injecting : n # Yml(f),
         Top.fn = "yml" /\ Top.at # "start" /\ Top.name \in Injecting => own = <<Top.name>>,
         Yml(BuiltIn) \in Pending(Top) => own = <<BuiltIn>> \/ BuiltIn \in ToSet(Gathered),
         kind = "ok" /\ Top.fn = "package" /\ Top.name = BuiltIn => own = <<BuiltIn>>,
         Len(stack) = 1 => (cfg.yaml <=> world.root = BuiltIn \/ RootIsFirst),
         Len(stack) = 2 /\ Top.fn = "yml" => (cfg.yaml <=> RootIsFirst)
  PROVE  ExactInv'
<1>1. /\ CInv /\ CfgsOK /\ GatheredInv /\ NoneLost /\ RootInv /\ result.kind = "none"
      /\ Gathered \in Seq(Injecting)
      /\ stack' = Front(stack) /\ ret' = [kind |-> kind, cfg |-> cfg]
  BY ExactFacts DEF Return
<1>2. own \in Seq(Injecting)
  <2>1. << >> \in Seq(Injecting) /\ \A x \in Injecting : <<x>> \in Seq(Injecting)
    OBVIOUS
  <2> QED BY <2>1
<1>3. CfgsOK' /\ Gathered' = Gathered \o own
  BY <1>1, <1>2, CfgsAfterReturn, ReturnGathers
<1>4. ToSet(Gathered)' = ToSet(Gathered) \cup ToSet(own)
  <2>1. ToSet(Gathered \o own) = ToSet(Gathered) \cup ToSet(own)
    BY <1>1, <1>2, ConcatElements
  <2>2. ToSet(Gathered)' = ToSet(Gathered \o own)
    BY <1>3 DEF ToSet
  <2> QED BY <2>1, <2>2
<1>5. \A x : ToSet(<<x>>) = {x}
  BY DEF ToSet
<1>6. Busy' \subseteq Busy /\ \A f \in Busy : f \in Busy' \/ (Loading(Top) /\ File(Top) = Yml(f))
  BY <1>1, BusyAfterReturn
<1>7. GatheredInv'
  <2>1. CASE own = << >>
    <3>1. Gathered \o << >> = Gathered
      BY <1>1
    <3>2. Gathered' = Gathered
      BY <1>3, <2>1, <3>1
    <3> QED BY <1>1, <1>6, <3>2, GatheredStays
  <2>2. ASSUME NEW x \in Injecting, own = <<x>>,
               x # BuiltIn => Top.fn = "yml" /\ Top.at = "extends" /\ Top.todo = << >> /\ x = Top.name
        PROVE  GatheredInv'
    <3>1. x # BuiltIn => x \in Busy /\ IsDone(x)'
      <4>1. CASE x = BuiltIn
        BY <4>1
      <4>2. CASE x # BuiltIn
        <5>1. Top.fn = "yml" /\ Top.at = "extends" /\ Top.todo = << >> /\ x = Top.name
          BY <2>2, <4>2
        <5> QED BY <1>1, <5>1, FinishedStaysDone
      <4> QED BY <4>1, <4>2
    <3>2. Gathered' = Gathered \o <<x>>
      BY <1>3, <2>2
    <3> QED BY <1>1, <1>6, <3>1, <3>2, GatheredGrows
  <2> QED BY <2>1, <2>2
<1>8. BuiltInDue'
  <2>1. Yml(BuiltIn) \in Pending(Top) => BuiltIn \in ToSet(Gathered)'
    BY <1>4, <1>5
  <2> QED BY <1>1, <1>4, <2>1, BuiltInAfterReturn DEF NoneLost
<1>9. \A f \in Busy : f \in Busy' \/ f \notin Injecting \/ f \in ToSet(Gathered)'
  <2>1. ASSUME NEW f, Loading(Top), File(Top) = Yml(f)
        PROVE  Top.fn = "yml" /\ Top.at # "start" /\ Top.name = f
    BY <2>1 DEF Loading, File, Yml
  <2> QED BY <1>4, <1>5, <1>6, <2>1
<1>10. ret'.kind = "ok" /\ LastCall' = <<"package", BuiltIn>> => BuiltIn \in ToSet(Gathered)'
  <2>1. LastCall' = <<Top.fn, Top.name>>
    BY InvFacts, FramesAfterReturn
  <2> QED BY <1>1, <1>4, <1>5, <2>1
<1>11. NoneLost'
  BY <1>1, <1>4, <1>8, <1>9, <1>10, NoneLostAfter
<1>12. RootInv'
  BY <1>1, RootAfterReturn
<1> QED BY <1>1, <1>3, <1>7, <1>11, <1>12, NoResultYet DEF ExactInv

-----------------------------------------------------------------------------
(* The invariant of what is loaded, action by action *)

LEMMA EmptyCfg ==
  /\ Empty.aspects = << >> /\ Empty.visit = << >> /\ Empty.yaml = FALSE
  /\ Matching(Empty.aspects, Empty.visit)
<1>1. Empty.aspects = << >> /\ Empty.visit = << >> /\ Empty.yaml = FALSE
  BY DEF Empty
<1> QED BY <1>1, EmptySeqs DEF Matching

LEMMA BuiltInCfg ==
  /\ builtIn.aspects = <<BuiltIn>> /\ builtIn.visit = <<BuiltIn>> /\ builtIn.yaml = TRUE
<1> DEFINE yml == configYML(BuiltIn, <<BuiltIn>>, << >>)
<1>1. yml.aspects = All(AspectsOf, << >>) \o <<BuiltIn>> /\ yml.visit = <<BuiltIn>> \o All(VisitOf, << >>) /\ yml.yaml = TRUE
  BY DEF configYML
<1>2. << >> \o <<BuiltIn>> = <<BuiltIn>> /\ <<BuiltIn>> \o << >> = <<BuiltIn>>
  OBVIOUS
<1>3. yml.aspects = <<BuiltIn>> /\ yml.visit = <<BuiltIn>> /\ yml.yaml = TRUE
  BY <1>1, <1>2, AllOfNone
<1> HIDE DEF yml
<1>4. builtIn.aspects = All(AspectsOf, << >>) \o yml.aspects /\ builtIn.visit = yml.visit \o All(VisitOf, << >>)
      /\ builtIn.yaml = yml.yaml
  BY DEF builtIn, configGo, yml
<1> QED BY <1>2, <1>3, <1>4, AllOfNone

LEMMA NothingHeld ==
  ASSUME NEW frame, frame.cfgs = << >>
  PROVE  Held(frame) = << >> /\ Shown(frame) = << >>
BY AllOfNone DEF Held, Shown

\* The files of the tool file of the root are closed.
LEMMA ToolFilesClosed ==
  ASSUME Inv
  PROVE  /\ RootImports \subseteq AllFiles /\ Leads(Tool(world.root)) \subseteq RootImports
         /\ \A n \in ToolFiles : n[2] # BuiltIn => Leads(n) \subseteq ToolFiles
<1>1. world \in worlds /\ world.root \in DOMAIN world.tool
  BY WorldFacts DEF Inv, LoadInv
<1>2. Tool(world.root) \in AllFiles
  BY <1>1, FilesFacts
<1>3. Leads(Tool(world.root)) \subseteq AllFiles
  BY <1>1, <1>2, LeadsFacts
<1>4. /\ RootImports \subseteq AllFiles /\ Leads(Tool(world.root)) \subseteq RootImports
      /\ \A n \in RootImports : n[2] # BuiltIn => Leads(n) \subseteq RootImports
  BY <1>1, <1>3, ReachableFromFacts DEF RootImports
<1> QED BY <1>4 DEF ToolFiles

LEMMA CallsInToolFiles ==
  ASSUME Inv, RootInv, stack # << >>, Waiting(Top), Top.fn # "package", NEW fn, NEW name, Callee(Top) = <<fn, name>>
  PROVE  /\ Len(stack) # 1
         /\ stack[1].at \in {"start", "tool"} => AskedFor(fn, name) \subseteq ToolFiles
<1>1. Len(stack) # 1 /\ Len(stack) \in DOMAIN stack /\ stack[Len(stack)] = Top
  BY Positions
<1>2. world \in worlds /\ FrameOK(Top)
  BY InvFacts
<1>3. /\ AskedFor(fn, name) \subseteq Leads(File(Top)) /\ Top.name # BuiltIn
      /\ AskedFor(Top.fn, Top.name) = {File(Top)}
  BY <1>2, CalleeFiles
<1>4. ASSUME stack[1].at \in {"start", "tool"}
      PROVE  AskedFor(fn, name) \subseteq ToolFiles
  <2>1. AskedFor(Top.fn, Top.name) \subseteq ToolFiles
    BY <1>1, <1>4 DEF RootInv, ToolFiles
  <2>2. File(Top) \in ToolFiles /\ File(Top)[2] # BuiltIn
    BY <1>3, <2>1 DEF File
  <2> QED BY <1>3, <2>2, ToolFilesClosed
<1> QED BY <1>1, <1>4

LEMMA LoadGoPackageExact ==
  ASSUME Inv, ExactInv, loadGoPackage
  PROVE  ExactInv'
<1> DEFINE name == Top.name
           frame == [Top EXCEPT !.at = "tool"]
<1>1. /\ stack # << >> /\ Top.fn = "package" /\ Top.at = "start" /\ ret = None
      /\ UNCHANGED <<world, result, loaded, unlisted>>
  BY DEF loadGoPackage, Asked, In, Inside
<1>2. /\ name \in DOMAIN world.tool /\ name \in DOMAIN world.yml /\ FilesOf(name) \subseteq Reachable
      /\ FilesOf(name) = {Tool(name), Yml(name)} /\ Pending(Top) = FilesOf(name)
      /\ AskedFor(Top.fn, name) = FilesOf(name) /\ ret.kind # "error"
  BY <1>1, InvFacts, FilesFacts, NoCfgs DEF FrameOK, AskedFor, Pending
<1>3. /\ HasCfgs(Top) /\ RootInv /\ Held(Top) = << >> /\ ret.cfg.aspects = << >> /\ IsFrame(Top) /\ Top.cfgs = << >>
  <2>1. HasCfgs(Top) /\ RootInv /\ IsFrame(Top)
    BY <1>1, <1>2, ExactFacts, InvFacts
  <2>2. Top.cfgs = << >>
    BY <1>1, <2>1 DEF HasCfgs
  <2> QED BY <1>1, <2>1, <2>2, NothingHeld, NoCfgs
<1>4. Len(stack) = 1 => name = world.root /\ Top = stack[1]
  BY <1>1, Positions
<1>5. CASE name = BuiltIn
  <2>1. Return("ok", builtIn)
    BY <1>5 DEF loadGoPackage
  <2>2. BuiltIn \in Injecting
    BY <1>2, <1>5 DEF Injecting, Used
  <2>3. Matching(builtIn.aspects, builtIn.visit)
    <3>1. <<BuiltIn>> \in Seq(Injecting) /\ <<BuiltIn>> \in Seq(Used)
      BY <2>2 DEF Injecting
    <3> QED BY <3>1, BuiltInCfg DEF Matching
  <2>4. builtIn.aspects = (Held(Top) \o ret.cfg.aspects) \o <<BuiltIn>>
    <3>1. (<< >> \o << >>) \o <<BuiltIn>> = <<BuiltIn>>
      OBVIOUS
    <3> QED BY <1>3, <3>1, BuiltInCfg
  <2>5. /\ Top.fn = "yml" /\ Top.at # "start" /\ Top.name \in Injecting => <<BuiltIn>> = <<Top.name>>
        /\ Len(stack) = 1 => (builtIn.yaml <=> world.root = BuiltIn \/ RootIsFirst)
        /\ Len(stack) = 2 /\ Top.fn = "yml" => (builtIn.yaml <=> RootIsFirst)
    BY <1>1, <1>4, <1>5, BuiltInCfg
  <2> QED BY <1>1, <1>2, <2>1, <2>2, <2>3, <2>4, <2>5, ReturnExact
<1>6. CASE name # BuiltIn /\ ~packageRoot(name)
  <2>1. Return("error", Empty)
    BY <1>6 DEF loadGoPackage
  <2> QED BY <1>1, <2>1, ErrorExact
<1>7. CASE name # BuiltIn /\ packageRoot(name)
  <2>1. Call(frame, "tool", name)
    BY <1>7 DEF loadGoPackage
  <2>2. frame.fn = Top.fn /\ frame.name = name /\ frame.at = "tool" /\ frame.cfgs = << >>
    BY <1>3 DEF IsFrame
  <2>3. Pending(frame) = Pending(Top)
    BY <1>1, <2>2 DEF Pending
  <2> HIDE DEF frame
  <2>4. Held(frame) = << >> /\ Shown(frame) = << >>
    BY <2>2, NothingHeld
  <2>5. HasCfgs(frame) /\ Held(frame) = Held(Top) \o ret.cfg.aspects
    <3>1. << >> \o << >> = << >> /\ << >> \in Seq(ToSet(<< >>))
      OBVIOUS
    <3>2. Matching(<< >>, << >>)
      BY EmptySeqs DEF Matching
    <3> QED BY <1>3, <2>2, <2>4, <3>1, <3>2 DEF HasCfgs
  <2>6. AskedFor("tool", name) = {Tool(name)}
    BY DEF AskedFor, Tool
  <2>7. Len(stack) # 1 /\ stack[1].at \in {"start", "tool"} => AskedFor("tool", name) \subseteq ToolFiles
    <3>1. Len(stack) \in DOMAIN stack /\ stack[Len(stack)] = Top
      BY <1>1, Positions
    <3>2. Len(stack) # 1 /\ stack[1].at \in {"start", "tool"} => AskedFor(Top.fn, Top.name) \subseteq ToolFiles
      BY <1>1, <1>3, <3>1 DEF RootInv, ToolFiles
    <3> QED BY <1>2, <2>6, <3>2
  <2>8. Len(stack) = 1 => AskedFor("tool", name) \subseteq ToolFiles /\ loaded \subseteq ToolFiles
    BY <1>1, <1>3, <1>4, <2>6 DEF RootInv, ToolFiles
  <2> QED BY <1>1, <1>2, <2>1, <2>2, <2>3, <2>5, <2>7, <2>8, CallExact
<1> QED BY <1>5, <1>6, <1>7

\* When the tool file of the root is loaded, all that it leads to is.
LEMMA ToolFilesLoaded ==
  ASSUME Inv, RootInv, stack # << >>, Len(stack) = 1, Top.fn = "package", Top.at = "tool", ret # None, ret.kind # "error"
  PROVE  Yml(world.root) \in loaded <=> Yml(world.root) \in RootImports
<1>1. /\ stack[1] = Top /\ DOMAIN stack = {1} /\ Top.name = world.root /\ world \in worlds
      /\ FrameOK(Top) /\ Callee(Top) = <<"tool", world.root>>
      /\ ret.kind \in {"ok", "notExist"} /\ DutiesDone
  <2>1. DOMAIN stack = 1..1 /\ 1..1 = {1}
    BY Positions
  <2> QED BY <2>1, Positions, InvFacts DEF Callee
<1>2. world.root # BuiltIn /\ world.root \in DOMAIN world.yml
  BY <1>1 DEF FrameOK
<1>3. loaded \subseteq ToolFiles /\ ToolFiles \subseteq AllFiles
  <2>1. world.root \in DOMAIN world.tool
    BY <1>1, WorldFacts
  <2>2. Tool(world.root) \in AllFiles
    BY <1>1, <2>1, FilesFacts
  <2> QED BY <1>1, <2>2, ToolFilesClosed DEF RootInv, ToolFiles
<1>4. Tool(world.root) \in loaded
  <2>1. Settled(Tool(world.root))
    BY <1>1, InvFacts DEF AskedFor, Tool
  <2> QED BY <1>2, <2>1 DEF Settled, Tool
<1>5. ASSUME NEW n \in loaded, NEW d \in Leads(n)
      PROVE  d \in loaded \/ d[2] = BuiltIn
  <2>1. n[1] = "tool" \/ n[1] = "yml"
    BY <1>1, <1>3, FilesFacts
  <2>2. ~ IsFor(stack[1], n)
    BY <1>1, <2>1 DEF IsFor
  <2>3. Settled(d)
    BY <1>1, <2>2 DEF DutiesDone, Duties
  <2>4. d \in AllFiles
    BY <1>1, <1>3, LeadsFacts
  <2> QED BY <1>1, <2>3, <2>4, FilesFacts DEF Settled
<1> DEFINE T == {m \in AllFiles : m \in loaded \/ m[2] = BuiltIn}
<1>6. Leads(Tool(world.root)) \subseteq T /\ IsClosed(T)
  <2>1. \A n \in loaded : Leads(n) \subseteq T
    BY <1>1, <1>3, <1>5, LeadsFacts
  <2> QED BY <1>4, <2>1 DEF IsClosed
<1>7. RootImports \subseteq T
  <2>1. T \in SUBSET AllFiles /\ Leads(Tool(world.root)) \in SUBSET AllFiles
    BY <1>6
  <2> HIDE DEF T
  <2> QED BY <1>1, <1>6, <2>1, ReachableFromFacts DEF RootImports
<1>8. Yml(world.root) # Tool(world.root) /\ Yml(world.root)[2] # BuiltIn
  BY <1>2 DEF Yml, Tool
<1> QED BY <1>3, <1>7, <1>8 DEF ToolFiles

LEMMA AllOfOne ==
  ASSUME NEW cfg, Matching(cfg.aspects, cfg.visit)
  PROVE  All(AspectsOf, <<cfg>>) = cfg.aspects /\ All(VisitOf, <<cfg>>) = cfg.visit
<1>1. /\ << >> \in Seq({cfg}) /\ Append(<< >>, cfg) = <<cfg>>
      /\ cfg.aspects \in Seq(Injecting) /\ cfg.visit \in Seq(Used)
  BY EmptySeqs DEF Matching
<1>2. /\ All(AspectsOf, <<cfg>>) = All(AspectsOf, << >>) \o cfg.aspects
      /\ All(VisitOf, <<cfg>>) = All(VisitOf, << >>) \o cfg.visit
  BY <1>1, AllAppend
<1>3. << >> \o cfg.aspects = cfg.aspects /\ << >> \o cfg.visit = cfg.visit
  BY <1>1
<1> QED BY <1>2, <1>3, AllOfNone

LEMMA ToolLoadedExact ==
  ASSUME Inv, ExactInv, ToolLoaded
  PROVE  ExactInv'
<1> DEFINE name == Top.name
           frame == [Top EXCEPT !.at = "yml", !.cfgs = <<ret.cfg>>]
<1>1. /\ stack # << >> /\ Top.fn = "package" /\ Top.at = "tool" /\ ret # None
      /\ UNCHANGED <<world, result, loaded, unlisted>>
  BY DEF ToolLoaded, Answered, In, Inside
<1>2. CASE ret.kind = "error"
  <2>1. Return("error", Empty)
    BY <1>2 DEF ToolLoaded
  <2> QED BY <1>1, <2>1, ErrorExact
<1>3. CASE ret.kind # "error"
  <2>1. Call(frame, "yml", name)
    BY <1>3 DEF ToolLoaded
  <2>2. /\ HasCfgs(Top) /\ RootInv /\ IsFrame(Top) /\ FrameOK(Top) /\ world \in worlds
        /\ Matching(ret.cfg.aspects, ret.cfg.visit)
    BY <1>1, <1>3, ExactFacts, InvFacts
  <2>3. Held(Top) = << >>
    BY <1>1, <2>2, NothingHeld DEF HasCfgs
  <2>4. frame.fn = Top.fn /\ frame.name = name /\ frame.at = "yml" /\ frame.cfgs = <<ret.cfg>>
    BY <2>2 DEF IsFrame
  <2> HIDE DEF frame
  <2>5. Held(frame) = ret.cfg.aspects /\ Shown(frame) = ret.cfg.visit
    BY <2>2, <2>4, AllOfOne DEF Held, Shown
  <2>6. HasCfgs(frame) /\ Held(frame) = Held(Top) \o ret.cfg.aspects
    <3>1. ret.cfg.aspects \in Seq(Injecting)
      BY <2>2 DEF Matching
    <3>2. << >> \o ret.cfg.aspects = ret.cfg.aspects
      BY <3>1
    <3>3. \A cfg : <<cfg>> \in Seq(ToSet(<<cfg>>))
      BY DEF ToSet
    <3> QED BY <1>1, <2>2, <2>3, <2>4, <2>5, <3>2, <3>3 DEF HasCfgs
  <2>7. Yml(BuiltIn) \in Pending(Top) => Yml(BuiltIn) \in Pending(frame)
    BY <1>1, <2>2, <2>4, FilesFacts DEF Pending, Yml, Tool
  <2>8. AskedFor("yml", name) = {Yml(name)} /\ Yml(name) \in AskedFor(Top.fn, Top.name)
    BY <1>1, <2>2, FilesFacts DEF AskedFor, Yml
  <2>9. Len(stack) # 1 /\ stack[1].at \in {"start", "tool"} => AskedFor("yml", name) \subseteq ToolFiles
    <3>1. Len(stack) \in DOMAIN stack /\ stack[Len(stack)] = Top
      BY <1>1, Positions
    <3>2. Len(stack) # 1 /\ stack[1].at \in {"start", "tool"} => AskedFor(Top.fn, Top.name) \subseteq ToolFiles
      BY <1>1, <2>2, <3>1 DEF RootInv, ToolFiles
    <3> QED BY <2>8, <3>2
  <2>10. Len(stack) = 1 => (Yml(world.root) \in loaded <=> Yml(world.root) \in RootImports)
    BY <1>1, <1>3, <2>2, ToolFilesLoaded
  <2> QED BY <1>1, <1>3, <2>1, <2>4, <2>6, <2>7, <2>9, <2>10, CallExact
<1> QED BY <1>2, <1>3

LEMMA YMLLoadedExact ==
  ASSUME Inv, ExactInv, YMLLoaded
  PROVE  ExactInv'
<1> DEFINE name == Top.name
           cfg == configGo(Top.cfgs, ret.cfg)
<1>1. /\ stack # << >> /\ Top.fn = "package" /\ Top.at = "yml" /\ ret # None
      /\ UNCHANGED <<world, result, loaded, unlisted>>
  BY DEF YMLLoaded, Answered, In, Inside
<1>2. CASE ret.kind = "error"
  <2>1. Return("error", Empty)
    BY <1>2 DEF YMLLoaded
  <2> QED BY <1>1, <2>1, ErrorExact
<1>3. CASE ret.kind # "error"
  <2>1. Return("ok", cfg)
    BY <1>3 DEF YMLLoaded
  <2>2. /\ HasCfgs(Top) /\ RootInv /\ FrameOK(Top) /\ Matching(ret.cfg.aspects, ret.cfg.visit)
    BY <1>1, <1>3, ExactFacts, InvFacts
  <2>3. cfg.aspects = Held(Top) \o ret.cfg.aspects /\ cfg.visit = ret.cfg.visit \o Shown(Top) /\ cfg.yaml = ret.cfg.yaml
    BY DEF configGo, Held, Shown
  <2>4. /\ Held(Top) \in Seq(Injecting) /\ Shown(Top) \in Seq(Used) /\ ToSet(Held(Top)) \subseteq ToSet(Shown(Top))
        /\ ret.cfg.aspects \in Seq(Injecting) /\ ret.cfg.visit \in Seq(Used)
        /\ ToSet(ret.cfg.aspects) \subseteq ToSet(ret.cfg.visit)
    BY <2>2 DEF HasCfgs, Matching
  <2>5. /\ cfg.aspects \in Seq(Injecting) /\ ToSet(cfg.aspects) = ToSet(Held(Top)) \cup ToSet(ret.cfg.aspects)
        /\ cfg.visit \in Seq(Used) /\ ToSet(cfg.visit) = ToSet(ret.cfg.visit) \cup ToSet(Shown(Top))
    BY <2>3, <2>4, ConcatElements
  <2> HIDE DEF cfg
  <2>6. Matching(cfg.aspects, cfg.visit)
    BY <2>4, <2>5 DEF Matching
  <2>7. cfg.aspects = (Held(Top) \o ret.cfg.aspects) \o << >>
    <3>1. cfg.aspects \o << >> = cfg.aspects
      BY <2>5
    <3> QED BY <2>3, <3>1
  <2>8. name # BuiltIn /\ Pending(Top) = {Yml(name)}
    BY <1>1, <2>2 DEF FrameOK, Pending
  <2>9. Yml(BuiltIn) \notin Pending(Top)
    BY <2>8 DEF Yml
  <2>10. Len(stack) = 1 => (cfg.yaml <=> world.root = BuiltIn \/ RootIsFirst)
    <3> SUFFICES ASSUME Len(stack) = 1
                 PROVE  cfg.yaml <=> world.root = BuiltIn \/ RootIsFirst
      OBVIOUS
    <3>1. Top = stack[1] /\ name = world.root /\ 2 \notin DOMAIN stack
      BY <1>1, Positions
    <3>2. ret.cfg.yaml <=> RootIsFirst
      BY <1>1, <2>2, <3>1 DEF RootInv
    <3> QED BY <2>3, <2>8, <3>1, <3>2
  <2> QED BY <1>1, <1>3, <2>1, <2>6, <2>7, <2>8, <2>9, <2>10, ReturnExact
<1> QED BY <1>2, <1>3

\* A call that finds nothing new gives nothing.
LEMMA GivesNothing ==
  ASSUME Held(Top) = << >>, ret = None
  PROVE  Empty.aspects = (Held(Top) \o ret.cfg.aspects) \o << >>
<1>1. (<< >> \o << >>) \o << >> = << >>
  OBVIOUS
<1> QED BY <1>1, EmptyCfg, NoCfgs

LEMMA LoadGoFileExact ==
  ASSUME Inv, ExactInv, loadGoFile
  PROVE  ExactInv'
<1> PICK name : name = Top.name
  OBVIOUS
<1> PICK tool : tool = world.tool[name]
  OBVIOUS
<1> PICK frame : frame = [Top EXCEPT !.at = "imports", !.todo = Listed(tool.imports)]
  OBVIOUS
<1>1. /\ stack # << >> /\ Top.fn = "tool" /\ Top.at = "start" /\ ret = None
      /\ loaded' = loaded \cup {Tool(name)} /\ UNCHANGED <<world, result>>
  BY DEF loadGoFile, Asked, In, Inside, MarkLoaded
<1>2. /\ world \in worlds /\ FrameOK(Top) /\ IsFrame(Top) /\ name # BuiltIn
      /\ ret.kind # "error" /\ HasCfgs(Top)
  BY <1>1, InvFacts, NoCfgs, ExactFacts DEF FrameOK
<1>3. Top.cfgs = << >> /\ Held(Top) = << >>
  BY <1>1, <1>2, NothingHeld DEF HasCfgs
<1>4. /\ AskedFor(Top.fn, Top.name) = {Tool(name)} /\ Pending(Top) = {Tool(name)}
      /\ Yml(BuiltIn) \notin Pending(Top) /\ Len(stack) # 1 /\ File(Top) = Tool(name)
  BY <1>1, Positions DEF AskedFor, Pending, Tool, Yml, File
<1>5. Empty.aspects = (Held(Top) \o ret.cfg.aspects) \o << >>
  BY <1>1, <1>3, GivesNothing
<1>6. CASE Tool(name) \in loaded /\ Return("ok", Empty)
  <2>1. loaded' = loaded
    BY <1>1, <1>6
  <2> QED BY <1>1, <1>2, <1>4, <1>5, <1>6, <2>1, EmptyCfg, ReturnExact
<1>7. CASE tool.state = "error" /\ Return("error", Empty)
  BY <1>1, <1>7, ErrorExact
<1>8. CASE tool.state = "notExist" /\ Return("notExist", Empty)
  <2>1. Leads(Tool(name)) = {} /\ Tool(name)[2] # BuiltIn /\ \A f \in Injecting : Tool(name) # Yml(f)
    BY <1>2, <1>8 DEF Leads, Tool, Yml
  <2>2. \A n \in loaded' \ loaded : Leads(n) = {} /\ n[2] # BuiltIn /\ \A f \in Injecting : n # Yml(f)
    BY <1>1, <2>1
  <2>3. loaded \subseteq loaded' /\ loaded' \subseteq loaded \cup AskedFor(Top.fn, Top.name)
    BY <1>1, <1>4
  <2> QED BY <1>1, <1>2, <1>4, <1>5, <1>8, <2>2, <2>3, EmptyCfg, ReturnExact
<1>9. CASE ListingFails
  BY <1>1, <1>9, ErrorExact DEF ListingFails
<1>10. CASE Tool(name) \notin loaded /\ tool.state = "ok" /\ Continue(frame)
  <2>1. /\ frame.fn = Top.fn /\ frame.name = Top.name /\ frame.at = "imports"
        /\ frame.todo = Listed(tool.imports) /\ frame.cfgs = << >>
    BY <1>2, <1>3 DEF IsFrame
  <2>2. Held(frame) = << >> /\ Shown(frame) = << >>
    BY <2>1, NothingHeld
  <2>3. HasCfgs(frame) /\ Held(frame) = Held(Top) \o ret.cfg.aspects
    <3>1. << >> \o << >> = << >> /\ << >> \in Seq(ToSet(<< >>))
      OBVIOUS
    <3>2. Matching(<< >>, << >>)
      BY EmptySeqs DEF Matching
    <3> QED BY <1>1, <1>3, <2>1, <2>2, <3>1, <3>2, NoCfgs DEF HasCfgs
  <2>4. Leads(Tool(name)) \subseteq Pending(frame)
    BY <1>1, <1>10, <2>1 DEF Leads, Pending, Tool
  <2>5. \A n \in loaded' \ loaded : Leads(n) \subseteq Pending(frame)
    BY <1>1, <2>4
  <2>6. IF Top.at = "start" THEN File(Top) \notin loaded /\ loaded' = loaded \cup {File(Top)} ELSE loaded' = loaded
    BY <1>1, <1>4, <1>10
  <2> QED BY <1>1, <1>2, <1>4, <1>10, <2>1, <2>3, <2>5, <2>6, ContinueExact
<1> QED BY <1>6, <1>7, <1>8, <1>9, <1>10 DEF loadGoFile, Failures

\* A frame that calls without having changed.
LEMMA TopCalls ==
  ASSUME Inv, ExactInv, stack # << >>, UNCHANGED <<world, result, loaded>>, ret = None,
         NEW fn, NEW name, Call(Top, fn, name), Waiting(Top), Top.fn # "package", Callee(Top) = <<fn, name>>
  PROVE  ExactInv'
<1>1. ret.kind # "error" /\ HasCfgs(Top) /\ RootInv /\ Top.at # "start"
  BY NoCfgs, ExactFacts DEF Waiting
<1>2. Held(Top) = Held(Top) \o ret.cfg.aspects
  <2>1. Held(Top) \in Seq(Injecting)
    BY <1>1 DEF HasCfgs, Matching
  <2>2. Held(Top) \o << >> = Held(Top)
    BY <2>1
  <2> QED BY <2>2, NoCfgs
<1>3. /\ Len(stack) # 1
      /\ stack[1].at \in {"start", "tool"} => AskedFor(fn, name) \subseteq ToolFiles
  BY <1>1, CallsInToolFiles
<1> QED BY <1>1, <1>2, <1>3, CallExact

LEMMA LoadImportExact ==
  ASSUME Inv, ExactInv, LoadImport
  PROVE  ExactInv'
<1> DEFINE p == Head(Top.todo)
<1>1. /\ stack # << >> /\ Top.fn = "tool" /\ Top.at = "imports" /\ ret = None /\ Top.todo # << >>
      /\ Call(Top, "package", p) /\ UNCHANGED <<world, result, loaded, unlisted>>
  BY DEF LoadImport, Asked, In, Inside
<1>2. Waiting(Top) /\ Callee(Top) = <<"package", p>>
  BY <1>1 DEF Waiting, Callee
<1> QED BY <1>1, <1>2, TopCalls

LEMMA LoadExtensionExact ==
  ASSUME Inv, ExactInv, LoadExtension
  PROVE  ExactInv'
<1> DEFINE ext == Head(Top.todo)
<1>1. /\ stack # << >> /\ Top.fn = "yml" /\ Top.at = "extends" /\ ret = None /\ Top.todo # << >>
      /\ UNCHANGED <<world, result, loaded>>
  BY DEF LoadExtension, Asked, In, Inside
<1>2. CASE Return(maskErrNotExist("notExist"), Empty)
  BY <1>1, <1>2, ErrorExact DEF maskErrNotExist
<1>3. CASE ListingFails
  BY <1>1, <1>3, ErrorExact DEF ListingFails
<1>4. CASE ext.is = "dir" /\ Call(Top, "package", ext.name)
  <2>1. Waiting(Top) /\ Callee(Top) = <<"package", ext.name>>
    BY <1>1, <1>4 DEF Waiting, Callee, Exists
  <2> QED BY <1>1, <1>4, <2>1, TopCalls
<1>5. CASE ext.is = "file" /\ Exists(ext) /\ Call(Top, "yml", ext.name)
  <2>1. Waiting(Top) /\ Callee(Top) = <<"yml", ext.name>>
    BY <1>1, <1>5 DEF Waiting, Callee
  <2> QED BY <1>1, <1>5, <2>1, TopCalls
<1> QED BY <1>2, <1>3, <1>4, <1>5 DEF LoadExtension

\* A frame that takes up what the call that it waited for has found.
LEMMA TakesUp ==
  ASSUME Inv, ExactInv, stack # << >>, UNCHANGED <<world, result, loaded>>, ret.kind # "error",
         Top.fn # "package", Top.at # "start", NEW frame, Continue(frame),
         frame = [Top EXCEPT !.todo = Tail(@), !.cfgs = Keep(@, ret.cfg)],
         Yml(BuiltIn) \in Pending(Top) => Yml(BuiltIn) \in Pending(frame) \/ BuiltIn \in ToSet(Gathered)
  PROVE  ExactInv'
<1>1. HasCfgs(Top) /\ Matching(ret.cfg.aspects, ret.cfg.visit) /\ IsFrame(Top)
  BY ExactFacts, InvFacts
<1>2. frame.fn = Top.fn /\ frame.name = Top.name /\ frame.at = Top.at /\ frame.cfgs = Keep(Top.cfgs, ret.cfg)
  BY <1>1 DEF IsFrame
<1>3. /\ frame.cfgs \in Seq(ToSet(frame.cfgs)) /\ Matching(Held(frame), Shown(frame))
      /\ Held(frame) = Held(Top) \o ret.cfg.aspects
  <2> PICK cfgs : cfgs = Top.cfgs
    OBVIOUS
  <2> PICK cfg : cfg = ret.cfg
    OBVIOUS
  <2>1. Held(Top) = All(AspectsOf, cfgs) /\ Shown(Top) = All(VisitOf, cfgs)
    BY DEF Held, Shown
  <2>2. cfgs \in Seq(ToSet(cfgs)) /\ Matching(Held(Top), Shown(Top))
    BY <1>1 DEF HasCfgs
  <2>3. Matching(All(AspectsOf, cfgs), All(VisitOf, cfgs)) /\ frame.cfgs = Keep(cfgs, cfg)
    BY <1>2, <2>1, <2>2
  <2>4. Matching(cfg.aspects, cfg.visit)
    BY <1>1
  <2>5. /\ frame.cfgs \in Seq(ToSet(frame.cfgs)) /\ Matching(Held(frame), Shown(frame))
        /\ Held(frame) = All(AspectsOf, cfgs) \o cfg.aspects
    BY <2>2, <2>3, <2>4, Kept
  <2> QED BY <2>1, <2>5
<1>4. HasCfgs(frame)
  BY <1>2, <1>3 DEF HasCfgs
<1> QED BY <1>2, <1>3, <1>4, ContinueExact

LEMMA ImportLoadedExact ==
  ASSUME Inv, ExactInv, ImportLoaded
  PROVE  ExactInv'
<1> DEFINE p == Head(Top.todo)
<1> PICK frame : frame = [Top EXCEPT !.todo = Tail(@), !.cfgs = Keep(@, ret.cfg)]
  OBVIOUS
<1>1. /\ stack # << >> /\ Top.fn = "tool" /\ Top.at = "imports" /\ ret # None
      /\ UNCHANGED <<world, result, loaded, unlisted>>
  BY DEF ImportLoaded, Answered, In, Inside
<1>2. /\ Waiting(Top) /\ IsFrame(Top) /\ Callee(Top) = <<"package", p>> /\ Top.todo # << >>
      /\ ret.kind \in {"ok", "error"} /\ LastCall = <<"package", p>> /\ world \in worlds
  BY <1>1, InvFacts DEF Waiting, Callee
<1>3. CASE ret.kind = "error"
  <2>1. Return("error", Empty)
    BY <1>3 DEF ImportLoaded, Failures
  <2> QED BY <1>1, <2>1, ErrorExact
<1>4. CASE ret.kind = "ok"
  <2>1. Continue(frame)
    BY <1>4 DEF ImportLoaded, Failures
  <2>2. frame.fn = Top.fn /\ frame.at = Top.at /\ frame.todo = Tail(Top.todo)
    BY <1>2 DEF IsFrame
  <2>3. Yml(BuiltIn) \in Pending(Top) => Yml(BuiltIn) \in Pending(frame) \/ BuiltIn \in ToSet(Gathered)
    <3>1. \A q \in ToSet(Top.todo) : q = p \/ q \in ToSet(Tail(Top.todo))
      BY <1>1, <1>2, ToolFrame, HeadAndTail
    <3>2. Pending(frame) = UNION {FilesOf(q) : q \in ToSet(Tail(Top.todo))}
      BY <1>1, <2>2 DEF Pending
    <3>3. Yml(BuiltIn) \in FilesOf(p) => p = BuiltIn
      BY <1>2, FilesFacts DEF Yml, Tool
    <3>4. p = BuiltIn => BuiltIn \in ToSet(Gathered)
      BY <1>1, <1>2, <1>4, ExactFacts DEF NoneLost
    <3> QED BY <1>1, <3>1, <3>2, <3>3, <3>4, ToolFrame
  <2> QED BY <1>1, <1>4, <2>1, <2>3, TakesUp
<1> QED BY <1>2, <1>3, <1>4

LEMMA ExtensionLoadedExact ==
  ASSUME Inv, ExactInv, ExtensionLoaded
  PROVE  ExactInv'
<1> DEFINE ext == Head(Top.todo)
<1> PICK frame : frame = [Top EXCEPT !.todo = Tail(@), !.cfgs = Keep(@, ret.cfg)]
  OBVIOUS
<1>1. /\ stack # << >> /\ Top.fn = "yml" /\ Top.at = "extends" /\ ret # None
      /\ UNCHANGED <<world, result, loaded, unlisted>>
  BY DEF ExtensionLoaded, Answered, In, Inside
<1>2. /\ Waiting(Top) /\ IsFrame(Top) /\ Top.todo # << >> /\ world \in worlds
      /\ ext.is # "missing" /\ LastCall = <<IF ext.is = "dir" THEN "package" ELSE "yml", ext.name>>
      /\ ret.kind \in {"none", "ok", "error", "notExist"} /\ (ret.kind = "none" => ret = None)
  BY <1>1, InvFacts DEF Waiting, Callee
<1>3. CASE ret.kind \in Failures
  <2>1. Return("error", Empty)
    BY <1>3 DEF ExtensionLoaded, Failures, maskErrNotExist
  <2> QED BY <1>1, <2>1, ErrorExact
<1>4. CASE ret.kind \notin Failures
  <2>1. Continue(frame) /\ ret.kind = "ok"
    BY <1>1, <1>2, <1>4 DEF ExtensionLoaded, Failures
  <2>2. frame.fn = Top.fn /\ frame.at = Top.at /\ frame.todo = Tail(Top.todo)
    BY <1>2 DEF IsFrame
  <2>3. Yml(BuiltIn) \in Pending(Top) => Yml(BuiltIn) \in Pending(frame) \/ BuiltIn \in ToSet(Gathered)
    <3>1. \A e \in ToSet(Top.todo) : e = ext \/ e \in ToSet(Tail(Top.todo))
      BY <1>1, <1>2, YMLFrame, HeadAndTail
    <3>2. Pending(frame) = UNION {DutiesOf(e) : e \in ToSet(Tail(Top.todo))}
      BY <1>1, <2>2 DEF Pending
    <3>3. ext.is \in {"dir", "file"} /\ (ext.is = "file" => ext.name # BuiltIn)
      <4>1. ext \in ToSet(world.yml[Top.name].extends)
        BY <1>1, <1>2, YMLFrame, HeadAndTail
      <4> HIDE DEF ext
      <4> QED BY <1>1, <1>2, <4>1, YMLFrame
    <3>4. Yml(BuiltIn) \in DutiesOf(ext) => ext.is = "dir" /\ ext.name = BuiltIn
      <4>1. CASE ext.is = "dir"
        BY <1>2, <4>1, FilesFacts DEF DutiesOf, FilesOfExtension, Yml, Tool
      <4>2. CASE ext.is = "file"
        BY <3>3, <4>2 DEF DutiesOf, FilesOfExtension, Yml
      <4> QED BY <3>3, <4>1, <4>2
    <3>5. ext.is = "dir" /\ ext.name = BuiltIn => BuiltIn \in ToSet(Gathered)
      BY <1>1, <1>2, <2>1, ExactFacts DEF NoneLost
    <3> QED BY <1>1, <3>1, <3>2, <3>4, <3>5, YMLFrame
  <2> QED BY <1>1, <2>1, <2>3, TakesUp
<1> QED BY <1>3, <1>4

\* What the frame of a file holds when it has done all that it had to do.
LEMMA HeldParts ==
  ASSUME Inv, ExactInv, stack # << >>, ret = None
  PROVE  /\ HasCfgs(Top) /\ Held(Top) \in Seq(Injecting) /\ Shown(Top) \in Seq(Used)
         /\ ToSet(Held(Top)) \subseteq ToSet(Shown(Top))
         /\ Held(Top) \o ret.cfg.aspects = Held(Top)
<1>1. ret.kind # "error"
  BY NoCfgs
<1>2. HasCfgs(Top)
  BY <1>1, ExactFacts
<1>3. Held(Top) \in Seq(Injecting) /\ Shown(Top) \in Seq(Used) /\ ToSet(Held(Top)) \subseteq ToSet(Shown(Top))
  BY <1>2 DEF HasCfgs, Matching
<1>4. Held(Top) \o << >> = Held(Top)
  BY <1>3
<1> QED BY <1>2, <1>3, <1>4, NoCfgs

LEMMA EndImportsExact ==
  ASSUME Inv, ExactInv, EndImports
  PROVE  ExactInv'
<1> DEFINE cfg == configGo(Top.cfgs, Empty)
<1>1. /\ stack # << >> /\ Top.fn = "tool" /\ Top.at = "imports" /\ ret = None /\ Top.todo = << >>
      /\ Return("ok", cfg) /\ UNCHANGED <<world, result, loaded, unlisted>>
  BY DEF EndImports, Asked, In, Inside
<1>2. /\ Held(Top) \in Seq(Injecting) /\ Shown(Top) \in Seq(Used) /\ ToSet(Held(Top)) \subseteq ToSet(Shown(Top))
      /\ Held(Top) \o ret.cfg.aspects = Held(Top)
  BY <1>1, HeldParts
<1>3. cfg.aspects = Held(Top) \o << >> /\ cfg.visit = << >> \o Shown(Top)
  BY EmptyCfg DEF configGo, Held, Shown
<1> HIDE DEF cfg
<1>4. Held(Top) \o << >> = Held(Top) /\ << >> \o Shown(Top) = Shown(Top)
  BY <1>2
<1>5. cfg.aspects = Held(Top) /\ cfg.visit = Shown(Top)
  BY <1>3, <1>4
<1>6. Matching(cfg.aspects, cfg.visit) /\ cfg.aspects = (Held(Top) \o ret.cfg.aspects) \o << >>
  BY <1>2, <1>4, <1>5 DEF Matching
<1>7. Yml(BuiltIn) \notin Pending(Top)
  BY <1>1, ToolFrame, NoneToDo
<1>8. Len(stack) # 1 /\ ret.kind # "error"
  BY <1>1, Positions, NoCfgs
<1> QED BY <1>1, <1>6, <1>7, <1>8, ReturnExact

LEMMA MatchingBoth ==
  ASSUME NEW held \in Seq(Injecting), NEW shown \in Seq(Used), ToSet(held) \subseteq ToSet(shown),
         NEW own \in Seq(Injecting), NEW one \in Seq(Used), ToSet(own) \subseteq ToSet(one)
  PROVE  Matching(held \o own, one \o shown)
<1>1. held \o own \in Seq(Injecting) /\ ToSet(held \o own) = ToSet(held) \cup ToSet(own)
  BY ConcatElements
<1>2. one \o shown \in Seq(Used) /\ ToSet(one \o shown) = ToSet(one) \cup ToSet(shown)
  BY ConcatElements
<1> QED BY <1>1, <1>2 DEF Matching

LEMMA EndExtendsExact ==
  ASSUME Inv, ExactInv, EndExtends
  PROVE  ExactInv'
<1> PICK name : name = Top.name
  OBVIOUS
<1> PICK own : own = IF world.yml[name].aspects THEN <<name>> ELSE << >>
  OBVIOUS
<1> PICK cfg : cfg = configYML(name, own, Top.cfgs)
  OBVIOUS
<1>1. /\ stack # << >> /\ Top.fn = "yml" /\ Top.at = "extends" /\ ret = None /\ Top.todo = << >>
      /\ Return("ok", cfg) /\ UNCHANGED <<world, result, loaded, unlisted>>
  BY DEF EndExtends, Asked, In, Inside
<1>2. /\ Held(Top) \in Seq(Injecting) /\ Shown(Top) \in Seq(Used) /\ ToSet(Held(Top)) \subseteq ToSet(Shown(Top))
      /\ Held(Top) \o ret.cfg.aspects = Held(Top) /\ ret.kind # "error" /\ RootInv
  BY <1>1, HeldParts, NoCfgs, ExactFacts
<1>3. /\ world \in worlds /\ FrameOK(Top) /\ name \in DOMAIN world.yml /\ name # BuiltIn
      /\ parseYMLFile(name) = "ok" /\ Yml(name) \in Reachable
  BY <1>1, InvFacts, YMLFrame DEF FrameOK
<1>4. /\ name \in Used /\ (name \in Injecting <=> own = <<name>>)
      /\ own = << >> \/ (own = <<name>> /\ name \in Injecting)
  <2>1. name \in Used /\ (name \in Injecting <=> world.yml[name].aspects)
    BY <1>3 DEF Used, Injecting
  <2>2. <<name>> # << >>
    OBVIOUS
  <2> QED BY <2>1, <2>2
<1>5. cfg.aspects = Held(Top) \o own /\ cfg.visit = <<name>> \o Shown(Top) /\ cfg.yaml = TRUE
  BY DEF configYML, Held, Shown
<1>6. /\ own \in Seq(Injecting) /\ ToSet(own) \subseteq {name}
      /\ <<name>> \in Seq(Used) /\ ToSet(<<name>>) = {name}
  <2>1. ToSet(<<name>>) = {name} /\ ToSet(<< >>) = {}
    BY DEF ToSet
  <2>2. <<name>> \in Seq(Used) /\ << >> \in Seq(Injecting) /\ (name \in Injecting => <<name>> \in Seq(Injecting))
    BY <1>4
  <2> QED BY <1>4, <2>1, <2>2
<1>7. Matching(Held(Top) \o own, <<name>> \o Shown(Top))
  <2> PICK one : one = <<name>>
    OBVIOUS
  <2>1. one \in Seq(Used) /\ ToSet(own) \subseteq ToSet(one)
    BY <1>6
  <2>2. Matching(Held(Top) \o own, one \o Shown(Top))
    BY <1>2, <1>6, <2>1, MatchingBoth
  <2> QED BY <2>2
<1>8. Matching(cfg.aspects, cfg.visit) /\ cfg.aspects = (Held(Top) \o ret.cfg.aspects) \o own
  BY <1>2, <1>5, <1>7
<1>9. Yml(BuiltIn) \notin Pending(Top)
  BY <1>1, YMLFrame, NoneToDo
<1>10. Len(stack) = 2 => (cfg.yaml <=> RootIsFirst)
  <2> SUFFICES ASSUME Len(stack) = 2 PROVE RootIsFirst
    BY <1>5
  <2>1. /\ 2 \in DOMAIN stack /\ stack[2] = Top /\ name = world.root /\ stack[1].at = "yml"
    BY <1>1, Positions
  <2>2. Yml(world.root) \notin RootImports
    BY <1>1, <1>2, <2>1 DEF RootInv
  <2> QED BY <1>4, <2>1, <2>2 DEF RootIsFirst
<1>11. Len(stack) # 1
  BY <1>1, Positions
<1>12. \/ own = << >>
       \/ \E x \in Injecting :
             own = <<x>> /\ (x # BuiltIn => /\ Top.fn = "yml" /\ Top.at = "extends" /\ Top.todo = << >>
                                            /\ x = Top.name)
  BY <1>1, <1>4
<1>13. Top.fn = "yml" /\ Top.at # "start" /\ Top.name \in Injecting => own = <<Top.name>>
  BY <1>4
<1>14. "ok" \in {"ok", "notExist"} /\ ~ (Top.fn = "package") /\ \A n \in loaded' \ loaded : FALSE
  BY <1>1
<1>15. loaded \subseteq loaded' /\ loaded' = loaded /\ loaded' \subseteq loaded \cup AskedFor(Top.fn, Top.name)
  BY <1>1
<1> QED BY <1>1, <1>2, <1>8, <1>9, <1>10, <1>11, <1>12, <1>13, <1>14, <1>15, ReturnExact

LEMMA LoadYMLFileExact ==
  ASSUME Inv, ExactInv, loadYMLFile
  PROVE  ExactInv'
<1> PICK name : name = Top.name
  OBVIOUS
<1> PICK frame : frame = [Top EXCEPT !.at = "extends", !.todo = world.yml[name].extends]
  OBVIOUS
<1>1. /\ stack # << >> /\ Top.fn = "yml" /\ Top.at = "start" /\ ret = None
      /\ loaded' = loaded \cup {Yml(name)} /\ UNCHANGED <<world, result>>
  BY DEF loadYMLFile, Asked, In, Inside, MarkLoaded
<1>2. /\ world \in worlds /\ FrameOK(Top) /\ IsFrame(Top) /\ name # BuiltIn /\ name \in DOMAIN world.yml
      /\ ret.kind # "error" /\ HasCfgs(Top) /\ RootInv
  BY <1>1, InvFacts, NoCfgs, ExactFacts DEF FrameOK
<1>3. Top.cfgs = << >> /\ Held(Top) = << >>
  BY <1>1, <1>2, NothingHeld DEF HasCfgs
<1>4. /\ AskedFor(Top.fn, Top.name) = {Yml(name)} /\ Pending(Top) = {Yml(name)}
      /\ Yml(BuiltIn) \notin Pending(Top) /\ Len(stack) # 1 /\ File(Top) = Yml(name)
  BY <1>1, <1>2, Positions DEF AskedFor, Pending, Yml, File
<1>5. Empty.aspects = (Held(Top) \o ret.cfg.aspects) \o << >>
  BY <1>1, <1>3, GivesNothing
<1>6. Len(stack) = 2 => /\ name = world.root
                        /\ Yml(world.root) \in loaded <=> Yml(world.root) \in RootImports
  <2> SUFFICES ASSUME Len(stack) = 2
               PROVE  /\ name = world.root
                      /\ Yml(world.root) \in loaded <=> Yml(world.root) \in RootImports
    OBVIOUS
  <2>1. 2 \in DOMAIN stack /\ stack[2] = Top /\ name = world.root /\ stack[1].at = "yml"
    BY <1>1, Positions
  <2> QED BY <1>1, <1>2, <2>1 DEF RootInv
<1>7. CASE Yml(name) \in loaded /\ Return("ok", Empty)
  <2>1. loaded' = loaded
    BY <1>1, <1>7
  <2>2. Len(stack) = 2 /\ Top.fn = "yml" => (Empty.yaml <=> RootIsFirst)
    BY <1>6, <1>7, EmptyCfg DEF RootIsFirst
  <2> QED BY <1>1, <1>2, <1>4, <1>5, <1>7, <2>1, <2>2, EmptyCfg, ReturnExact
<1>8. CASE parseYMLFile(name) = "error" /\ Return("error", Empty)
  BY <1>1, <1>8, ErrorExact
<1>9. CASE parseYMLFile(name) = "notExist" /\ Return("notExist", Empty)
  <2>1. name \notin Used
    BY <1>2, <1>9 DEF Used
  <2>2. Leads(Yml(name)) = {} /\ Yml(name)[2] # BuiltIn /\ \A f \in Injecting : Yml(name) # Yml(f)
    BY <1>2, <1>9, <2>1 DEF Leads, Yml, Injecting
  <2>3. \A n \in loaded' \ loaded : Leads(n) = {} /\ n[2] # BuiltIn /\ \A f \in Injecting : n # Yml(f)
    BY <1>1, <2>2
  <2>4. loaded \subseteq loaded' /\ loaded' \subseteq loaded \cup AskedFor(Top.fn, Top.name)
    BY <1>1, <1>4
  <2>5. Len(stack) = 2 /\ Top.fn = "yml" => (Empty.yaml <=> RootIsFirst)
    BY <1>6, <2>1, EmptyCfg DEF RootIsFirst
  <2> QED BY <1>1, <1>2, <1>4, <1>5, <1>9, <2>3, <2>4, <2>5, EmptyCfg, ReturnExact
<1>10. CASE Yml(name) \notin loaded /\ parseYMLFile(name) = "ok" /\ Continue(frame)
  <2>1. /\ frame.fn = Top.fn /\ frame.name = Top.name /\ frame.at = "extends"
        /\ frame.todo = world.yml[name].extends /\ frame.cfgs = << >>
    BY <1>2, <1>3 DEF IsFrame
  <2>2. Held(frame) = << >> /\ Shown(frame) = << >>
    BY <2>1, NothingHeld
  <2>3. HasCfgs(frame) /\ Held(frame) = Held(Top) \o ret.cfg.aspects
    <3>1. << >> \o << >> = << >> /\ << >> \in Seq(ToSet(<< >>))
      OBVIOUS
    <3>2. Matching(<< >>, << >>)
      BY EmptySeqs DEF Matching
    <3> QED BY <1>1, <1>3, <2>1, <2>2, <3>1, <3>2, NoCfgs DEF HasCfgs
  <2>4. Leads(Yml(name)) \subseteq Pending(frame)
    BY <1>1, <1>10, <2>1 DEF Leads, Pending, DutiesOf, Yml
  <2>5. \A n \in loaded' \ loaded : Leads(n) \subseteq Pending(frame)
    BY <1>1, <2>4
  <2>6. IF Top.at = "start" THEN File(Top) \notin loaded /\ loaded' = loaded \cup {File(Top)} ELSE loaded' = loaded
    BY <1>1, <1>4, <1>10
  <2> QED BY <1>1, <1>2, <1>4, <1>10, <2>1, <2>3, <2>5, <2>6, ContinueExact
<1>11. parseYMLFile(name) \in {"ok", "error", "notExist"}
  BY <1>2, WorldFacts
<1> QED BY <1>7, <1>8, <1>9, <1>10, <1>11 DEF loadYMLFile, Failures

\* Nothing is held when no call is active.
LEMMA NoFrames ==
  ASSUME stack' = << >>, ret' = None
  PROVE  CfgsOK'
<1>1. DOMAIN stack' = {}
  OBVIOUS
<1>2. Matching(ret.cfg.aspects, ret.cfg.visit)'
  BY NoCfgs, EmptySeqs DEF Matching
<1> QED BY <1>1, <1>2 DEF CfgsOK

LEMMA JoinedOne ==
  ASSUME NEW frame, Held(frame) = << >>
  PROVE  Joined(Append(<< >>, frame)) = << >>
<1> PICK none : none = << >>
  OBVIOUS
<1> PICK S : S = {frame}
  OBVIOUS
<1> PICK T : T = {frame}
  OBVIOUS
<1>1. none \in Seq(S) /\ none \in Seq(T) /\ frame \in S
  BY EmptySeqs
<1>2. \A g \in S : Held(g) \in Seq(T)
  BY <1>1
<1>3. Joined(Append(none, frame)) = Joined(none) \o Held(frame)
  BY <1>1, <1>2, JoinedAppend
<1>4. << >> \o << >> = << >>
  OBVIOUS
<1> QED BY <1>3, <1>4, JoinedNothing

LEMMA StartExact ==
  ASSUME Inv, ExactInv, Start
  PROVE  ExactInv'
<1>1. /\ stack = << >> /\ ret = None /\ result.kind = "none" /\ UNCHANGED <<world, loaded, ret>>
      /\ ret.kind # "error"
  BY NoCfgs DEF Start, Outside
<1>2. loaded = {}
  BY <1>1 DEF ExactInv, Running, RootInv
<1>3. CASE stack' = <<Frame("package", world.root)>> /\ UNCHANGED result
  <2> PICK new : new = Frame("package", world.root)
    OBVIOUS
  <2> PICK s : s = <<new>>
    OBVIOUS
  <2>1. stack' = s /\ DOMAIN s = {1} /\ s[1] = new /\ s # << >> /\ s = Append(<< >>, new)
    BY <1>3
  <2>2. HasCfgs(new) /\ new.at = "start" /\ new.cfgs = << >>
    BY NewHasNoCfgs DEF Frame
  <2>3. CfgsOK'
    <3>1. \A i \in DOMAIN s : HasCfgs(s[i])'
      BY <1>1, <2>1, <2>2, SameHeld
    <3>2. Matching(ret.cfg.aspects, ret.cfg.visit)'
      BY <1>1, NoCfgs, EmptySeqs DEF Matching
    <3> QED BY <2>1, <3>1, <3>2 DEF CfgsOK
  <2>4. Gathered' = << >>
    <3>1. Held(new) = << >>
      BY <2>2, NothingHeld
    <3>2. Joined(s) = << >>
      BY <2>1, <3>1, JoinedOne
    <3>3. << >> \o << >> = << >>
      OBVIOUS
    <3>4. Gathered' = Joined(s) \o << >>
      BY <1>1, <2>1, NoCfgs DEF Gathered
    <3> QED BY <3>2, <3>3, <3>4
  <2>5. GatheredInv'
    <3>1. DOMAIN << >> = {}
      OBVIOUS
    <3> QED BY <2>4, <3>1 DEF GatheredInv
  <2>6. NoneLost'
    <3>1. loaded' = {} /\ ret'.kind # "ok"
      BY <1>1, <1>2, NoCfgs
    <3> QED BY <3>1 DEF NoneLost, BuiltInDue
  <2>7. RootInv'
    BY <1>1, <1>2, <2>1, <2>2 DEF RootInv
  <2> QED BY <1>1, <1>3, <2>3, <2>5, <2>6, <2>7, NoResultYet DEF ExactInv
<1>4. CASE UNCHANGED stack /\ Finished("error", Empty, FALSE)
  <2>1. result'.kind = "error"
    BY <1>4 DEF Finished
  <2> QED BY <1>1, <1>4, <2>1, NoFrames, NoResultYet DEF ExactInv, Running
<1>5. CASE UNCHANGED stack /\ ~packageRoot(world.root) /\ Finished("ok", Empty, FALSE)
  <2>1. result'.kind = "ok" /\ result'.cfg.aspects = << >>
    BY <1>5, EmptyCfg DEF Finished
  <2>2. LoadIsExact'
    BY <1>1, <1>5, SameWorld DEF LoadIsExact
  <2>3. DependenciesFirst'
    <3>1. DOMAIN << >> = {}
      OBVIOUS
    <3>2. DOMAIN result'.cfg.aspects = {}
      BY <2>1, <3>1
    <3> QED BY <3>2 DEF DependenciesFirst
  <2> QED BY <1>1, <1>5, <2>1, <2>2, <2>3, NoFrames DEF ExactInv, Running
<1> QED BY <1>3, <1>4, <1>5 DEF Start

\* What was loaded when the last call has returned is what the result is to be.
LEMMA BuiltInIsLoaded ==
  ASSUME Inv, NoneLost, stack = << >>, ret.kind = "ok", result.kind = "none", BuiltIn \in Used
  PROVE  BuiltIn \in ToSet(Gathered)
<1>1. world \in worlds /\ Yml(BuiltIn) \in Reachable /\ DOMAIN stack = {}
  BY DEF Inv, LoadInv, Used
<1>2. CASE world.root = BuiltIn
  BY <1>2 DEF NoneLost, LastCall
<1>3. CASE world.root # BuiltIn /\ BuiltIn \notin ToSet(Gathered)
  <2> DEFINE T == Reachable \ {Yml(BuiltIn)}
  <2>1. \A n \in Reachable : n \in loaded \/ n[2] = BuiltIn
    BY AllIsLoaded
  <2>2. \A n \in loaded : Yml(BuiltIn) \notin Leads(n)
    BY <1>1, <1>3 DEF NoneLost, BuiltInDue
  <2>3. \A n \in T : n[2] # BuiltIn => Leads(n) \subseteq T
    BY <1>1, <2>1, <2>2, ReachableFacts
  <2>4. IsClosed(T)
    BY <2>3 DEF IsClosed
  <2>5. FilesOf(world.root) \subseteq T
    <3>1. FilesOf(world.root) \subseteq Reachable
      BY <1>1, ReachableFacts
    <3>2. \A n \in FilesOf(world.root) : n # Yml(BuiltIn)
      <4> PICK root : root = world.root
        OBVIOUS
      <4>1. \A n \in FilesOf(root) : n \in {Tool(root), Yml(root)}
        BY <1>1, FilesFacts
      <4>2. Tool(root) # Yml(BuiltIn) /\ Yml(root) # Yml(BuiltIn)
        BY <1>3 DEF Tool, Yml
      <4> QED BY <4>1, <4>2
    <3> QED BY <3>1, <3>2
  <2>6. T \in SUBSET AllFiles
    BY <1>1, ReachableFacts
  <2>7. Reachable \subseteq T
    <3> HIDE DEF T
    <3> QED BY <1>1, <2>4, <2>5, <2>6, ReachableFacts
  <2> QED BY <1>1, <2>7
<1> QED BY <1>2, <1>3

LEMMA ExactResult ==
  ASSUME Inv, ExactInv, stack = << >>, ret.kind = "ok", result.kind = "none"
  PROVE  LET g == ret.cfg.aspects IN
         /\ ToSet(g) = Injecting /\ ToSet(ret.cfg.visit) \subseteq Used /\ ToSet(g) \subseteq ToSet(ret.cfg.visit)
         /\ \A i, j \in DOMAIN g : g[i] = g[j] => i = j \/ g[i] = BuiltIn
         /\ \A i, j \in DOMAIN g : i < j /\ g[i] # BuiltIn /\ g[j] # BuiltIn => InOrder(g[i], g[j])
         /\ HasConfig(ret.cfg) <=> g # << >> \/ RootIsFirst
<1> PICK g : g = ret.cfg.aspects
  OBVIOUS
<1>1. /\ GatheredInv /\ NoneLost /\ RootInv /\ world \in worlds /\ DOMAIN stack = {}
      /\ g \in Seq(Injecting) /\ ret.cfg.visit \in Seq(Used) /\ ToSet(g) \subseteq ToSet(ret.cfg.visit)
  BY DEF ExactInv, Running, CfgsOK, Matching, Inv, LoadInv
<1>2. Gathered = g
  <2>1. << >> \o g = g
    BY <1>1
  <2> QED BY <2>1, JoinedNothing DEF Gathered
<1>3. ToSet(g) \subseteq Injecting /\ ToSet(ret.cfg.visit) \subseteq Used /\ DOMAIN g \subseteq Nat
  BY <1>1 DEF ToSet
<1>4. Injecting \subseteq ToSet(g)
  <2> SUFFICES ASSUME NEW f \in Injecting PROVE f \in ToSet(g)
    OBVIOUS
  <2>1. f \in Used /\ Yml(f) \in Reachable
    BY DEF Injecting, Used
  <2>2. CASE f = BuiltIn
    BY <1>1, <1>2, <2>1, <2>2, BuiltInIsLoaded
  <2>3. CASE f # BuiltIn
    <3>1. Yml(f) \in loaded
      BY <2>1, <2>3, AllIsLoaded DEF Yml
    <3>2. Busy = {}
      BY <1>1 DEF Busy
    <3> QED BY <1>1, <1>2, <2>3, <3>1, <3>2 DEF NoneLost
  <2> QED BY <2>2, <2>3
<1>5. \A i, j \in DOMAIN g : i < j /\ g[i] # BuiltIn /\ g[j] # BuiltIn => InOrder(g[i], g[j])
  BY <1>1, <1>2 DEF GatheredInv
<1>6. \A i, j \in DOMAIN g : g[i] = g[j] => i = j \/ g[i] = BuiltIn
  <2> SUFFICES ASSUME NEW i \in DOMAIN g, NEW j \in DOMAIN g, g[i] = g[j], g[i] # BuiltIn, i # j
               PROVE  FALSE
    OBVIOUS
  <2>1. i < j \/ j < i
    BY <1>3
  <2> QED BY <1>5, <2>1 DEF InOrder
<1>7. HasConfig(ret.cfg) <=> g # << >> \/ RootIsFirst
  <2>1. ret.cfg.yaml <=> world.root = BuiltIn \/ RootIsFirst
    BY <1>1 DEF RootInv
  <2>2. world.root = BuiltIn => BuiltIn \in ToSet(g)
    <3>1. world.root \in DOMAIN world.yml /\ Yml(world.root) \in Reachable
      BY <1>1, WorldFacts, FilesFacts, ReachableFacts
    <3> QED BY <1>4, <3>1 DEF Injecting, Used
  <2>3. BuiltIn \in ToSet(g) => g # << >>
    BY EmptySeqs
  <2> QED BY <2>1, <2>2, <2>3 DEF HasConfig
<1> QED BY <1>1, <1>3, <1>4, <1>5, <1>6, <1>7

LEMMA EndExact ==
  ASSUME Inv, ExactInv, End
  PROVE  ExactInv'
<1>1. /\ stack = << >> /\ ret # None /\ result.kind = "none" /\ UNCHANGED <<world, loaded, stack>>
      /\ ret' = None /\ result' = [kind |-> ret.kind, cfg |-> ret.cfg,
                                   has |-> (ret.kind = "ok" /\ HasConfig(ret.cfg))]
  BY DEF End, Outside, Finished
<1>2. ret.kind \in {"ok", "error"}
  BY <1>1 DEF Inv, LoadInv, ErrorsAreDue, LastCall
<1>3. CfgsOK'
  BY <1>1, NoFrames
<1>4. ~ Running'
  BY <1>1, <1>2 DEF Running
<1>5. CASE ret.kind = "error"
  <2>1. result'.kind = "error"
    BY <1>1, <1>5
  <2> QED BY <1>3, <1>4, <2>1, NoResultYet DEF ExactInv
<1>6. CASE ret.kind = "ok"
  <2> PICK cfg : cfg = ret.cfg
    OBVIOUS
  <2> PICK g : g = cfg.aspects
    OBVIOUS
  <2>1. result'.cfg = cfg /\ (result'.has <=> HasConfig(cfg))
    BY <1>1, <1>6
  <2>2. /\ ToSet(g) = Injecting /\ ToSet(cfg.visit) \subseteq Used /\ ToSet(g) \subseteq ToSet(cfg.visit)
        /\ \A i, j \in DOMAIN g : g[i] = g[j] => i = j \/ g[i] = BuiltIn
        /\ \A i, j \in DOMAIN g : i < j /\ g[i] # BuiltIn /\ g[j] # BuiltIn => InOrder(g[i], g[j])
        /\ HasConfig(cfg) <=> g # << >> \/ RootIsFirst
    BY <1>1, <1>6, ExactResult
  <2>3. LoadIsExact'
    <3>1. /\ {f \in Used : f = BuiltIn \/ world.yml[f].aspects}' = Injecting /\ Used' = Used
          /\ (world.root \in Used /\ Yml(world.root) \notin ReachableFrom(Leads(Tool(world.root))))' <=> RootIsFirst
      BY <1>1, SameFiles DEF Injecting, RootIsFirst, RootImports
    <3> QED BY <2>1, <2>2, <3>1 DEF LoadIsExact
  <2>4. DependenciesFirst'
    <3>1. /\ \A n, f, h : Precedes(n, f, h)' <=> Precedes(n, f, h)
          /\ \A f : FilesOf(f)' = FilesOf(f)
      BY <1>1, SameFiles, SameWorld
    <3>2. \A i, j \in DOMAIN g : i < j /\ g[i] # BuiltIn /\ g[j] # BuiltIn =>
             \A n \in FilesOf(g[i])' : ~ Precedes(n, g[i], g[j])'
      BY <2>2, <3>1 DEF InOrder
    <3> QED BY <2>1, <3>2 DEF DependenciesFirst, Precedes, LeadsBack
  <2> QED BY <1>3, <1>4, <2>3, <2>4 DEF ExactInv
<1> QED BY <1>2, <1>5, <1>6

LEMMA StutterExact ==
  ASSUME ExactInv, UNCHANGED vars
  PROVE  ExactInv'
<1>1. world' = world /\ stack' = stack /\ loaded' = loaded /\ ret' = ret /\ result' = result
  BY DEF vars
<1>2. /\ Gathered' = Gathered /\ Busy' = Busy /\ (Running' <=> Running) /\ LastCall' = LastCall
      /\ Used' = Used /\ Injecting' = Injecting
  <2>1. Gathered' = Gathered
    BY <1>1 DEF Gathered
  <2>2. Busy' = Busy
    BY <1>1 DEF Busy, Yml, File, Loading
  <2>3. (Running' <=> Running) /\ LastCall' = LastCall
    BY <1>1 DEF Running, LastCall, Top
  <2> QED BY <1>1, <2>1, <2>2, <2>3, SameFiles
<1>3. CfgsOK'
  BY <1>1, SameHeld, SameFiles DEF ExactInv, CfgsOK
<1>4. GatheredInv => GatheredInv'
  BY <1>1, <1>2, GatheredStays
<1>5. NoneLost => NoneLost'
  <2>1. (\A n : Leads(n)' = Leads(n)) /\ \A frame : Pending(frame)' = Pending(frame)
    BY <1>1, SameWorld
  <2>2. BuiltInDue => BuiltInDue'
    BY <1>1, <1>2, <2>1 DEF BuiltInDue, Yml
  <2>3. (\A f \in Injecting : f # BuiltIn /\ Yml(f) \in loaded => f \in ToSet(Gathered) \cup Busy)
        => (\A f \in Injecting : f # BuiltIn /\ Yml(f) \in loaded => f \in ToSet(Gathered) \cup Busy)'
    BY <1>1, <1>2 DEF Yml
  <2> QED BY <1>1, <1>2, <2>2, <2>3 DEF NoneLost
<1>6. RootInv => RootInv'
  <2>1. RootImports' = RootImports /\ (RootIsFirst' <=> RootIsFirst)
    BY <1>1, SameFiles
  <2>2. \A fn, name : AskedFor(fn, name)' = AskedFor(fn, name)
    BY <1>1, SameWorld
  <2> QED BY <1>1, <2>1, <2>2 DEF RootInv, Yml, Tool
<1>7. LoadIsExact'
  <2>1. /\ (packageRoot(world.root))' <=> packageRoot(world.root)
        /\ ReachableFrom(Leads(Tool(world.root)))' = ReachableFrom(Leads(Tool(world.root)))
    BY <1>1, SameFiles, SameWorld DEF RootImports
  <2> QED BY <1>1, <1>2, <2>1 DEF ExactInv, LoadIsExact, Succeeded, Yml
<1>8. DependenciesFirst'
  <2>1. /\ \A S : ReachableFrom(S)' = ReachableFrom(S)
        /\ \A n : Leads(n)' = Leads(n)
        /\ \A f : FilesOf(f)' = FilesOf(f)
        /\ \A f : AskedAlone(f)' <=> AskedAlone(f)
    BY <1>1, SameFiles, SameWorld DEF AskedAlone
  <2>2. \A n : ReachableFrom(Leads(n))' = ReachableFrom(Leads(n))
    BY <1>1, <2>1 DEF ReachableFrom, IsClosed, AllFiles
  <2> QED BY <1>1, <2>1, <2>2 DEF ExactInv, DependenciesFirst, Succeeded, Yml
<1> QED BY <1>2, <1>3, <1>4, <1>5, <1>6, <1>7, <1>8 DEF ExactInv

LEMMA InitExact == Init => ExactInv
<1> SUFFICES ASSUME Init PROVE ExactInv
  OBVIOUS
<1>1. stack = << >> /\ loaded = {} /\ ret = None /\ result.kind = "none" /\ DOMAIN stack = {}
  BY DEF Init
<1>2. ret.kind = "none" /\ ret.cfg.aspects = << >> /\ ret.cfg.visit = << >>
  BY <1>1, NoCfgs
<1>3. CfgsOK
  BY <1>1, <1>2, EmptySeqs DEF CfgsOK, Matching
<1>4. GatheredInv
  <2>1. << >> \o << >> = << >> /\ DOMAIN << >> = {}
    OBVIOUS
  <2>2. Gathered = << >>
    BY <1>1, <1>2, <2>1, JoinedNothing DEF Gathered
  <2> QED BY <2>1, <2>2 DEF GatheredInv
<1>5. NoneLost
  BY <1>1, <1>2 DEF NoneLost, BuiltInDue
<1>6. RootInv
  BY <1>1, <1>2 DEF RootInv
<1>7. LoadIsExact /\ DependenciesFirst
  BY <1>1 DEF LoadIsExact, DependenciesFirst, Succeeded
<1> QED BY <1>3, <1>4, <1>5, <1>6, <1>7 DEF ExactInv

LEMMA NextExact == Inv /\ ExactInv /\ [CNext]_vars => ExactInv'
<1> SUFFICES ASSUME Inv, ExactInv, [CNext]_vars PROVE ExactInv'
  OBVIOUS
<1>1. Ended \/ UNCHANGED vars => UNCHANGED vars
  BY DEF Ended
<1> QED BY <1>1, StutterExact, StartExact, EndExact, LoadGoPackageExact, ToolLoadedExact, YMLLoadedExact,
           LoadGoFileExact, LoadImportExact, ImportLoadedExact, EndImportsExact, LoadYMLFileExact,
           LoadExtensionExact, ExtensionLoadedExact, EndExtendsExact DEF CNext

-----------------------------------------------------------------------------
(* Theorems *)

LEMMA AlwaysExact == CSpec => [](Inv /\ ExactInv)
<1>1. Init => Inv /\ ExactInv
  BY InitInv, InitLoadInv, InitExact DEF Inv
<1>2. Inv /\ ExactInv /\ [CNext]_vars => (Inv /\ ExactInv)'
  BY NextStep, NextLoadInv, NextExact DEF Inv
<1> QED BY <1>1, <1>2, PTL DEF CSpec

\* Whatever is on the disk, a configuration that was loaded has the aspects of the files that
\* can be reached, each file once and none but those: what is skipped as loaded already is
\* held elsewhere, and what is left out as empty has no aspects. HasConfig overlooks a YAML
\* file only where there are no aspects and the imports of the package lead to that file
\* (loadGoPackage, loadGoFile, loadYMLFile, empty, markLoaded).
THEOREM WhatIsLoadedIsExact == CSpec => []LoadIsExact
<1>1. ExactInv => LoadIsExact
  BY DEF ExactInv
<1> QED BY <1>1, AlwaysExact, PTL

\* Whatever is on the disk, the aspects of what a file leads to come before its own, unless it
\* leads back to the file: the order in which a configuration gives its aspects is the order
\* in which the loader finishes its files (Aspects of configGo and configYML).
THEOREM AspectsFollowTheirDependencies == CSpec => []DependenciesFirst
<1>1. ExactInv => DependenciesFirst
  BY DEF ExactInv
<1> QED BY <1>1, AlwaysExact, PTL

=============================================================================
