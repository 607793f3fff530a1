-------------------------- MODULE Toolexec_proofs --------------------------
(***************************************************************************)
(* Theorems about NeverBuildTwice, for any set of callers, keys and labels,  *)
(* and that it implements BuildOnce; and about Toolexec, for any number of   *)
(* processes, packages and output files: the processes use the service as    *)
(* its open specification lets callers do, so what is proved of the service  *)
(* holds here, and they compile each package once.                           *)
(***************************************************************************)
EXTENDS Toolexec, TLAPS

\* Files by label: what it is to be one, and what the helpers return.
LEMMA FileMapIntro ==
    ASSUME NEW S \in SUBSET Labels, NEW f \in [S -> Content]
    PROVE  f \in FileMap
<1>1. [S -> Content] \in {[T -> Content] : T \in SUBSET Labels}
  OBVIOUS
<1>2. QED
  BY <1>1 DEF FileMap

LEMMA FileMapElim ==
    ASSUME NEW f \in FileMap
    PROVE  /\ DOMAIN f \subseteq Labels
           /\ f \in [DOMAIN f -> Content]
<1>1. PICK S \in SUBSET Labels : f \in [S -> Content]
  BY DEF FileMap
<1>2. QED
  BY <1>1

LEMMA PutType ==
    ASSUME NEW f \in FileMap, NEW l \in Labels, NEW v \in Content
    PROVE  Put(f, l, v) \in FileMap
<1> DEFINE S == DOMAIN f \cup {l}
<1>1. DOMAIN f \subseteq Labels /\ f \in [DOMAIN f -> Content]
  BY FileMapElim
<1>2. S \in SUBSET Labels
  BY <1>1
<1>3. Put(f, l, v) \in [S -> Content]
  BY <1>1 DEF Put
<1>4. QED
  BY <1>2, <1>3, FileMapIntro

LEMMA NoFilesType == NoFiles \in FileMap
<1>1. NoFiles \in [{} -> Content]
  BY DEF NoFiles
<1>2. QED
  BY <1>1, FileMapIntro

LEMMA ReportsType ==
    ASSUME NEW r \in Reports
    PROVE  /\ DOMAIN r.files \subseteq Labels
           /\ r.files \in [DOMAIN r.files -> Content \cup {Absent}]
<1>1. CASE r = ReportError
  <2>1. r.files = NoFiles
    BY <1>1 DEF ReportError
  <2>2. QED
    BY <2>1 DEF NoFiles
<1>2. CASE \E f \in ReportedFiles : r = Report(f)
  <2>1. PICK f \in ReportedFiles : r.files = f
    BY <1>2 DEF Report
  <2>2. PICK S \in SUBSET Labels : f \in [S -> Content \cup {Absent}]
    BY DEF ReportedFiles
  <2>3. QED
    BY <2>1, <2>2
<1>3. QED
  BY <1>1, <1>2 DEF Reports

\* Copying one more file of f extends the part of f that is there.
LEMMA PutPart ==
    ASSUME NEW f, NEW T \in SUBSET DOMAIN f, NEW l \in T
    PROVE  Put(Part(f, DOMAIN f \ T), l, f[l]) = Part(f, DOMAIN f \ (T \ {l}))
<1>1. DOMAIN Part(f, DOMAIN f \ T) \cup {l} = DOMAIN f \ (T \ {l})
  BY DEF Part
<1>2. \A x \in DOMAIN f \ (T \ {l}) :
        (IF x = l THEN f[l] ELSE Part(f, DOMAIN f \ T)[x]) = f[x]
  BY DEF Part
<1>3. QED
  BY <1>1, <1>2 DEF Put, Part

LEMMA PartNothing == \A f : Part(f, DOMAIN f \ DOMAIN f) = NoFiles
BY DEF Part, NoFiles

LEMMA PartAll ==
    ASSUME NEW r \in Reports
    PROVE  Part(r.files, DOMAIN r.files \ {}) = r.files
BY ReportsType DEF Part

LEMMA RejectStep ==
    ASSUME IInv, NEW c \in Callers, NEW k \in Keys \cup {NoKey}, Reject(c, k)
    PROVE  IInv'
<1> USE DEF IInv
<1>1. TypeOK'
  BY ConstantsAssumption, NoFilesType DEF TypeOK, Steps, Kinds, Reject, Answer, NoAnswer, buildVars, callVars, serverVars
<1>2. KeyOrder'
  BY ConstantsAssumption DEF KeyOrder, TypeOK, Stored, Reject, Answer, NoAnswer, buildVars, callVars, serverVars
<1>3. HandlerInv'
  BY ConstantsAssumption DEF HandlerInv, TypeOK, KeyOrder, Stored, Finishing, Reject, Answer, NoAnswer, buildVars, callVars, serverVars
<1>4. OneFinisher'
  BY ConstantsAssumption DEF OneFinisher, TypeOK, HandlerInv, Finishing, Reject, Answer, NoAnswer, buildVars, callVars, serverVars
<1>5. FinishInv'
  BY ConstantsAssumption DEF FinishInv, TypeOK, HandlerInv, OneFinisher, KeyInv, Settled, Finishing, Reject, Answer, NoAnswer, buildVars, callVars, serverVars
<1>6. KeyInv'
  BY ConstantsAssumption DEF KeyInv, TypeOK, HandlerInv, FinishInv, KeyOrder, Settled, Finishing, Reject, Answer, NoAnswer, buildVars, callVars, serverVars
<1>7. AnswerInv'
  BY ConstantsAssumption DEF AnswerInv, TypeOK, HandlerInv, KeyInv, KeyOrder, Settled, Finishing, Reject, Answer, NoAnswer, buildVars, callVars, serverVars
<1>8. QED
  BY <1>1, <1>2, <1>3, <1>4, <1>5, <1>6, <1>7

LEMMA StartOriginalStep ==
    ASSUME IInv, NEW c \in Callers, NEW k \in Keys, StartOriginal(c, k)
    PROVE  IInv'
<1> USE DEF IInv
<1>1. TypeOK'
  BY ConstantsAssumption, NoFilesType DEF TypeOK, Steps, Kinds, StartOriginal, Call, Answer, NoAnswer, buildVars, callVars, serverVars
<1>2. KeyOrder'
  BY ConstantsAssumption DEF KeyOrder, TypeOK, Stored, StartOriginal, Call, Answer, NoAnswer, buildVars, callVars, serverVars
<1>3. HandlerInv'
  BY ConstantsAssumption DEF HandlerInv, TypeOK, KeyOrder, Stored, Finishing, StartOriginal, Call, Answer, NoAnswer, buildVars, callVars, serverVars
<1>4. OneFinisher'
  BY ConstantsAssumption DEF OneFinisher, TypeOK, HandlerInv, Finishing, StartOriginal, Call, Answer, NoAnswer, buildVars, callVars, serverVars
<1>5. FinishInv'
  BY ConstantsAssumption DEF FinishInv, TypeOK, HandlerInv, OneFinisher, KeyInv, Settled, Finishing, StartOriginal, Call, Answer, NoAnswer, buildVars, callVars, serverVars
<1>6. KeyInv'
  BY ConstantsAssumption DEF KeyInv, TypeOK, HandlerInv, FinishInv, KeyOrder, Settled, Finishing, StartOriginal, Call, Answer, NoAnswer, buildVars, callVars, serverVars
<1>7. AnswerInv'
  <2> SUFFICES ASSUME NEW d \in Callers
               PROVE  AnswerInv!(d)'
    BY DEF AnswerInv
  <2>1. CASE d = c
    BY <2>1 DEF TypeOK, StartOriginal, Call, Answer, NoAnswer, buildVars, callVars, serverVars
  <2>2. CASE d # c
    <3>1. key'[d] = key[d] /\ reply'[d] = reply[d]
      BY <2>2 DEF TypeOK, StartOriginal, Call
    <3>2. reply[d].kind = "token" => key[d] # k
      BY ConstantsAssumption DEF AnswerInv, StartOriginal, Stored
    <3>3. QED
      BY <3>1, <3>2 DEF AnswerInv, TypeOK, StartOriginal, buildVars, callVars, serverVars
  <2>3. QED
    BY <2>1, <2>2
<1>8. QED
  BY <1>1, <1>2, <1>3, <1>4, <1>5, <1>6, <1>7

LEMMA StartReusedStep ==
    ASSUME IInv, NEW c \in Callers, NEW k \in Keys, StartReused(c, k)
    PROVE  IInv'
<1> USE DEF IInv
<1>1. TypeOK'
  BY ConstantsAssumption, NoFilesType DEF TypeOK, Steps, Kinds, StartReused, Call, Answer, NoAnswer, buildVars, callVars, serverVars
<1>2. KeyOrder'
  BY ConstantsAssumption DEF KeyOrder, TypeOK, Stored, StartReused, Call, Answer, NoAnswer, buildVars, callVars, serverVars
<1>3. HandlerInv'
  BY ConstantsAssumption DEF HandlerInv, TypeOK, KeyOrder, Stored, Finishing, StartReused, Call, Answer, NoAnswer, buildVars, callVars, serverVars
<1>4. OneFinisher'
  BY ConstantsAssumption DEF OneFinisher, TypeOK, HandlerInv, Finishing, StartReused, Call, Answer, NoAnswer, buildVars, callVars, serverVars
<1>5. FinishInv'
  BY ConstantsAssumption DEF FinishInv, TypeOK, HandlerInv, OneFinisher, KeyInv, Settled, Finishing, StartReused, Call, Answer, NoAnswer, buildVars, callVars, serverVars
<1>6. KeyInv'
  BY ConstantsAssumption DEF KeyInv, TypeOK, HandlerInv, FinishInv, KeyOrder, Settled, Finishing, StartReused, Call, Answer, NoAnswer, buildVars, callVars, serverVars
<1>7. AnswerInv'
  BY ConstantsAssumption DEF AnswerInv, TypeOK, HandlerInv, KeyInv, KeyOrder, Settled, Finishing, StartReused, Call, Answer, NoAnswer, buildVars, callVars, serverVars
<1>8. QED
  BY <1>1, <1>2, <1>3, <1>4, <1>5, <1>6, <1>7

LEMMA InitBuildStep ==
    ASSUME IInv, NEW c \in Callers, InitBuild(c)
    PROVE  IInv'
<1> USE DEF IInv
<1>1. TypeOK'
  BY ConstantsAssumption, NoFilesType DEF TypeOK, Steps, Kinds, HandlerInv, InitBuild, Respond, Goto, Answer, NoAnswer, buildVars, callVars, serverVars
<1>2. KeyOrder'
  BY ConstantsAssumption DEF KeyOrder, TypeOK, Stored, HandlerInv, InitBuild, Respond, Goto, Answer, NoAnswer, buildVars, callVars, serverVars
<1>3. HandlerInv'
  BY ConstantsAssumption DEF HandlerInv, TypeOK, KeyOrder, Stored, Finishing, InitBuild, Respond, Goto, Answer, NoAnswer, buildVars, callVars, serverVars
<1>4. OneFinisher'
  BY ConstantsAssumption DEF OneFinisher, TypeOK, HandlerInv, Finishing, InitBuild, Respond, Goto, Answer, NoAnswer, buildVars, callVars, serverVars
<1>5. FinishInv'
  <2>1. \A d \in Callers : pc'[d] \in {"record", "copy", "close"} =>
            pc'[d] = pc[d] /\ key'[d] = key[d]
    BY DEF TypeOK, InitBuild, Respond, Goto, buildVars, callVars, serverVars
  <2>2. UNCHANGED <<files, error, report, todo>>
    BY DEF InitBuild, buildVars, callVars, serverVars
  <2>3. QED
    BY <2>1, <2>2 DEF FinishInv, Settled
<1>6. KeyInv'
  BY ConstantsAssumption DEF KeyInv, TypeOK, HandlerInv, FinishInv, KeyOrder, Settled, Finishing, InitBuild, Respond, Goto, Answer, NoAnswer, buildVars, callVars, serverVars
<1>7. AnswerInv'
  BY ConstantsAssumption DEF AnswerInv, TypeOK, HandlerInv, KeyInv, KeyOrder, Settled, Finishing, InitBuild, Respond, Goto, Answer, NoAnswer, buildVars, callVars, serverVars
<1>8. QED
  BY <1>1, <1>2, <1>3, <1>4, <1>5, <1>6, <1>7

LEMMA AwaitDoneStep ==
    ASSUME IInv, NEW c \in Callers, AwaitDone(c)
    PROVE  IInv'
<1> USE DEF IInv
<1>1. TypeOK'
  BY ConstantsAssumption, NoFilesType DEF TypeOK, Steps, Kinds, HandlerInv, AwaitDone, DoneClosed, ReusedAnswer, Respond, Answer, NoAnswer, buildVars, callVars, serverVars
<1>2. KeyOrder'
  BY ConstantsAssumption DEF KeyOrder, TypeOK, Stored, HandlerInv, AwaitDone, DoneClosed, ReusedAnswer, Respond, Answer, NoAnswer, buildVars, callVars, serverVars
<1>3. HandlerInv'
  BY ConstantsAssumption DEF HandlerInv, TypeOK, KeyOrder, Stored, Finishing, AwaitDone, DoneClosed, ReusedAnswer, Respond, Answer, NoAnswer, buildVars, callVars, serverVars
<1>4. OneFinisher'
  BY ConstantsAssumption DEF OneFinisher, TypeOK, HandlerInv, Finishing, AwaitDone, DoneClosed, ReusedAnswer, Respond, Answer, NoAnswer, buildVars, callVars, serverVars
<1>5. FinishInv'
  BY ConstantsAssumption DEF FinishInv, TypeOK, HandlerInv, OneFinisher, KeyInv, Settled, Finishing, AwaitDone, DoneClosed, ReusedAnswer, Respond, Answer, NoAnswer, buildVars, callVars, serverVars
<1>6. KeyInv'
  BY ConstantsAssumption DEF KeyInv, TypeOK, HandlerInv, FinishInv, KeyOrder, Settled, Finishing, AwaitDone, DoneClosed, ReusedAnswer, Respond, Answer, NoAnswer, buildVars, callVars, serverVars
<1>7. AnswerInv'
  BY ConstantsAssumption DEF AnswerInv, TypeOK, HandlerInv, KeyInv, KeyOrder, Settled, Finishing, AwaitDone, DoneClosed, ReusedAnswer, Respond, Answer, NoAnswer, buildVars, callVars, serverVars
<1>8. QED
  BY <1>1, <1>2, <1>3, <1>4, <1>5, <1>6, <1>7

LEMMA FinishAgainStep ==
    ASSUME IInv, NEW c \in Callers, NEW k \in Keys, NEW token, FinishAgain(c, k, token)
    PROVE  IInv'
<1> USE DEF IInv
<1>1. TypeOK'
  BY ConstantsAssumption, NoFilesType DEF TypeOK, Steps, Kinds, FinishAgain, Answer, NoAnswer, buildVars, callVars, serverVars
<1>2. KeyOrder'
  BY ConstantsAssumption DEF KeyOrder, TypeOK, Stored, FinishAgain, Answer, NoAnswer, buildVars, callVars, serverVars
<1>3. HandlerInv'
  BY ConstantsAssumption DEF HandlerInv, TypeOK, KeyOrder, Stored, Finishing, FinishAgain, Answer, NoAnswer, buildVars, callVars, serverVars
<1>4. OneFinisher'
  BY ConstantsAssumption DEF OneFinisher, TypeOK, HandlerInv, Finishing, FinishAgain, Answer, NoAnswer, buildVars, callVars, serverVars
<1>5. FinishInv'
  BY ConstantsAssumption DEF FinishInv, TypeOK, HandlerInv, OneFinisher, KeyInv, Settled, Finishing, FinishAgain, Answer, NoAnswer, buildVars, callVars, serverVars
<1>6. KeyInv'
  BY ConstantsAssumption DEF KeyInv, TypeOK, HandlerInv, FinishInv, KeyOrder, Settled, Finishing, FinishAgain, Answer, NoAnswer, buildVars, callVars, serverVars
<1>7. AnswerInv'
  BY ConstantsAssumption DEF AnswerInv, TypeOK, HandlerInv, KeyInv, KeyOrder, Settled, Finishing, FinishAgain, Answer, NoAnswer, buildVars, callVars, serverVars
<1>8. QED
  BY <1>1, <1>2, <1>3, <1>4, <1>5, <1>6, <1>7

LEMMA FinishFirstStep ==
    ASSUME IInv, NEW c \in Callers, NEW k \in Keys, NEW token, NEW r \in Reports,
           FinishFirst(c, k, token, r)
    PROVE  IInv'
<1> USE DEF IInv
<1>1. TypeOK'
  BY ConstantsAssumption, NoFilesType DEF TypeOK, Steps, Kinds, FinishFirst, Call, Answer, NoAnswer, buildVars, callVars, serverVars
<1>2. KeyOrder'
  BY ConstantsAssumption DEF KeyOrder, TypeOK, Stored, FinishFirst, Call, Answer, NoAnswer, buildVars, callVars, serverVars
<1>3. HandlerInv'
  BY ConstantsAssumption DEF HandlerInv, TypeOK, KeyOrder, Stored, Finishing, FinishFirst, Call, Answer, NoAnswer, buildVars, callVars, serverVars
<1>4. OneFinisher'
  BY ConstantsAssumption DEF OneFinisher, TypeOK, HandlerInv, Finishing, FinishFirst, Call, Answer, NoAnswer, buildVars, callVars, serverVars
<1>5. FinishInv'
  BY ConstantsAssumption DEF FinishInv, TypeOK, HandlerInv, OneFinisher, KeyInv, Settled, Finishing, FinishFirst, Call, Answer, NoAnswer, buildVars, callVars, serverVars
<1>6. KeyInv'
  BY ConstantsAssumption DEF KeyInv, TypeOK, HandlerInv, FinishInv, KeyOrder, Settled, Finishing, FinishFirst, Call, Answer, NoAnswer, buildVars, callVars, serverVars
<1>7. AnswerInv'
  BY ConstantsAssumption DEF AnswerInv, TypeOK, HandlerInv, KeyInv, KeyOrder, Settled, Finishing, FinishFirst, Call, Answer, NoAnswer, buildVars, callVars, serverVars
<1>8. QED
  BY <1>1, <1>2, <1>3, <1>4, <1>5, <1>6, <1>7

LEMMA AbandonStep ==
    ASSUME IInv, NEW c \in Callers, NEW why \in Errors \ {"none"}, pc[c] \in {"record", "copy"},
           Abandon(c, why)
    PROVE  IInv'
<1> USE DEF IInv
<1>1. TypeOK'
  BY ConstantsAssumption, NoFilesType DEF TypeOK, Steps, Kinds, Abandon, Goto, Answer, NoAnswer, buildVars, callVars, serverVars
<1>2. KeyOrder'
  BY ConstantsAssumption DEF KeyOrder, TypeOK, Stored, Abandon, Goto, Answer, NoAnswer, buildVars, callVars, serverVars
<1>3. HandlerInv'
  BY ConstantsAssumption DEF HandlerInv, TypeOK, KeyOrder, Stored, Finishing, Abandon, Goto, Answer, NoAnswer, buildVars, callVars, serverVars
<1>4. OneFinisher'
  BY ConstantsAssumption DEF OneFinisher, TypeOK, HandlerInv, Finishing, Abandon, Goto, Answer, NoAnswer, buildVars, callVars, serverVars
<1>5. FinishInv'
  BY ConstantsAssumption DEF FinishInv, TypeOK, HandlerInv, OneFinisher, KeyInv, Settled, Finishing, Abandon, Goto, Answer, NoAnswer, buildVars, callVars, serverVars
<1>6. KeyInv'
  BY ConstantsAssumption DEF KeyInv, TypeOK, HandlerInv, FinishInv, KeyOrder, Settled, Finishing, Abandon, Goto, Answer, NoAnswer, buildVars, callVars, serverVars
<1>7. AnswerInv'
  BY ConstantsAssumption DEF AnswerInv, TypeOK, HandlerInv, KeyInv, KeyOrder, Settled, Finishing, Abandon, Goto, Answer, NoAnswer, buildVars, callVars, serverVars
<1>8. QED
  BY <1>1, <1>2, <1>3, <1>4, <1>5, <1>6, <1>7

LEMMA MakeDirStep ==
    ASSUME IInv, NEW c \in Callers, MakeDir(c)
    PROVE  IInv'
<1> USE DEF IInv
<1>1. TypeOK'
  <2>1. key[c] \in Keys /\ DOMAIN report[key[c]].files \subseteq Labels
    BY ReportsType DEF TypeOK, HandlerInv, MakeDir
  <2>2. QED
    BY <2>1 DEF TypeOK, Steps, MakeDir, Goto, buildVars, callVars, serverVars
<1>2. KeyOrder'
  BY ConstantsAssumption DEF KeyOrder, TypeOK, Stored, HandlerInv, MakeDir, Goto, Answer, NoAnswer, buildVars, callVars, serverVars
<1>3. HandlerInv'
  BY ConstantsAssumption DEF HandlerInv, TypeOK, KeyOrder, Stored, Finishing, MakeDir, Goto, Answer, NoAnswer, buildVars, callVars, serverVars
<1>4. OneFinisher'
  BY ConstantsAssumption DEF OneFinisher, TypeOK, HandlerInv, Finishing, MakeDir, Goto, Answer, NoAnswer, buildVars, callVars, serverVars
<1>5. FinishInv'
  <2> DEFINE k == key[c]
  <2>1. k \in Keys /\ files[k] = NoFiles /\ error[k] = "none" /\ report[k] \in Reports
    BY DEF TypeOK, MakeDir, HandlerInv, FinishInv
  <2>2. \A d \in Callers \ {c} : pc[d] \in {"record", "copy", "close"} => key[d] # k
    BY DEF OneFinisher, Finishing, MakeDir
  <2>3. /\ UNCHANGED <<key, files, error, report>>
        /\ todo'[k] = DOMAIN report[k].files
        /\ \A x \in Keys \ {k} : todo'[x] = todo[x]
        /\ pc'[c] = "copy" /\ \A d \in Callers \ {c} : pc'[d] = pc[d]
        /\ ~report[k].failed /\ report[k].files # NoFiles
    BY <2>1 DEF TypeOK, MakeDir, Goto, buildVars, callVars, serverVars
  <2>4. DOMAIN report[k].files # {}
    BY <2>1, <2>3, ReportsType DEF NoFiles
  <2>5. files[k] = Part(report[k].files, DOMAIN report[k].files \ todo'[k])
    BY <2>1, <2>3, PartNothing
  <2>6. FinishInv!(c)'
    BY <2>1, <2>3, <2>4, <2>5
  <2>7. ASSUME NEW d \in Callers \ {c} PROVE FinishInv!(d)'
    <3>1. pc[d] \in {"record", "copy", "close"} => key[d] \in Keys
      BY DEF HandlerInv
    <3>2. QED
      BY <2>2, <2>3, <3>1 DEF FinishInv, Settled
  <2>8. QED
    BY <2>6, <2>7 DEF FinishInv
<1>6. KeyInv'
  BY ConstantsAssumption DEF KeyInv, TypeOK, HandlerInv, FinishInv, KeyOrder, Settled, Finishing, MakeDir, Goto, Answer, NoAnswer, buildVars, callVars, serverVars
<1>7. AnswerInv'
  BY ConstantsAssumption DEF AnswerInv, TypeOK, HandlerInv, KeyInv, KeyOrder, Settled, Finishing, MakeDir, Goto, Answer, NoAnswer, buildVars, callVars, serverVars
<1>8. QED
  BY <1>1, <1>2, <1>3, <1>4, <1>5, <1>6, <1>7

LEMMA CopyFileStep ==
    ASSUME IInv, NEW c \in Callers, NEW l \in Labels, CopyFile(c, l)
    PROVE  IInv'
<1> USE DEF IInv
<1>1. TypeOK'
  <2> DEFINE k == key[c]
  <2>1. k \in Keys /\ l \in DOMAIN report[k].files
    BY DEF CopyFile, HandlerInv, FinishInv
  <2>2. report[k].files[l] \in Content
    BY <2>1, ReportsType DEF TypeOK, CopyFile
  <2>3. Put(files[k], l, report[k].files[l]) \in FileMap
    BY <2>1, <2>2, PutType DEF TypeOK
  <2>4. files' \in [Keys -> FileMap] /\ todo' \in [Keys -> SUBSET Labels]
    BY <2>1, <2>3 DEF TypeOK, CopyFile
  <2>5. pc' \in [Callers -> Steps]
    BY DEF TypeOK, CopyFile, Goto, Steps
  <2>6. QED
    BY <2>4, <2>5 DEF TypeOK, CopyFile, Goto, buildVars, callVars, serverVars
<1>2. KeyOrder'
  BY ConstantsAssumption DEF KeyOrder, TypeOK, Stored, HandlerInv, CopyFile, Goto, Answer, NoAnswer, buildVars, callVars, serverVars
<1>3. HandlerInv'
  BY ConstantsAssumption DEF HandlerInv, TypeOK, KeyOrder, Stored, Finishing, CopyFile, Goto, Answer, NoAnswer, buildVars, callVars, serverVars
<1>4. OneFinisher'
  BY ConstantsAssumption DEF OneFinisher, TypeOK, HandlerInv, Finishing, CopyFile, Goto, Answer, NoAnswer, buildVars, callVars, serverVars
<1>5. FinishInv'
  <2> DEFINE k == key[c]
             f == report[k].files
  <2>1. /\ k \in Keys /\ report[k] \in Reports
        /\ todo[k] \subseteq DOMAIN f /\ l \in todo[k]
        /\ ~report[k].failed /\ f # NoFiles /\ error[k] = "none"
        /\ files[k] = Part(f, DOMAIN f \ todo[k])
    BY DEF TypeOK, CopyFile, HandlerInv, FinishInv
  <2>2. \A d \in Callers \ {c} : pc[d] \in {"record", "copy", "close"} => key[d] # k
    BY DEF OneFinisher, Finishing, CopyFile
  <2>3. /\ UNCHANGED <<key, error, report>>
        /\ todo'[k] = todo[k] \ {l}
        /\ files'[k] = Put(files[k], l, f[l])
        /\ \A x \in Keys \ {k} : todo'[x] = todo[x] /\ files'[x] = files[x]
        /\ pc'[c] = IF todo'[k] = {} THEN "close" ELSE "copy"
        /\ \A d \in Callers \ {c} : pc'[d] = pc[d]
    BY <2>1 DEF TypeOK, CopyFile, Goto, buildVars, callVars, serverVars
  <2>4. files'[k] = Part(f, DOMAIN f \ todo'[k])
    BY <2>1, <2>3, PutPart
  <2>5. todo'[k] = {} => files'[k] = f
    BY <2>1, <2>4, PartAll
  <2>6. FinishInv!(c)'
    BY <2>1, <2>3, <2>4, <2>5 DEF Settled
  <2>7. ASSUME NEW d \in Callers \ {c} PROVE FinishInv!(d)'
    <3>1. pc[d] \in {"record", "copy", "close"} => key[d] \in Keys
      BY DEF HandlerInv
    <3>2. CASE pc[d] \in {"record", "copy", "close"}
      <4>1. /\ files'[key[d]] = files[key[d]] /\ todo'[key[d]] = todo[key[d]]
            /\ key'[d] = key[d] /\ pc'[d] = pc[d]
        BY <2>2, <2>3, <3>1, <3>2
      <4>2. QED
        BY <2>3, <4>1 DEF FinishInv, Settled
    <3>3. CASE pc[d] \notin {"record", "copy", "close"}
      BY <2>3, <3>3
    <3>4. QED
      BY <3>2, <3>3
  <2>8. QED
    BY <2>6, <2>7 DEF FinishInv
<1>6. KeyInv'
  BY ConstantsAssumption DEF KeyInv, TypeOK, HandlerInv, FinishInv, KeyOrder, Settled, Finishing, CopyFile, Goto, Answer, NoAnswer, buildVars, callVars, serverVars
<1>7. AnswerInv'
  BY ConstantsAssumption DEF AnswerInv, TypeOK, HandlerInv, KeyInv, KeyOrder, Settled, Finishing, CopyFile, Goto, Answer, NoAnswer, buildVars, callVars, serverVars
<1>8. QED
  BY <1>1, <1>2, <1>3, <1>4, <1>5, <1>6, <1>7

LEMMA CloseDoneStep ==
    ASSUME IInv, NEW c \in Callers, CloseDone(c)
    PROVE  IInv'
<1> USE DEF IInv
<1>1. TypeOK'
  BY ConstantsAssumption, NoFilesType DEF TypeOK, Steps, Kinds, HandlerInv, CloseDone, Goto, Answer, NoAnswer, buildVars, callVars, serverVars
<1>2. KeyOrder'
  BY DEF KeyOrder, TypeOK, HandlerInv, Finishing, Stored, CloseDone, buildVars, callVars, serverVars
<1>3. HandlerInv'
  <2> SUFFICES ASSUME NEW d \in Callers PROVE HandlerInv!(d)'
    BY DEF HandlerInv
  <2>1. pc[d] \in Finishing \ {"respond"} /\ d # c => key[d] # key[c]
    BY DEF OneFinisher, CloseDone, Finishing
  <2>2. CASE d = c
    BY <2>2 DEF TypeOK, HandlerInv, Stored, CloseDone, Goto, Finishing, buildVars, callVars, serverVars
  <2>3. CASE d # c
    <3>1. pc'[d] = pc[d] /\ UNCHANGED <<key, reply, owner, inited, isDone>>
      BY <2>3 DEF TypeOK, CloseDone, Goto, buildVars, callVars, serverVars
    <3>2. done' = done \cup {key[c]}
      BY DEF CloseDone
    <3>3. QED
      BY <2>1, <2>3, <3>1, <3>2 DEF HandlerInv, Stored
  <2>4. QED
    BY <2>2, <2>3
<1>4. OneFinisher'
  BY ConstantsAssumption DEF OneFinisher, TypeOK, HandlerInv, Finishing, CloseDone, Goto, Answer, NoAnswer, buildVars, callVars, serverVars
<1>5. FinishInv'
  BY ConstantsAssumption DEF FinishInv, TypeOK, HandlerInv, OneFinisher, KeyInv, Settled, Finishing, CloseDone, Goto, Answer, NoAnswer, buildVars, callVars, serverVars
<1>6. KeyInv'
  BY ConstantsAssumption DEF KeyInv, TypeOK, HandlerInv, FinishInv, KeyOrder, Settled, Finishing, CloseDone, Goto, Answer, NoAnswer, buildVars, callVars, serverVars
<1>7. AnswerInv'
  BY ConstantsAssumption DEF AnswerInv, TypeOK, HandlerInv, KeyInv, KeyOrder, Settled, Finishing, CloseDone, Goto, Answer, NoAnswer, buildVars, callVars, serverVars
<1>8. QED
  BY <1>1, <1>2, <1>3, <1>4, <1>5, <1>6, <1>7

LEMMA FinishRespondsStep ==
    ASSUME IInv, NEW c \in Callers, FinishResponds(c)
    PROVE  IInv'
<1> USE DEF IInv
<1>1. TypeOK'
  BY ConstantsAssumption, NoFilesType DEF TypeOK, Steps, Kinds, FinishResponds, FinishAnswer, Respond, Answer, NoAnswer, buildVars, callVars, serverVars
<1>2. KeyOrder'
  BY ConstantsAssumption DEF KeyOrder, TypeOK, Stored, FinishResponds, FinishAnswer, Respond, Answer, NoAnswer, buildVars, callVars, serverVars
<1>3. HandlerInv'
  BY ConstantsAssumption DEF HandlerInv, TypeOK, KeyOrder, Stored, Finishing, FinishResponds, FinishAnswer, Respond, Answer, NoAnswer, buildVars, callVars, serverVars
<1>4. OneFinisher'
  BY ConstantsAssumption DEF OneFinisher, TypeOK, HandlerInv, Finishing, FinishResponds, FinishAnswer, Respond, Answer, NoAnswer, buildVars, callVars, serverVars
<1>5. FinishInv'
  BY ConstantsAssumption DEF FinishInv, TypeOK, HandlerInv, OneFinisher, KeyInv, Settled, Finishing, FinishResponds, FinishAnswer, Respond, Answer, NoAnswer, buildVars, callVars, serverVars
<1>6. KeyInv'
  BY ConstantsAssumption DEF KeyInv, TypeOK, HandlerInv, FinishInv, KeyOrder, Settled, Finishing, FinishResponds, FinishAnswer, Respond, Answer, NoAnswer, buildVars, callVars, serverVars
<1>7. AnswerInv'
  BY ConstantsAssumption DEF AnswerInv, TypeOK, HandlerInv, KeyInv, KeyOrder, Settled, Finishing, FinishResponds, FinishAnswer, Respond, Answer, NoAnswer, buildVars, callVars, serverVars
<1>8. QED
  BY <1>1, <1>2, <1>3, <1>4, <1>5, <1>6, <1>7

LEMMA ConnectionLostStep ==
    ASSUME IInv, NEW c \in Callers, ConnectionLost(c)
    PROVE  IInv'
<1> USE DEF IInv
<1>1. TypeOK'
  BY ConstantsAssumption, NoFilesType DEF TypeOK, Steps, Kinds, ConnectionLost, Respond, Answer, NoAnswer, buildVars, callVars, serverVars
<1>2. KeyOrder'
  BY ConstantsAssumption DEF KeyOrder, TypeOK, Stored, ConnectionLost, Respond, Answer, NoAnswer, buildVars, callVars, serverVars
<1>3. HandlerInv'
  BY ConstantsAssumption DEF HandlerInv, TypeOK, KeyOrder, Stored, Finishing, ConnectionLost, Respond, Answer, NoAnswer, buildVars, callVars, serverVars
<1>4. OneFinisher'
  BY ConstantsAssumption DEF OneFinisher, TypeOK, HandlerInv, Finishing, ConnectionLost, Respond, Answer, NoAnswer, buildVars, callVars, serverVars
<1>5. FinishInv'
  BY ConstantsAssumption DEF FinishInv, TypeOK, HandlerInv, OneFinisher, KeyInv, Settled, Finishing, ConnectionLost, Respond, Answer, NoAnswer, buildVars, callVars, serverVars
<1>6. KeyInv'
  BY ConstantsAssumption DEF KeyInv, TypeOK, HandlerInv, FinishInv, KeyOrder, Settled, Finishing, ConnectionLost, Respond, Answer, NoAnswer, buildVars, callVars, serverVars
<1>7. AnswerInv'
  BY ConstantsAssumption DEF AnswerInv, TypeOK, HandlerInv, KeyInv, KeyOrder, Settled, Finishing, ConnectionLost, Respond, Answer, NoAnswer, buildVars, callVars, serverVars
<1>8. QED
  BY <1>1, <1>2, <1>3, <1>4, <1>5, <1>6, <1>7

LEMMA CancelContextStep ==
    ASSUME IInv, CancelContext
    PROVE  IInv'
<1> USE DEF IInv
<1>1. TypeOK'
  BY ConstantsAssumption, NoFilesType DEF TypeOK, Steps, Kinds, CancelContext, Answer, NoAnswer, buildVars, callVars, serverVars
<1>2. KeyOrder'
  BY ConstantsAssumption DEF KeyOrder, TypeOK, Stored, CancelContext, Answer, NoAnswer, buildVars, callVars, serverVars
<1>3. HandlerInv'
  BY ConstantsAssumption DEF HandlerInv, TypeOK, KeyOrder, Stored, Finishing, CancelContext, Answer, NoAnswer, buildVars, callVars, serverVars
<1>4. OneFinisher'
  BY ConstantsAssumption DEF OneFinisher, TypeOK, HandlerInv, Finishing, CancelContext, Answer, NoAnswer, buildVars, callVars, serverVars
<1>5. FinishInv'
  BY ConstantsAssumption DEF FinishInv, TypeOK, HandlerInv, OneFinisher, KeyInv, Settled, Finishing, CancelContext, Answer, NoAnswer, buildVars, callVars, serverVars
<1>6. KeyInv'
  BY ConstantsAssumption DEF KeyInv, TypeOK, HandlerInv, FinishInv, KeyOrder, Settled, Finishing, CancelContext, Answer, NoAnswer, buildVars, callVars, serverVars
<1>7. AnswerInv'
  BY ConstantsAssumption DEF AnswerInv, TypeOK, HandlerInv, KeyInv, KeyOrder, Settled, Finishing, CancelContext, Answer, NoAnswer, buildVars, callVars, serverVars
<1>8. QED
  BY <1>1, <1>2, <1>3, <1>4, <1>5, <1>6, <1>7

LEMMA ShutdownStep ==
    ASSUME IInv, Shutdown
    PROVE  IInv'
<1> USE DEF IInv
<1>1. TypeOK'
  BY ConstantsAssumption, NoFilesType DEF TypeOK, Steps, Kinds, Shutdown, Answer, NoAnswer, buildVars, callVars, serverVars
<1>2. KeyOrder'
  BY ConstantsAssumption DEF KeyOrder, TypeOK, Stored, Shutdown, Answer, NoAnswer, buildVars, callVars, serverVars
<1>3. HandlerInv'
  BY ConstantsAssumption DEF HandlerInv, TypeOK, KeyOrder, Stored, Finishing, Shutdown, Answer, NoAnswer, buildVars, callVars, serverVars
<1>4. OneFinisher'
  BY ConstantsAssumption DEF OneFinisher, TypeOK, HandlerInv, Finishing, Shutdown, Answer, NoAnswer, buildVars, callVars, serverVars
<1>5. FinishInv'
  BY ConstantsAssumption DEF FinishInv, TypeOK, HandlerInv, OneFinisher, KeyInv, Settled, Finishing, Shutdown, Answer, NoAnswer, buildVars, callVars, serverVars
<1>6. KeyInv'
  BY ConstantsAssumption DEF KeyInv, TypeOK, HandlerInv, FinishInv, KeyOrder, Settled, Finishing, Shutdown, Answer, NoAnswer, buildVars, callVars, serverVars
<1>7. AnswerInv'
  BY ConstantsAssumption DEF AnswerInv, TypeOK, HandlerInv, KeyInv, KeyOrder, Settled, Finishing, Shutdown, Answer, NoAnswer, buildVars, callVars, serverVars
<1>8. QED
  BY <1>1, <1>2, <1>3, <1>4, <1>5, <1>6, <1>7
-----------------------------------------------------------------------------
LEMMA InitInv == Init => IInv
<1> SUFFICES ASSUME Init PROVE IInv
  OBVIOUS
<1>1. TypeOK
  BY NoFilesType DEF Init, TypeOK, Errors, Reports, Steps, Kinds, NoAnswer, Answer
<1>2. KeyOrder /\ HandlerInv /\ OneFinisher
  BY DEF Init, KeyOrder, HandlerInv, OneFinisher, Finishing
<1>3. FinishInv /\ KeyInv
  BY DEF Init, FinishInv, KeyInv
<1>4. AnswerInv
  BY DEF Init, AnswerInv, NoAnswer, Answer
<1>5. QED
  BY <1>1, <1>2, <1>3, <1>4 DEF IInv

\* A step in which nothing changes.
LEMMA StutterStep ==
    ASSUME IInv, UNCHANGED vars
    PROVE  IInv'
<1> USE DEF IInv, vars, buildVars, callVars, serverVars
<1>1. TypeOK' /\ KeyOrder'
  BY DEF TypeOK, KeyOrder, Stored
<1>2. HandlerInv' /\ OneFinisher'
  BY DEF HandlerInv, OneFinisher, Stored
<1>3. FinishInv' /\ KeyInv' /\ AnswerInv'
  BY DEF FinishInv, KeyInv, AnswerInv, Settled
<1>4. QED
  BY <1>1, <1>2, <1>3

LEMMA RequestStep ==
    ASSUME IInv, NEW c \in Callers, Request(c)
    PROVE  IInv'
<1>1. ASSUME NEW k \in Keys \cup {NoKey}, Start(c, k)
      PROVE  IInv'
  BY <1>1, RejectStep, StartOriginalStep, StartReusedStep DEF Start
<1>2. ASSUME NEW k \in Keys \cup {NoKey}, NEW token \in Keys \cup {NoKey, BadToken},
             NEW r \in Reports, Finish(c, k, token, r)
      PROVE  IInv'
  <2>1. CASE FinishRejected(c, k, token)
    BY <2>1, RejectStep DEF FinishRejected
  <2>2. CASE FinishAgain(c, k, token)
    <3>1. k \in Keys
      BY <2>2 DEF FinishAgain
    <3>2. QED
      BY <2>2, <3>1, FinishAgainStep
  <2>3. CASE FinishFirst(c, k, token, r)
    <3>1. k \in Keys
      BY <2>3 DEF FinishFirst
    <3>2. QED
      BY <2>3, <3>1, FinishFirstStep
  <2>4. QED
    BY <1>2, <2>1, <2>2, <2>3 DEF Finish
<1>3. QED
  BY <1>1, <1>2 DEF Request

LEMMA HandleStep ==
    ASSUME IInv, NEW c \in Callers, Handle(c)
    PROVE  IInv'
<1>1. CASE InitBuild(c) \/ AwaitDone(c)
  BY <1>1, InitBuildStep, AwaitDoneStep
<1>2. CASE RecordFailure(c)
  BY <1>2, AbandonStep DEF RecordFailure, Errors
<1>3. CASE RecordNothing(c)
  BY <1>3, AbandonStep DEF RecordNothing, Errors
<1>4. CASE MakeDirFails(c)
  BY <1>4, AbandonStep DEF MakeDirFails, Errors
<1>5. CASE CopyFileFails(c)
  BY <1>5, AbandonStep DEF CopyFileFails, Errors
<1>6. CASE MakeDir(c) \/ \E l \in Labels : CopyFile(c, l)
  BY <1>6, MakeDirStep, CopyFileStep
<1>7. CASE CloseDone(c) \/ FinishResponds(c) \/ ConnectionLost(c)
  BY <1>7, CloseDoneStep, FinishRespondsStep, ConnectionLostStep
<1>8. QED
  BY <1>1, <1>2, <1>3, <1>4, <1>5, <1>6, <1>7 DEF Handle

LEMMA NextInv == IInv /\ [Next]_vars => IInv'
<1> SUFFICES ASSUME IInv, [Next]_vars PROVE IInv'
  OBVIOUS
<1>1. CASE Next
  BY <1>1, RequestStep, HandleStep, CancelContextStep, ShutdownStep DEF Next
<1>2. CASE UNCHANGED vars
  BY <1>2, StutterStep
<1>3. QED
  BY <1>1, <1>2

\* IInv holds in every reachable state, whatever the callers send and however
\* the handlers of their requests interleave.
THEOREM Invariance == Spec => []IInv
<1>1. QED
  BY InitInv, NextInv, PTL DEF Spec

\* Every variable keeps its type.
THEOREM TypeCorrect == Spec => []TypeOK
<1>1. IInv => TypeOK
  BY DEF IInv
<1>2. QED
  BY <1>1, Invariance, PTL

\* No key is ever given two finish tokens: a task is never started twice.
THEOREM NeverTwoTokens == Spec => []OneTokenPerKey
<1>1. IInv => OneTokenPerKey
  BY DEF IInv, AnswerInv, OneTokenPerKey
<1>2. QED
  BY <1>1, Invariance, PTL

\* A closed done channel stands for all the files reported, or for an error.
THEOREM NeverPartial == Spec => []AllOrNothing
<1>1. IInv => AllOrNothing
  BY DEF IInv, KeyInv, AllOrNothing
<1>2. QED
  BY <1>1, Invariance, PTL

\* Re-users are given what the accepted FinishRequest reported.
THEOREM ReuseIsFaithful == Spec => []ReuseAgrees
<1>1. IInv => ReuseAgrees
  BY DEF IInv, AnswerInv, KeyInv, Settled, ReuseAgrees
<1>2. QED
  BY <1>1, Invariance, PTL

\* The "cancelled" answer of start is what its comment says it is.
THEOREM CancelIsGenuine == Spec => []NoSpuriousCancel
<1>1. IInv => NoSpuriousCancel
  BY DEF IInv, AnswerInv, NoSpuriousCancel
<1>2. QED
  BY <1>1, Invariance, PTL

\* The files and the error of a published key are written by no step.
LEMMA PublishedStep ==
    ASSUME IInv, [Next]_vars, NEW k \in done
    PROVE  files'[k] = files[k] /\ error'[k] = error[k]
<1> USE DEF IInv
<1> DEFINE Kept == files'[k] = files[k] /\ error'[k] = error[k]
<1>1. k \in Keys /\ files \in [Keys -> FileMap] /\ error \in [Keys -> Errors]
  BY DEF TypeOK
<1>2. ASSUME NEW c \in Callers, pc[c] \in Finishing \ {"respond"}
      PROVE  key[c] # k
  BY <1>2 DEF HandlerInv, Finishing
<1>3. ASSUME NEW c \in Callers, NEW why, Abandon(c, why),
             pc[c] \in Finishing \ {"respond"}
      PROVE  Kept
  BY <1>1, <1>2, <1>3 DEF Abandon
<1>4. ASSUME UNCHANGED <<files, error>>
      PROVE  Kept
  BY <1>4
<1>5. ASSUME NEW c \in Callers, Request(c)
      PROVE  UNCHANGED <<files, error>>
  BY <1>5 DEF Request, Start, StartOriginal, StartReused, Finish, FinishRejected,
     FinishAgain, FinishFirst, Reject, Call, buildVars
<1>6. ASSUME NEW c \in Callers, Handle(c)
      PROVE  Kept
  <2>1. CASE InitBuild(c) \/ AwaitDone(c) \/ MakeDir(c) \/ CloseDone(c)
             \/ FinishResponds(c) \/ ConnectionLost(c)
    BY <1>4, <2>1 DEF InitBuild, AwaitDone, MakeDir, CloseDone, FinishResponds,
       ConnectionLost, buildVars
  <2>2. CASE RecordFailure(c) \/ RecordNothing(c) \/ MakeDirFails(c)
             \/ CopyFileFails(c)
    BY <1>3, <2>2 DEF RecordFailure, RecordNothing, MakeDirFails, CopyFileFails,
       Finishing
  <2>3. CASE \E l \in Labels : CopyFile(c, l)
    <3>1. pc[c] \in Finishing \ {"respond"}
      BY <2>3 DEF CopyFile, Finishing
    <3>2. QED
      BY <1>1, <1>2, <2>3, <3>1 DEF CopyFile
  <2>4. QED
    BY <1>6, <2>1, <2>2, <2>3 DEF Handle
<1>7. CASE CancelContext \/ Shutdown \/ UNCHANGED vars
  BY <1>4, <1>7 DEF CancelContext, Shutdown, vars, buildVars
<1>8. QED
  BY <1>4, <1>5, <1>6, <1>7 DEF Next

\* What was published for a key stays, whatever is sent to the service later.
THEOREM PublicationIsFinal == Spec => PublishedIsFinal
<1>1. IInv /\ [Next]_vars =>
        [\A k \in done : files'[k] = files[k] /\ error'[k] = error[k]]_vars
  BY PublishedStep
<1>2. QED
  BY <1>1, Invariance, PTL DEF Spec, PublishedIsFinal

-----------------------------------------------------------------------------
\* The refinement: NeverBuildTwice implements BuildOnce, under the mapping that
\* NeverBuildTwice defines (OutcomeOf and ToldTo).

\* The variables of BuildOnce, as the service implements them.
Outcome == [k \in Keys |-> OutcomeOf(k)]
Told == [c \in Callers |-> ToldTo(c)]
Nothing == [key |-> NoKey, outcome |-> [status |-> "pending", files |-> NoFiles]]

LEMMA NothingMaps == BO!ToldNothing = Nothing
BY DEF BO!ToldNothing, BO!Pending, Nothing

LEMMA StutterMaps ==
    ASSUME UNCHANGED <<owner, Outcome, Told>>
    PROVE  UNCHANGED BO!vars
BY DEF BO!vars, Outcome, Told

\* The told of a caller depends on its answer, its key and the context only.
LEMMA SameTold ==
    ASSUME NEW c \in Callers, UNCHANGED <<cancelled, key[c], reply[c]>>
    PROVE  ToldTo(c)' = ToldTo(c)
BY DEF ToldTo

LEMMA SameOutcome ==
    ASSUME NEW k \in Keys, UNCHANGED <<files[k], error[k]>>, k \in done' <=> k \in done
    PROVE  OutcomeOf(k)' = OutcomeOf(k)
BY DEF OutcomeOf

\* A step that publishes nothing and after which the callers of C were told
\* nothing, the others what they were told before, is a Forget of BuildOnce.
LEMMA ForgetStep ==
    ASSUME NEW C \in SUBSET Callers,
           UNCHANGED owner, Outcome' = Outcome,
           \A d \in Callers : ToldTo(d)' = IF d \in C THEN Nothing ELSE ToldTo(d)
    PROVE  BO!Next
<1>1. Told' = [d \in Callers |-> IF d \in C THEN Nothing ELSE Told[d]]
  BY DEF Told
<1>2. BO!Forget(C)
  BY <1>1, NothingMaps DEF BO!Forget, Told, Outcome
<1>3. QED
  BY <1>2 DEF BO!Next

\* An answer other than files or a failure tells nothing.
LEMMA ToldNothing ==
    ASSUME NEW c \in Callers, cancelled \/ reply[c].kind \notin {"files", "failed"}
    PROVE  ToldTo(c) = Nothing
BY DEF ToldTo, Nothing

\* Steps that publish nothing and give c an answer that tells nothing.
LEMMA QuietStep ==
    ASSUME IInv, NEW c \in Callers, NEW k, NEW ans,
           UNCHANGED <<owner, done, files, error, cancelled>>,
           key' = [key EXCEPT ![c] = k],
           reply' = [reply EXCEPT ![c] = ans],
           ans.kind \notin {"files", "failed"}
    PROVE  BO!Next
<1>1. reply \in [Callers -> [kind : Kinds, files : FileMap]]
      /\ key \in [Callers -> Keys \cup {NoKey}]
  BY DEF IInv, TypeOK
<1>2. ToldTo(c)' = Nothing
  <2>1. reply'[c].kind \notin {"files", "failed"}
    BY <1>1
  <2>2. QED
    BY <2>1 DEF ToldTo, Nothing
<1>3. ASSUME NEW d \in Callers, d # c PROVE ToldTo(d)' = ToldTo(d)
  BY <1>1, <1>3, SameTold
<1>4. Outcome' = Outcome
  BY SameOutcome DEF Outcome
<1>5. QED
  BY <1>2, <1>3, <1>4, ForgetStep, {c} \in SUBSET Callers

\* Steps that answer nobody and close no done channel: what was published stays.
LEMMA SilentStep ==
    ASSUME IInv, [Next]_vars, UNCHANGED <<owner, done, key, reply, cancelled>>
    PROVE  UNCHANGED <<owner, Outcome, Told>>
<1>1. ASSUME NEW k \in Keys PROVE OutcomeOf(k)' = OutcomeOf(k)
  <2>1. CASE k \in done
    BY <2>1, PublishedStep, SameOutcome
  <2>2. CASE k \notin done
    BY <2>2 DEF OutcomeOf
  <2>3. QED
    BY <2>1, <2>2
<1>2. ASSUME NEW c \in Callers PROVE ToldTo(c)' = ToldTo(c)
  BY SameTold
<1>3. QED
  BY <1>1, <1>2 DEF Outcome, Told

\* LoadOrStore claims the key, and the answer to an earlier request is forgotten.
LEMMA StartOriginalClaims ==
    ASSUME IInv, NEW c \in Callers, NEW k \in Keys, StartOriginal(c, k)
    PROVE  BO!Next
<1>1. reply \in [Callers -> [kind : Kinds, files : FileMap]]
      /\ key \in [Callers -> Keys \cup {NoKey}]
  BY DEF IInv, TypeOK
<1>2. /\ reply' = [reply EXCEPT ![c] = NoAnswer]
      /\ key' = [key EXCEPT ![c] = k]
      /\ owner[k] = NoCaller /\ owner' = [owner EXCEPT ![k] = c]
      /\ UNCHANGED <<done, files, error, cancelled>>
  BY DEF StartOriginal, Call, Stored, serverVars
<1>3. Outcome' = Outcome
  BY <1>2, SameOutcome DEF Outcome
<1>4. ToldTo(c)' = Nothing
  <2>1. reply'[c].kind = "none"
    BY <1>1, <1>2 DEF NoAnswer, Answer
  <2>2. QED
    BY <2>1 DEF ToldTo, Nothing
<1>5. ASSUME NEW d \in Callers, d # c PROVE ToldTo(d)' = ToldTo(d)
  BY <1>1, <1>2, <1>5, SameTold
<1>6. BO!Claim(c, k)
  BY <1>2, <1>3 DEF BO!Claim, Outcome
<1>7. Told' = [d \in Callers |-> IF d \in {c} THEN Nothing ELSE Told[d]]
  BY <1>4, <1>5 DEF Told
<1>8. BO!Forget({c})
  BY <1>6, <1>7, NothingMaps DEF BO!Forget, Told
<1>9. QED
  BY <1>8 DEF BO!Next

\* Closing done publishes the outcome of the key.
LEMMA CloseDonePublishes ==
    ASSUME IInv, NEW c \in Callers, CloseDone(c)
    PROVE  BO!Next
<1> PICK k : k = key[c]
  OBVIOUS
<1>1. /\ k \in Keys /\ Stored(k) /\ k \notin done /\ Settled(k)
      /\ files[k] \in FileMap
  BY DEF IInv, TypeOK, HandlerInv, FinishInv, CloseDone, Finishing
<1>2. /\ done' = done \cup {k}
      /\ UNCHANGED <<owner, files, error, key, reply, cancelled>>
  BY DEF CloseDone, Goto, serverVars
<1>3. Told' = Told
  BY <1>2, SameTold DEF Told
<1>4. OutcomeOf(k) = BO!Pending
  BY <1>1 DEF OutcomeOf, BO!Pending
<1>5. OutcomeOf(k)' \in BO!Outcomes
  BY <1>1, <1>2 DEF OutcomeOf, Settled, BO!Outcomes, BO!Failed, BO!Built
<1>6. ASSUME NEW x \in Keys, x # k PROVE OutcomeOf(x)' = OutcomeOf(x)
  BY <1>2, <1>6, SameOutcome
<1>7. Outcome' = [Outcome EXCEPT ![k] = OutcomeOf(k)']
  BY <1>1, <1>6 DEF Outcome
<1>8. BO!Publish(k, OutcomeOf(k)')
  BY <1>1, <1>2, <1>3, <1>4, <1>7 DEF BO!Publish, Stored, Outcome, Told
<1>9. QED
  BY <1>1, <1>5, <1>8 DEF BO!Next

\* A re-user learns what was published, unless the context was cancelled.
LEMMA AwaitDoneLearns ==
    ASSUME IInv, NEW c \in Callers, AwaitDone(c)
    PROVE  [BO!Next]_(BO!vars)
<1> DEFINE k == key[c]
<1>1. /\ k \in Keys
      /\ UNCHANGED <<owner, done, files, error, key, cancelled>>
      /\ reply' = [reply EXCEPT ![c] = ReusedAnswer(k)]
      /\ k \in done \/ cancelled
      /\ reply \in [Callers -> [kind : Kinds, files : FileMap]]
  BY DEF IInv, TypeOK, HandlerInv, AwaitDone, Respond, DoneClosed, buildVars, serverVars
<1>2. Outcome' = Outcome
  BY <1>1, SameOutcome DEF Outcome
<1>3. ASSUME NEW d \in Callers, d # c PROVE ToldTo(d)' = ToldTo(d)
  BY <1>1, <1>3, SameTold
<1>4. CASE cancelled
  <2>1. ToldTo(c)' = ToldTo(c)
    BY <1>1, <1>4 DEF ToldTo
  <2>2. Told' = Told
    BY <1>3, <2>1 DEF Told
  <2>3. QED
    BY <1>1, <1>2, <2>2, StutterMaps
<1>5. CASE ~cancelled
  <2>1. k \in done /\ Settled(k)
    BY <1>1, <1>5 DEF IInv, KeyInv
  <2>2. reply'[c] = ReusedAnswer(k)
    BY <1>1
  <2>3. ToldTo(c)' = [key |-> k, outcome |-> OutcomeOf(k)]
    BY <1>1, <1>5, <2>1, <2>2 DEF ToldTo, ReusedAnswer, Answer, OutcomeOf, Settled
  <2>4. OutcomeOf(k) # BO!Pending
    BY <2>1 DEF OutcomeOf, BO!Pending
  <2>5. Told' = [Told EXCEPT ![c] = [key |-> k, outcome |-> Outcome[k]]]
    BY <1>1, <1>3, <2>3 DEF Told, Outcome
  <2>6. BO!Learn(c, k)
    BY <1>1, <1>2, <2>4, <2>5 DEF BO!Learn, Outcome, Told
  <2>7. QED
    BY <1>1, <2>6 DEF BO!Next
<1>6. QED
  BY <1>4, <1>5

\* Nothing is promised to anybody once the context ended.
LEMMA CancelContextForgets ==
    ASSUME IInv, CancelContext
    PROVE  BO!Next
<1>1. cancelled' /\ UNCHANGED <<owner, done, files, error, key, reply>>
  BY DEF CancelContext, buildVars, callVars
<1>2. Outcome' = Outcome
  BY <1>1, SameOutcome DEF Outcome
<1>3. ASSUME NEW d \in Callers PROVE ToldTo(d)' = Nothing
  BY <1>1 DEF ToldTo, Nothing
<1>4. QED
  BY <1>1, <1>2, <1>3, ForgetStep, Callers \in SUBSET Callers
-----------------------------------------------------------------------------
LEMMA InitMaps == Init => BO!Init
<1> SUFFICES ASSUME Init PROVE BO!Init
  OBVIOUS
<1>1. Outcome = [k \in Keys |-> BO!Pending]
  BY DEF Init, Outcome, OutcomeOf, BO!Pending
<1>2. Told = [c \in Callers |-> Nothing]
  BY DEF Init, Told, ToldTo, Nothing, NoAnswer, Answer
<1>3. QED
  BY <1>1, <1>2, NothingMaps DEF Init, BO!Init, Outcome, Told

LEMMA RequestMaps ==
    ASSUME IInv, NEW c \in Callers, Request(c)
    PROVE  BO!Next
<1>1. ASSUME NEW k, Reject(c, k) PROVE BO!Next
  BY <1>1, QuietStep DEF Reject, Answer, buildVars, serverVars
<1>2. ASSUME NEW k \in Keys \cup {NoKey}, Start(c, k) PROVE BO!Next
  <2>1. ASSUME StartReused(c, k) PROVE BO!Next
    BY <2>1, QuietStep DEF StartReused, Call, NoAnswer, Answer, buildVars, serverVars
  <2>2. QED
    BY <1>1, <1>2, <2>1, StartOriginalClaims DEF Start
<1>3. ASSUME NEW k \in Keys \cup {NoKey}, NEW token \in Keys \cup {NoKey, BadToken},
             NEW r \in Reports, Finish(c, k, token, r)
      PROVE  BO!Next
  <2>1. CASE FinishRejected(c, k, token)
    BY <1>1, <2>1 DEF FinishRejected
  <2>2. CASE FinishAgain(c, k, token)
    BY <2>2, QuietStep DEF FinishAgain, Answer, buildVars, serverVars
  <2>3. CASE FinishFirst(c, k, token, r)
    BY <2>3, QuietStep DEF FinishFirst, Call, NoAnswer, Answer, serverVars
  <2>4. QED
    BY <1>3, <2>1, <2>2, <2>3 DEF Finish
<1>4. QED
  BY <1>2, <1>3 DEF Request

LEMMA HandleMaps ==
    ASSUME IInv, NEW c \in Callers, Handle(c)
    PROVE  [BO!Next]_(BO!vars)
<1>1. key = [key EXCEPT ![c] = key[c]]
  BY DEF IInv, TypeOK
<1>2. ASSUME UNCHANGED <<owner, done, key, reply, cancelled>>
      PROVE  [BO!Next]_(BO!vars)
  <2>1. Next
    BY DEF Next
  <2>2. QED
    BY <1>2, <2>1, SilentStep, StutterMaps
<1>3. CASE InitBuild(c)
  <2>1. CASE pc[c] = "init"
    <3>1. InitBuild(c) /\ Respond(c, Answer("token", NoFiles))
      BY <1>3, <2>1 DEF InitBuild
    <3>2. UNCHANGED <<owner, done, files, error, cancelled>>
      BY <1>3 DEF InitBuild, serverVars
    <3>3. QED
      BY <1>1, <3>1, <3>2, QuietStep DEF Respond, Answer
  <2>2. CASE pc[c] = "initReused"
    BY <1>2, <1>3, <2>2 DEF InitBuild, Goto, serverVars
  <2>3. QED
    BY <1>3, <2>1, <2>2 DEF InitBuild
<1>4. CASE AwaitDone(c)
  BY <1>4, AwaitDoneLearns
<1>5. CASE RecordFailure(c) \/ RecordNothing(c) \/ MakeDirFails(c) \/ CopyFileFails(c)
  BY <1>2, <1>5 DEF RecordFailure, RecordNothing, MakeDirFails, CopyFileFails,
     Abandon, Goto, serverVars
<1>6. CASE MakeDir(c) \/ \E l \in Labels : CopyFile(c, l)
  BY <1>2, <1>6 DEF MakeDir, CopyFile, Goto, serverVars
<1>7. CASE CloseDone(c)
  BY <1>7, CloseDonePublishes
<1>8. CASE FinishResponds(c)
  <2>1. FinishAnswer(key[c]).kind \notin {"files", "failed"}
    BY DEF FinishAnswer, Answer
  <2>2. /\ UNCHANGED <<owner, done, files, error, cancelled, key>>
        /\ reply' = [reply EXCEPT ![c] = FinishAnswer(key[c])]
    BY <1>8 DEF FinishResponds, Respond, buildVars, serverVars
  <2>3. QED
    BY <1>1, <2>1, <2>2, QuietStep
<1>9. CASE ConnectionLost(c)
  <2>1. Answer("lost", NoFiles).kind \notin {"files", "failed"}
    BY DEF Answer
  <2>2. /\ UNCHANGED <<owner, done, files, error, cancelled, key>>
        /\ reply' = [reply EXCEPT ![c] = Answer("lost", NoFiles)]
    BY <1>9 DEF ConnectionLost, Respond, buildVars, serverVars
  <2>3. QED
    BY <1>1, <2>1, <2>2, QuietStep
<1>10. QED
  BY <1>3, <1>4, <1>5, <1>6, <1>7, <1>8, <1>9 DEF Handle

LEMMA StepMaps == IInv /\ [Next]_vars => [BO!Next]_(BO!vars)
<1> SUFFICES ASSUME IInv, [Next]_vars PROVE [BO!Next]_(BO!vars)
  OBVIOUS
<1>1. CASE Shutdown \/ UNCHANGED vars
  <2>1. UNCHANGED <<owner, done, files, error, key, reply, cancelled>>
    BY <1>1 DEF Shutdown, vars, buildVars, callVars, serverVars
  <2>2. UNCHANGED <<owner, Outcome, Told>>
    BY <2>1, SilentStep
  <2>3. QED
    BY <2>2, StutterMaps
<1>2. CASE \E c \in Callers : Request(c) \/ Handle(c)
  BY <1>2, RequestMaps, HandleMaps
<1>3. CASE CancelContext
  BY <1>3, CancelContextForgets
<1>4. QED
  BY <1>1, <1>2, <1>3 DEF Next

\* Whatever is sent and however handlers interleave, the service claims every
\* key once, publishes one outcome for it, and tells callers nothing else.
THEOREM Refinement == Spec => ImplementsBuildOnce
<1>1. QED
  BY InitMaps, StepMaps, Invariance, PTL DEF Spec, ImplementsBuildOnce, BO!Spec

-----------------------------------------------------------------------------
\* Processes are callers

LEMMA ReportType ==
  ASSUME TTypeOK, NEW p \in Procs
  PROVE  ReportOf(p) \in Reports
<1> DEFINE f == [l \in Outputs[p] |-> IF l \in DOMAIN out[p] THEN out[p][l] ELSE Absent]
<1>1. Outputs[p] \in SUBSET Labels
  BY ToolexecAssumption
<1>2. out[p] \in FileMap
  BY DEF TTypeOK
<1>3. \A l \in DOMAIN out[p] : out[p][l] \in Content
  BY <1>2, FileMapElim
<1>4. f \in [Outputs[p] -> Content \cup {Absent}]
  BY <1>3
<1>5. f \in ReportedFiles
  BY <1>1, <1>4 DEF ReportedFiles
<1>6. ReportOf(p) \in {ReportError, Report(f)}
  BY DEF ReportOf
<1> QED BY <1>5, <1>6 DEF Reports

\* All but two of the steps of a process are its own.
Silent(p) ==
  \/ ParseUntracked(p) \/ NoServer(p)
  \/ ReceiveToken(p) \/ ReceiveFiles(p) \/ ReceiveError(p)
  \/ ReadImports(p) \/ ReadImportsFails(p)
  \/ (\E l \in Labels : ReuseFile(p, l)) \/ ReuseFails(p) \/ ReuseDone(p)
  \/ WeaveFails(p) \/ WeavePanics(p) \/ Compile(p) \/ CompileFails(p)
  \/ Attach(p) \/ AttachFails(p)
  \/ NotifySkipped(p) \/ NotifyFails(p) \/ ReceiveFinished(p)

LEMMA RunSplits ==
  ASSUME NEW p \in Procs, Run(p)
  PROVE  Silent(p) \/ SendStart(p) \/ SendFinish(p)
BY Zenon DEF Run, Silent

LEMMA SilentIsSilent ==
  ASSUME NEW p \in Procs, Silent(p)
  PROVE  UNCHANGED vars
<1>1. CASE \/ ParseUntracked(p) \/ NoServer(p) \/ ReceiveToken(p) \/ ReceiveFiles(p)
           \/ ReceiveError(p) \/ ReadImports(p) \/ ReadImportsFails(p)
  BY <1>1 DEF ParseUntracked, NoServer, ReceiveToken, ReceiveFiles, ReceiveError,
              ReadImports, ReadImportsFails
<1>2. CASE \/ (\E l \in Labels : ReuseFile(p, l)) \/ ReuseFails(p) \/ ReuseDone(p)
           \/ WeaveFails(p) \/ WeavePanics(p) \/ Compile(p) \/ CompileFails(p)
  BY <1>2 DEF ReuseFile, ReuseFails, ReuseDone, WeaveFails, WeavePanics, Compile, CompileFails
<1>3. CASE Attach(p) \/ AttachFails(p) \/ NotifySkipped(p) \/ NotifyFails(p)
           \/ ReceiveFinished(p)
  BY <1>3 DEF Attach, AttachFails, NotifySkipped, NotifyFails, ReceiveFinished
<1> QED BY <1>1, <1>2, <1>3 DEF Silent

LEMMA RequestsAreRequests ==
  ASSUME TTypeOK, NEW p \in Procs, SendStart(p) \/ SendFinish(p)
  PROVE  Request(p)
<1>1. KeyOf[p] \in Keys
  BY ToolexecAssumption
<1>2. CASE SendStart(p)
  BY <1>1, <1>2 DEF SendStart, Request
<1>3. CASE SendFinish(p)
  BY <1>1, <1>3, ReportType DEF SendFinish, Request
<1> QED BY <1>2, <1>3

\* Every step of the composition is one of the service, or leaves it alone.
LEMMA StepsAreNext ==
  ASSUME TTypeOK, [TNext]_tvars
  PROVE  [Next]_vars
<1>1. CASE UNCHANGED tvars
  BY <1>1 DEF tvars
<1>2. ASSUME NEW p \in Procs, Run(p)
      PROVE  [Next]_vars
  <2>1. CASE Silent(p)
    BY <2>1, SilentIsSilent
  <2>2. CASE SendStart(p) \/ SendFinish(p)
    BY <2>2, RequestsAreRequests DEF Next, Procs
  <2> QED BY <1>2, <2>1, <2>2, RunSplits
<1>3. ASSUME NEW p \in Procs, Serve(p)
      PROVE  Next
  BY <1>3 DEF Serve, Next, Procs
<1>4. ASSUME NEW p \in Procs, Kill(p)
      PROVE  UNCHANGED vars
  BY <1>4 DEF Kill
<1>5. CASE Shutdown /\ UNCHANGED procVars
  BY <1>5 DEF Next
<1> QED BY <1>1, <1>2, <1>3, <1>4, <1>5 DEF TNext

-----------------------------------------------------------------------------
\* Types

LEMMA SilentTypes ==
  ASSUME TTypeOK, NEW p \in Procs, Silent(p)
  PROVE  /\ stage' \in [Procs -> Stages]
         /\ result' \in [Procs -> {"ok", "failed", "panic"}]
         /\ compiled' \subseteq Procs
         /\ out' \in [Procs -> FileMap]
<1> USE DEF TTypeOK, Step, Fail, Stages
<1>1. CASE ParseUntracked(p) \/ NoServer(p)
  BY <1>1 DEF ParseUntracked, NoServer
<1>2. CASE ReceiveToken(p) \/ ReceiveFiles(p) \/ ReceiveError(p)
  BY <1>2 DEF ReceiveToken, ReceiveFiles, ReceiveError
<1>3. CASE ReadImports(p) \/ ReadImportsFails(p)
  BY <1>3 DEF ReadImports, ReadImportsFails
<1>4. ASSUME NEW l \in Labels, ReuseFile(p, l)
      PROVE  /\ UNCHANGED <<stage, result, compiled>>
             /\ out' \in [Procs -> FileMap]
  <2>1. reply[p].files \in FileMap
    BY DEF TypeOK, Procs
  <2>2. reply[p].files[l] \in Content
    BY <1>4, <2>1, FileMapElim DEF ReuseFile
  <2>3. out[p] \in FileMap
    OBVIOUS
  <2>4. Put(out[p], l, reply[p].files[l]) \in FileMap
    BY <2>2, <2>3, PutType
  <2> QED BY <1>4, <2>4 DEF ReuseFile
<1>5. CASE ReuseFails(p) \/ ReuseDone(p)
  BY <1>5 DEF ReuseFails, ReuseDone
<1>6. CASE WeaveFails(p) \/ WeavePanics(p) \/ CompileFails(p)
  BY <1>6 DEF WeaveFails, WeavePanics, CompileFails
<1>7. CASE Compile(p)
  <2>1. [by |-> p, linkdeps |-> FALSE] \in Content
    BY ToolexecAssumption DEF Artifact
  <2>2. Outputs[p] \in SUBSET Labels
    BY ToolexecAssumption
  <2>3. [l \in Outputs[p] |-> [by |-> p, linkdeps |-> FALSE]] \in FileMap
    BY <2>1, <2>2, FileMapIntro
  <2> QED BY <1>7, <2>3 DEF Compile
<1>8. CASE Attach(p)
  <2>1. out[p] \in FileMap
    OBVIOUS
  <2>2. DOMAIN out[p] \in SUBSET Labels /\ \A l \in DOMAIN out[p] : out[p][l] \in Artifact
    BY <2>1, FileMapElim, ToolexecAssumption
  <2>3. \A a \in Artifact : [a EXCEPT !.linkdeps = TRUE] \in Artifact
    BY DEF Artifact
  <2>4. WithLinkDeps(out[p]) \in [DOMAIN out[p] -> Content]
    BY <2>2, <2>3, ToolexecAssumption DEF WithLinkDeps
  <2>5. WithLinkDeps(out[p]) \in FileMap
    BY <2>2, <2>4, FileMapIntro
  <2> QED BY <1>8, <2>5 DEF Attach
<1>9. CASE AttachFails(p)
  BY <1>9 DEF AttachFails
<1>10. CASE NotifySkipped(p) \/ NotifyFails(p) \/ ReceiveFinished(p)
  BY <1>10 DEF NotifySkipped, NotifyFails, ReceiveFinished, Exit
<1> QED BY <1>1, <1>2, <1>3, <1>4, <1>5, <1>6, <1>7, <1>8, <1>9, <1>10 DEF Silent

LEMMA TypesStep ==
  ASSUME IInv, TTypeOK, [TNext]_tvars
  PROVE  IInv' /\ TTypeOK'
<1>1. IInv'
  BY StepsAreNext, NextInv
<1>2. TypeOK'
  BY <1>1 DEF IInv
<1>3. CASE UNCHANGED procVars
  BY <1>1, <1>2, <1>3 DEF TTypeOK, procVars
<1>4. ASSUME NEW p \in Procs, Silent(p)
      PROVE  TTypeOK'
  BY <1>2, <1>4, SilentTypes DEF TTypeOK
<1>5. ASSUME NEW p \in Procs, SendStart(p) \/ SendFinish(p)
      PROVE  TTypeOK'
  BY <1>2, <1>5 DEF TTypeOK, SendStart, SendFinish, Step, Stages
<1>6. ASSUME NEW p \in Procs, Kill(p)
      PROVE  TTypeOK'
  BY <1>2, <1>6 DEF TTypeOK, Kill, Stages
<1> QED BY <1>1, <1>3, <1>4, <1>5, <1>6, RunSplits DEF TNext, tvars, Serve, procVars

-----------------------------------------------------------------------------
\* Owners

LEMMA OwnersStay ==
  ASSUME TypeOK, [Next]_vars, NEW k \in Keys, owner[k] # NoCaller
  PROVE  owner'[k] = owner[k]
<1>1. ASSUME NEW c \in Callers, NEW j \in Keys \cup {NoKey}, Start(c, j)
      PROVE  owner'[k] = owner[k]
  BY <1>1 DEF TypeOK, Start, Reject, StartOriginal, StartReused, Stored, buildVars
<1>2. ASSUME NEW c \in Callers, NEW j, NEW token, NEW r, Finish(c, j, token, r)
      PROVE  owner' = owner
  BY <1>2 DEF Finish, FinishRejected, FinishAgain, FinishFirst, Reject, buildVars
<1>3. ASSUME NEW c \in Callers, Handle(c)
      PROVE  owner' = owner
  BY <1>3 DEF Handle, InitBuild, AwaitDone, RecordFailure, RecordNothing, MakeDir,
              MakeDirFails, CopyFile, CopyFileFails, CloseDone, FinishResponds,
              ConnectionLost, Abandon, buildVars
<1>4. CASE CancelContext \/ Shutdown \/ UNCHANGED vars
  BY <1>4 DEF CancelContext, Shutdown, vars, buildVars
<1> QED BY <1>1, <1>2, <1>3, <1>4 DEF Next, Request

LEMMA HandlersKeepKeys ==
  ASSUME NEW c \in Callers, Handle(c)
  PROVE  key' = key
BY DEF Handle, InitBuild, AwaitDone, RecordFailure, RecordNothing, MakeDir, Respond,
       MakeDirFails, CopyFile, CopyFileFails, CloseDone, FinishResponds, ConnectionLost,
       Abandon

\* A process gets past "starting" with the token of its key, or not at all.
LEMMA OwnerStep ==
  ASSUME TInv, [TNext]_tvars
  PROVE  OwnerInv'
<1> DEFINE Owns(q) == q \in Tracked /\ (stage[q] \in {"imports", "weave"} \/ q \in compiled)
<1>1. \A q \in Procs : owner[KeyOf[q]] = q => owner'[KeyOf[q]] = q
  <2> TAKE q \in Procs
  <2>1. KeyOf[q] \in Keys /\ q # NoCaller
    BY ToolexecAssumption, ConstantsAssumption DEF Procs
  <2> QED BY <2>1, OwnersStay, StepsAreNext DEF TInv, TTypeOK
<1>2. TTypeOK
  BY DEF TInv
<1>3. ASSUME key' = key, \A q \in Procs : stage'[q] = "starting" => stage[q] = "starting",
             \A q \in Procs : Owns(q)' => Owns(q) \/ owner[KeyOf[q]] = q
      PROVE  OwnerInv'
  BY <1>1, <1>3 DEF OwnerInv, TInv
<1>4. CASE UNCHANGED <<procVars, key>>
  BY <1>3, <1>4 DEF procVars
<1>5. ASSUME NEW p \in Procs, Silent(p)
      PROVE  OwnerInv'
  <2>1. key' = key
    BY <1>5, SilentIsSilent DEF vars, callVars
  <2>2. stage' = stage \/ \E s \in Stages \ {"starting"} : stage' = [stage EXCEPT ![p] = s]
    BY <1>5 DEF Silent, ParseUntracked, NoServer, ReceiveToken, ReceiveFiles, ReceiveError,
                ReadImports, ReadImportsFails, ReuseFile, ReuseFails, ReuseDone, WeaveFails,
                WeavePanics, Compile, CompileFails, Attach, AttachFails, NotifySkipped,
                NotifyFails, ReceiveFinished, Exit, Step, Stages
  <2>3. \A q \in Procs : stage'[q] = "starting" => stage[q] = "starting"
    BY <1>2, <2>2 DEF TTypeOK
  <2>4. CASE ParseUntracked(p)
    <3>1. \A q \in Procs : Owns(q)' => Owns(q)
      BY <1>2, <2>4 DEF ParseUntracked, Step, TTypeOK
    <3> QED BY <1>3, <2>1, <2>3, <3>1
  <2>5. CASE ReceiveToken(p)
    <3>1. owner[KeyOf[p]] = p
      BY <2>5 DEF ReceiveToken, Step, At, TInv, OwnerInv, IInv, AnswerInv, Procs
    <3>2. \A q \in Procs : Owns(q)' => Owns(q) \/ owner[KeyOf[q]] = q
      BY <1>2, <2>5, <3>1 DEF ReceiveToken, Step, TTypeOK
    <3> QED BY <1>3, <2>1, <2>3, <3>2
  <2>6. CASE Compile(p) \/ CompileFails(p)
    <3>1. \A q \in Procs : Owns(q)' => Owns(q)
      BY <1>2, <2>6 DEF Compile, CompileFails, Step, At, TTypeOK
    <3> QED BY <1>3, <2>1, <2>3, <3>1
  <2>7. CASE ReadImports(p)
    <3>1. \A q \in Procs : Owns(q)' => Owns(q)
      BY <1>2, <2>7 DEF ReadImports, Step, At, TTypeOK
    <3> QED BY <1>3, <2>1, <2>3, <3>1
  <2>8. CASE ~ (ParseUntracked(p) \/ ReceiveToken(p) \/ Compile(p) \/ CompileFails(p)
                   \/ ReadImports(p))
    <3>1. /\ compiled' = compiled
          /\ stage' = stage \/ \E s \in Stages \ {"imports", "weave"} :
                                    stage' = [stage EXCEPT ![p] = s]
      BY <1>5, <2>8 DEF Silent, NoServer, ReceiveFiles, ReceiveError, ReadImportsFails,
                ReuseFile, ReuseFails, ReuseDone, WeaveFails, WeavePanics, Attach,
                AttachFails, NotifySkipped, NotifyFails, ReceiveFinished, Exit, Step, Stages
    <3>2. \A q \in Procs : Owns(q)' => Owns(q)
      BY <1>2, <3>1 DEF TTypeOK
    <3> QED BY <1>3, <2>1, <2>3, <3>2
  <2> QED BY <2>4, <2>5, <2>6, <2>7, <2>8
<1>6. ASSUME NEW p \in Procs, SendStart(p)
      PROVE  OwnerInv'
  <2>1. KeyOf[p] \in Keys
    BY ToolexecAssumption
  <2>2. key' = [key EXCEPT ![p] = KeyOf[p]]
    BY <1>6, <2>1, ConstantsAssumption
       DEF SendStart, Start, Reject, StartOriginal, StartReused, Call
  <2>3. stage' = [stage EXCEPT ![p] = "starting"] /\ compiled' = compiled
    BY <1>6 DEF SendStart, Step
  <2>4. \A q \in Procs : stage'[q] = "starting" => key'[q] = KeyOf[q]
    BY <1>2, <2>2, <2>3 DEF TInv, OwnerInv, TTypeOK, TypeOK, Procs
  <2>5. \A q \in Procs : Owns(q)' => Owns(q)
    BY <1>2, <2>3 DEF TTypeOK
  <2> QED BY <1>1, <2>4, <2>5 DEF OwnerInv, TInv
<1>7. ASSUME NEW p \in Procs, SendFinish(p)
      PROVE  OwnerInv'
  <2>1. \A q \in Procs \ {p} : key'[q] = key[q]
    BY <1>2, <1>7 DEF SendFinish, Finish, FinishRejected, FinishAgain, FinishFirst, Reject,
                      Call, TTypeOK, TypeOK, Procs
  <2>2. stage' = [stage EXCEPT ![p] = "finishing"] /\ compiled' = compiled
    BY <1>7 DEF SendFinish, Step
  <2>3. \A q \in Procs : stage'[q] = "starting" => key'[q] = KeyOf[q]
    BY <1>2, <2>1, <2>2 DEF TInv, OwnerInv, TTypeOK
  <2>4. \A q \in Procs : Owns(q)' => Owns(q)
    BY <1>2, <2>2 DEF TTypeOK
  <2> QED BY <1>1, <2>3, <2>4 DEF OwnerInv, TInv
<1>8. ASSUME NEW p \in Procs, Kill(p)
      PROVE  OwnerInv'
  <2>1. /\ stage' = [stage EXCEPT ![p] = "killed"] /\ compiled' = compiled
        /\ key' = key
    BY <1>8 DEF Kill, vars, callVars
  <2>2. \A q \in Procs : Owns(q)' => Owns(q)
    BY <1>2, <2>1 DEF TTypeOK
  <2>3. \A q \in Procs : stage'[q] = "starting" => stage[q] = "starting"
    BY <1>2, <2>1 DEF TTypeOK
  <2> QED BY <1>3, <2>1, <2>2, <2>3
<1>9. ASSUME NEW p \in Procs, Serve(p)
      PROVE  OwnerInv'
  BY <1>4, <1>9, HandlersKeepKeys DEF Serve, Procs
<1>10. CASE (Shutdown /\ UNCHANGED procVars) \/ UNCHANGED tvars
  BY <1>4, <1>10 DEF Shutdown, callVars, tvars, vars
<1> QED BY <1>5, <1>6, <1>7, <1>8, <1>9, <1>10, RunSplits DEF TNext

-----------------------------------------------------------------------------
\* Outputs

\* What a step does to the files of p, if no file is lost.
LEMMA OutputsGrow ==
  ASSUME TTypeOK, OutputInv, NEW p \in Procs,
         NEW s \in Stages, NEW r \in {"ok", "failed", "panic"}, NEW f,
         stage' = [stage EXCEPT ![p] = s], result' = [result EXCEPT ![p] = r],
         out' = [out EXCEPT ![p] = f],
         DOMAIN f \subseteq Outputs[p],
         s \in {"close", "notify", "finishing", "exited"} /\ r = "ok" => DOMAIN f = Outputs[p]
  PROVE  OutputInv'
BY DEF TTypeOK, OutputInv

LEMMA SilentOutputs ==
  ASSUME TTypeOK, OutputInv, NEW p \in Procs, Silent(p)
  PROVE  OutputInv'
<1> USE DEF TTypeOK
<1>1. /\ stage = [stage EXCEPT ![p] = @] /\ result = [result EXCEPT ![p] = @]
      /\ out = [out EXCEPT ![p] = @]
  OBVIOUS
<1>2. /\ DOMAIN out[p] \subseteq Outputs[p] /\ stage[p] \in Stages
      /\ result[p] \in {"ok", "failed", "panic"}
  BY DEF OutputInv
<1>3. CASE \/ NoServer(p) \/ ReceiveError(p) \/ ReadImportsFails(p) \/ ReuseFails(p)
           \/ WeaveFails(p) \/ CompileFails(p) \/ AttachFails(p)
  <2>1. PICK s \in Stages : stage' = [stage EXCEPT ![p] = s]
    BY <1>3 DEF NoServer, ReceiveError, ReadImportsFails, ReuseFails, WeaveFails,
                CompileFails, AttachFails, Step, Stages
  <2>2. result' = [result EXCEPT ![p] = "failed"] /\ out' = out
    BY <1>3 DEF NoServer, ReceiveError, ReadImportsFails, ReuseFails, WeaveFails,
                CompileFails, AttachFails, Fail
  <2> QED BY <1>1, <1>2, <2>1, <2>2, OutputsGrow
<1>4. CASE ParseUntracked(p) \/ ReceiveToken(p) \/ ReceiveFiles(p) \/ ReadImports(p)
  <2>1. PICK s \in Stages \ {"close", "notify", "finishing", "exited"} :
            stage' = [stage EXCEPT ![p] = s]
    BY <1>4 DEF ParseUntracked, ReceiveToken, ReceiveFiles, ReadImports, Step, Stages
  <2>2. result' = result /\ out' = out
    BY <1>4 DEF ParseUntracked, ReceiveToken, ReceiveFiles, ReadImports
  <2> QED BY <1>1, <1>2, <2>1, <2>2, OutputsGrow
<1>5. ASSUME NEW l \in Labels, ReuseFile(p, l)
      PROVE  OutputInv'
  <2> DEFINE f == Put(out[p], l, reply[p].files[l])
  <2>1. out' = [out EXCEPT ![p] = f] /\ UNCHANGED <<stage, result>>
    BY <1>5 DEF ReuseFile
  <2>2. l \in Outputs[p] /\ stage[p] = "reuse"
    BY <1>5 DEF ReuseFile, Missing, At
  <2>3. DOMAIN f \subseteq Outputs[p]
    BY <1>2, <2>2 DEF Put
  <2> HIDE DEF f
  <2>4. /\ stage' = [stage EXCEPT ![p] = "reuse"] /\ "reuse" \in Stages
        /\ result' = [result EXCEPT ![p] = result[p]]
    BY <1>1, <2>1, <2>2 DEF Stages
  <2>5. "reuse" \notin {"close", "notify", "finishing", "exited"}
    OBVIOUS
  <2>6. out' = [out EXCEPT ![p] = f]
    BY <2>1
  <2> HIDE DEF TTypeOK
  <2> QED BY <1>2, <2>3, <2>4, <2>5, <2>6, OutputsGrow
<1>6. CASE ReuseDone(p)
  <2>1. DOMAIN out[p] = Outputs[p]
    BY <1>2, <1>6 DEF ReuseDone, Missing
  <2>2. /\ stage' = [stage EXCEPT ![p] = "exited"] /\ result' = result /\ out' = out
        /\ "exited" \in Stages
    BY <1>6 DEF ReuseDone, Step, Stages
  <2> QED BY <1>1, <1>2, <2>1, <2>2, OutputsGrow
<1>7. CASE WeavePanics(p)
  <2>1. /\ stage' = [stage EXCEPT ![p] = "close"] /\ result' = [result EXCEPT ![p] = "panic"]
        /\ out' = out /\ "close" \in Stages
    BY <1>7 DEF WeavePanics, Step, Stages
  <2> QED BY <1>1, <1>2, <2>1, OutputsGrow
<1>8. CASE Compile(p)
  <2> DEFINE f == [l \in Outputs[p] |-> [by |-> p, linkdeps |-> FALSE]]
  <2>1. /\ stage' = [stage EXCEPT ![p] = "close"] /\ result' = result
        /\ out' = [out EXCEPT ![p] = f] /\ "close" \in Stages
    BY <1>8 DEF Compile, Step, Stages
  <2>2. DOMAIN f = Outputs[p]
    OBVIOUS
  <2> HIDE DEF f
  <2> QED BY <1>1, <1>2, <2>1, <2>2, OutputsGrow
<1>9. CASE Attach(p)
  <2>1. /\ stage[p] = "close" /\ stage' = [stage EXCEPT ![p] = "notify"]
        /\ result' = result /\ "notify" \in Stages
    BY <1>9 DEF Attach, Step, At, Stages
  <2>2. PICK f : out' = [out EXCEPT ![p] = f] /\ DOMAIN f = DOMAIN out[p]
    BY <1>1, <1>9 DEF Attach, WithLinkDeps
  <2>3. result[p] = "ok" => DOMAIN out[p] = Outputs[p]
    BY <2>1 DEF OutputInv
  <2> QED BY <1>1, <1>2, <2>1, <2>2, <2>3, OutputsGrow
<1>10. CASE NotifySkipped(p) \/ NotifyFails(p) \/ ReceiveFinished(p)
  <2>1. /\ stage[p] \in {"notify", "finishing"} /\ stage' = [stage EXCEPT ![p] = "exited"]
        /\ out' = out /\ "exited" \in Stages
    BY <1>10 DEF NotifySkipped, NotifyFails, ReceiveFinished, Exit, Step, At, Stages
  <2>2. \/ result' = result /\ result[p] = "ok"
        \/ result' = [result EXCEPT ![p] = "failed"]
    BY <1>10 DEF NotifySkipped, NotifyFails, ReceiveFinished, Exit, Fail
  <2>3. result[p] = "ok" => DOMAIN out[p] = Outputs[p]
    BY <2>1 DEF OutputInv
  <2> QED BY <1>1, <1>2, <2>1, <2>2, <2>3, OutputsGrow
<1> QED BY <1>3, <1>4, <1>5, <1>6, <1>7, <1>8, <1>9, <1>10 DEF Silent

LEMMA OutputStep ==
  ASSUME TInv, [TNext]_tvars
  PROVE  OutputInv'
<1>1. TTypeOK /\ OutputInv
  BY DEF TInv
<1>2. CASE UNCHANGED procVars
  BY <1>1, <1>2 DEF OutputInv, procVars
<1>3. ASSUME NEW p \in Procs, SendStart(p) \/ SendFinish(p) \/ Kill(p)
      PROVE  OutputInv'
  <2>1. /\ result' = result /\ out' = out
        /\ stage' \in {[stage EXCEPT ![p] = "starting"], [stage EXCEPT ![p] = "finishing"],
                        [stage EXCEPT ![p] = "killed"]}
        /\ stage' = [stage EXCEPT ![p] = "finishing"] => stage[p] = "notify"
    BY <1>1, <1>3 DEF SendStart, SendFinish, Kill, Step, At, TTypeOK
  <2> QED BY <1>1, <2>1 DEF OutputInv, TTypeOK
<1> QED BY <1>1, <1>2, <1>3, RunSplits, SilentOutputs DEF TNext, tvars, Serve, procVars

-----------------------------------------------------------------------------
\* What the handler of the request of p does

LEMMA HandlerMoves ==
  ASSUME TypeOK, NEW p \in Procs, Handle(p)
  PROVE  /\ UNCHANGED <<key, owner, isDone, report, up, cancelled>>
         /\ inited \subseteq inited' /\ done \subseteq done'
         /\ \A q \in Procs \ {p} : pc'[q] = pc[q] /\ reply'[q] = reply[q]
         /\ pc[p] # "idle"
         /\ \/ /\ pc[p] = "init" /\ pc'[p] = "idle" /\ reply'[p].kind = "token"
               /\ key[p] \in inited'
            \/ /\ pc[p] = "initReused" /\ pc'[p] = "wait" /\ reply'[p] = reply[p]
            \/ /\ pc[p] = "wait" /\ pc'[p] = "idle"
               /\ reply'[p].kind \in {"files", "failed", "cancelled"}
            \/ /\ pc[p] \in Finishing /\ pc'[p] \in Finishing /\ reply'[p] = reply[p]
               /\ pc'[p] = "respond" => key[p] \in done'
            \/ /\ pc[p] = "respond" /\ pc'[p] = "idle"
               /\ reply'[p] = FinishAnswer(key[p]) /\ error' = error
            \/ pc'[p] = "idle" /\ reply'[p].kind = "lost" /\ ~up
         /\ \A k \in Keys : error'[k] = "task" =>
               \/ error[k] = "task"
               \/ k = key[p] /\ pc[p] = "record" /\ report[k].failed
<1> USE DEF TypeOK, Procs, Goto, Respond, Answer, buildVars, serverVars, Finishing
<1>1. CASE InitBuild(p) \/ AwaitDone(p)
  BY <1>1 DEF InitBuild, AwaitDone, ReusedAnswer
<1>2. CASE RecordFailure(p) \/ RecordNothing(p) \/ MakeDirFails(p) \/ CopyFileFails(p)
  BY <1>2 DEF RecordFailure, RecordNothing, MakeDirFails, CopyFileFails, Abandon
<1>3. CASE MakeDir(p) \/ \E l \in Labels : CopyFile(p, l)
  BY <1>3 DEF MakeDir, CopyFile
<1>4. CASE CloseDone(p)
  BY <1>4 DEF CloseDone
<1>5. CASE FinishResponds(p)
  BY <1>5 DEF FinishResponds
<1>6. CASE ConnectionLost(p)
  BY <1>6 DEF ConnectionLost
<1> QED BY <1>1, <1>2, <1>3, <1>4, <1>5, <1>6 DEF Handle

-----------------------------------------------------------------------------
\* The service, as long as only processes call it

\* The request that asks for a key finds it unowned, or owned by another process.
LEMMA SendStartMoves ==
  ASSUME TypeOK, NEW p \in Procs, SendStart(p), ~ HasToken(p)
  PROVE  LET k == KeyOf[p] IN
         /\ k \in Keys /\ p \in Tracked /\ stage[p] = "parse"
         /\ stage' = [stage EXCEPT ![p] = "starting"]
         /\ UNCHANGED <<inited, isDone, done, files, error, report, up, cancelled,
                        result, out, compiled>>
         /\ key' = [key EXCEPT ![p] = k]
         /\ reply' = [reply EXCEPT ![p] = NoAnswer]
         /\ \/ /\ ~ Stored(k) /\ owner' = [owner EXCEPT ![k] = p]
               /\ pc' = [pc EXCEPT ![p] = "init"]
            \/ /\ owner' = owner /\ owner[k] # p
               /\ pc' = [pc EXCEPT ![p] = "initReused"]
<1>1. KeyOf[p] \in Keys /\ KeyOf[p] # NoKey
  BY ToolexecAssumption, ConstantsAssumption
<1>2. StartOriginal(p, KeyOf[p]) \/ StartReused(p, KeyOf[p])
  BY <1>1 DEF SendStart, Start
<1>3. /\ p \in Tracked /\ stage[p] = "parse" /\ stage' = [stage EXCEPT ![p] = "starting"]
      /\ UNCHANGED <<result, out, compiled>>
  BY DEF SendStart, Step, At
<1>4. CASE StartOriginal(p, KeyOf[p])
  BY <1>1, <1>3, <1>4 DEF StartOriginal, Call, serverVars
<1>5. CASE StartReused(p, KeyOf[p])
  BY <1>1, <1>3, <1>5 DEF StartReused, Call, buildVars, serverVars, HasToken
<1> QED BY <1>2, <1>4, <1>5

\* The FinishRequest of an original is the first for its key.
LEMMA SendFinishMoves ==
  ASSUME TInv, NEW p \in Procs, ProcInv(p), SendFinish(p)
  PROVE  LET k == KeyOf[p] IN
         /\ k \in Keys \ isDone /\ HasToken(p) /\ k \in inited /\ stage[p] = "notify"
         /\ stage' = [stage EXCEPT ![p] = "finishing"]
         /\ UNCHANGED <<owner, inited, done, files, error, up, cancelled,
                        result, out, compiled>>
         /\ key' = [key EXCEPT ![p] = k]
         /\ reply' = [reply EXCEPT ![p] = NoAnswer]
         /\ pc' = [pc EXCEPT ![p] = "record"]
         /\ isDone' = isDone \cup {k}
         /\ report' = [report EXCEPT ![k] = ReportOf(p)]
<1>1. KeyOf[p] \in Keys /\ KeyOf[p] # NoKey
  BY ToolexecAssumption, ConstantsAssumption
<1>2. /\ HasToken(p) /\ stage[p] = "notify" /\ stage' = [stage EXCEPT ![p] = "finishing"]
      /\ UNCHANGED <<result, out, compiled>>
      /\ Finish(p, KeyOf[p], KeyOf[p], ReportOf(p))
  BY DEF SendFinish, Step, At
<1>3. KeyOf[p] \in inited /\ KeyOf[p] \notin isDone
  BY <1>2 DEF ProcInv, AskInv, ReportInv, HasToken
<1>4. ~ FinishRejected(p, KeyOf[p], KeyOf[p])
  BY <1>1, <1>3 DEF FinishRejected, TokenOf, TInv, IInv, KeyOrder
<1>5. ~ FinishAgain(p, KeyOf[p], KeyOf[p])
  BY <1>3 DEF FinishAgain
<1>6. FinishFirst(p, KeyOf[p], KeyOf[p], ReportOf(p))
  BY <1>2, <1>4, <1>5 DEF Finish
<1> QED BY <1>1, <1>2, <1>3, <1>6 DEF FinishFirst, Call, serverVars

LEMMA ServiceInit == TInit => ServiceInv
BY DEF TInit, Init, ServiceInv, Stored, NoAnswer, Answer, Procs

LEMMA ServiceStep ==
  ASSUME PInv, [TNext]_tvars
  PROVE  ServiceInv'
<1> USE DEF ServiceInv
<1>1. /\ TypeOK /\ KeyOrder /\ HandlerInv /\ KeyInv
      /\ \A p \in Procs : ProcInv(p)
      /\ ServiceInv /\ TInv
  BY DEF PInv, TInv, IInv
<1>2. CASE UNCHANGED vars
  BY <1>1, <1>2 DEF vars, buildVars, callVars, serverVars, Stored
<1>3. ASSUME NEW p \in Procs, SendStart(p)
      PROVE  ServiceInv'
  <2>1. ~ HasToken(p)
    BY <1>1, <1>3 DEF ProcInv, AskInv, SendStart, Step, At
  <2> DEFINE k == KeyOf[p]
  <2>2. /\ k \in Keys /\ p \in Tracked
        /\ UNCHANGED <<inited, isDone, done, error, report, up, cancelled>>
        /\ key' = [key EXCEPT ![p] = k] /\ reply' = [reply EXCEPT ![p] = NoAnswer]
        /\ owner' = owner \/ owner' = [owner EXCEPT ![k] = p]
        /\ pc'[p] # "respond" /\ \A q \in Procs \ {p} : pc'[q] = pc[q]
    BY <1>1, <1>3, <2>1, SendStartMoves DEF TypeOK, Procs
  <2>3. \A q \in Procs : ServiceInv!2!(q)'
    BY <1>1, <2>2 DEF TypeOK, NoAnswer, Answer, Procs
  <2>4. \A j \in Keys : Stored(j)' => owner'[j] \in Tracked /\ KeyOf[owner'[j]] = j
    BY <1>1, <2>2 DEF TypeOK, Stored
  <2> QED BY <1>1, <2>2, <2>3, <2>4
<1>4. ASSUME NEW p \in Procs, SendFinish(p)
      PROVE  ServiceInv'
  <2> DEFINE k == KeyOf[p]
  <2>1. /\ k \in Keys \ isDone
        /\ UNCHANGED <<owner, inited, done, error, up, cancelled>>
        /\ key' = [key EXCEPT ![p] = k] /\ reply' = [reply EXCEPT ![p] = NoAnswer]
        /\ pc' = [pc EXCEPT ![p] = "record"]
        /\ isDone' = isDone \cup {k} /\ report' = [report EXCEPT ![k] = ReportOf(p)]
    BY <1>1, <1>4, SendFinishMoves
  <2>2. \A q \in Procs : ServiceInv!2!(q)'
    BY <1>1, <2>1 DEF TypeOK, NoAnswer, Answer, Procs
  <2>3. \A j \in Keys : error'[j] = "task" => j \in isDone' /\ report'[j].failed
    BY <1>1, <2>1 DEF TypeOK
  <2> QED BY <1>1, <2>1, <2>2, <2>3 DEF Stored
<1>5. ASSUME NEW p \in Procs, Serve(p)
      PROVE  ServiceInv'
  <2>1. Handle(p)
    BY <1>5 DEF Serve
  <2>2. pc[p] = "record" => key[p] \in isDone
    BY <1>1 DEF HandlerInv, Finishing, Procs
  <2>3. \A k \in Keys : error'[k] = "task" => k \in isDone' /\ report'[k].failed
    BY <1>1, <2>1, <2>2, HandlerMoves
  <2>4. FinishAnswer(key[p]).kind \in {"ok", "rejected"}
    BY DEF FinishAnswer, Answer
  <2>5. ASSUME NEW q \in Procs
        PROVE  /\ reply'[q].kind = "token" => key'[q] \in inited'
               /\ reply'[q].kind = "lost" => ~up'
               /\ pc'[q] = "respond" => key'[q] \in done'
    <3>1. CASE q # p
      BY <1>1, <2>1, <3>1, HandlerMoves
    <3>2. CASE q = p
      BY <1>1, <2>1, <2>4, <3>2, HandlerMoves
    <3> QED BY <3>1, <3>2
  <2>6. ~cancelled' /\ \A k \in Keys : Stored(k)' => owner'[k] \in Tracked /\ KeyOf[owner'[k]] = k
    BY <1>1, <2>1, HandlerMoves DEF Stored
  <2> QED BY <2>3, <2>5, <2>6
<1>6. CASE Shutdown
  BY <1>1, <1>6 DEF Shutdown, buildVars, callVars, Stored
<1>7. ASSUME NEW p \in Procs, Silent(p) \/ Kill(p)
      PROVE  UNCHANGED vars
  BY <1>7, SilentIsSilent DEF Kill
<1> QED BY <1>2, <1>3, <1>4, <1>5, <1>6, <1>7, RunSplits DEF TNext, tvars

-----------------------------------------------------------------------------
\* What the steps of a process and of the handlers leave to the others

\* The state ProcInv(q) is about.
Seen(q) == <<stage[q], result[q], out[q], pc[q], key[q], reply[q], up,
             owner[KeyOf[q]] = q, KeyOf[q] \in inited, KeyOf[q] \in isDone,
             KeyOf[q] \in done, error[KeyOf[q]], report[KeyOf[q]]>>

LEMMA SeenDecides ==
  ASSUME NEW q \in Procs, ProcInv(q), Seen(q)' = Seen(q)
  PROVE  ProcInv(q)'
<1>1. /\ stage'[q] = stage[q] /\ result'[q] = result[q] /\ out'[q] = out[q]
      /\ pc'[q] = pc[q] /\ key'[q] = key[q] /\ reply'[q] = reply[q] /\ up' = up
      /\ HasToken(q)' <=> HasToken(q)
      /\ KeyOf[q] \in inited' <=> KeyOf[q] \in inited
      /\ KeyOf[q] \in isDone' <=> KeyOf[q] \in isDone
      /\ KeyOf[q] \in done' <=> KeyOf[q] \in done
      /\ error'[KeyOf[q]] = error[KeyOf[q]] /\ report'[KeyOf[q]] = report[KeyOf[q]]
  BY DEF Seen, HasToken
<1>2. AskInv(q)'
  BY <1>1 DEF ProcInv, AskInv
<1>3. ReuseInv(q)'
  BY <1>1 DEF ProcInv, ReuseInv, Reuses
<1>4. LinkedInv(q)'
  BY <1>1 DEF ProcInv, LinkedInv
<1>5. ReportInv(q)'
  BY <1>1 DEF ProcInv, ReportInv, ReportedBy
<1>6. FinishedInv(q)'
  BY <1>1 DEF ProcInv, FinishedInv
<1> QED BY <1>2, <1>3, <1>4, <1>5, <1>6 DEF ProcInv

LEMMA SilentIsLocal ==
  ASSUME TTypeOK, NEW p \in Procs, Silent(p), NEW q \in Procs \ {p}
  PROVE  stage'[q] = stage[q] /\ result'[q] = result[q] /\ out'[q] = out[q]
<1> USE DEF TTypeOK, Step, Fail
<1>1. CASE \/ ParseUntracked(p) \/ NoServer(p) \/ ReceiveToken(p) \/ ReceiveFiles(p)
           \/ ReceiveError(p) \/ ReadImports(p) \/ ReadImportsFails(p)
  BY <1>1 DEF ParseUntracked, NoServer, ReceiveToken, ReceiveFiles, ReceiveError,
              ReadImports, ReadImportsFails
<1>2. CASE \/ (\E l \in Labels : ReuseFile(p, l)) \/ ReuseFails(p) \/ ReuseDone(p)
           \/ WeaveFails(p) \/ WeavePanics(p) \/ Compile(p) \/ CompileFails(p)
  BY <1>2 DEF ReuseFile, ReuseFails, ReuseDone, WeaveFails, WeavePanics, Compile, CompileFails
<1>3. CASE Attach(p) \/ AttachFails(p) \/ NotifySkipped(p) \/ NotifyFails(p)
           \/ ReceiveFinished(p)
  BY <1>3 DEF Attach, AttachFails, NotifySkipped, NotifyFails, ReceiveFinished, Exit
<1> QED BY <1>1, <1>2, <1>3 DEF Silent

\* A request changes the state of a key for the process that sends it only: no other
\* process of the key is its original.
LEMMA RequestsSpareOthers ==
  ASSUME PInv, NEW p \in Procs, SendStart(p) \/ SendFinish(p), NEW q \in Procs \ {p}
  PROVE  ProcInv(q)'
<1>1. TypeOK /\ TTypeOK /\ TInv /\ ProcInv(p) /\ ProcInv(q)
  BY DEF PInv, TInv, IInv
<1>2. KeyOf[q] \in Keys
  BY ToolexecAssumption
<1>3. CASE SendStart(p)
  <2>1. ~ HasToken(p)
    BY <1>1, <1>3 DEF ProcInv, AskInv, SendStart, Step, At
  <2>2. p # NoCaller /\ q # NoCaller
    BY ConstantsAssumption DEF Procs
  <2>3. owner'[KeyOf[q]] = q <=> owner[KeyOf[q]] = q
    BY <1>1, <1>2, <1>3, <2>1, <2>2, SendStartMoves DEF TypeOK, Stored
  <2>4. Seen(q)' = Seen(q)
    BY <1>1, <1>2, <1>3, <2>1, <2>3, SendStartMoves DEF Seen, TypeOK, TTypeOK, Procs
  <2> QED BY <1>1, <2>4, SeenDecides
<1>4. CASE SendFinish(p)
  <2> DEFINE k == KeyOf[p]
  <2>1. /\ HasToken(p) /\ k \in Keys \ isDone
        /\ stage' = [stage EXCEPT ![p] = "finishing"]
        /\ UNCHANGED <<owner, inited, done, files, error, up, cancelled,
                       result, out, compiled>>
        /\ key' = [key EXCEPT ![p] = k]
        /\ reply' = [reply EXCEPT ![p] = NoAnswer]
        /\ pc' = [pc EXCEPT ![p] = "record"]
        /\ isDone' = isDone \cup {k}
        /\ report' = [report EXCEPT ![k] = ReportOf(p)]
    BY <1>1, <1>4, SendFinishMoves
  <2>2. CASE KeyOf[q] # k
    <3>1. Seen(q)' = Seen(q)
      BY <1>1, <1>2, <2>1, <2>2 DEF Seen, TypeOK, TTypeOK, Procs
    <3> QED BY <1>1, <3>1, SeenDecides
  <2>3. CASE KeyOf[q] = k
    <3>1. ~ HasToken(q)
      BY <2>1, <2>3 DEF HasToken
    <3>2. /\ ~ HasToken(q)' /\ stage'[q] = stage[q] /\ result'[q] = result[q]
          /\ out'[q] = out[q] /\ pc'[q] = pc[q] /\ key'[q] = key[q]
          /\ reply'[q] = reply[q] /\ up' = up /\ inited' = inited
      BY <1>1, <2>1, <3>1 DEF TypeOK, TTypeOK, Procs, HasToken
    <3>3. AskInv(q)'
      BY <1>1, <3>1, <3>2 DEF ProcInv, AskInv
    <3>4. ReuseInv(q)'
      BY <1>1, <3>1, <3>2 DEF ProcInv, ReuseInv, Reuses
    <3>5. LinkedInv(q)'
      BY <1>1, <3>2 DEF ProcInv, LinkedInv
    <3>6. ReportInv(q)'
      BY <3>2 DEF ReportInv
    <3>7. stage[q] # "finishing"
      BY <1>1, <3>1 DEF ProcInv, AskInv
    <3>8. FinishedInv(q)'
      BY <3>2, <3>7 DEF FinishedInv
    <3> QED BY <3>3, <3>4, <3>5, <3>6, <3>8 DEF ProcInv
  <2> QED BY <2>2, <2>3
<1> QED BY <1>3, <1>4

\* What the handler of the request of p does to the key is not seen by a process until
\* the key is done, and is final then.
LEMMA HandlersSpareOthers ==
  ASSUME PInv, NEW p \in Procs, Serve(p), NEW q \in Procs \ {p}
  PROVE  ProcInv(q)'
<1>1. TypeOK /\ IInv /\ ProcInv(q) /\ ServiceInv
  BY DEF PInv, TInv, IInv
<1>2. KeyOf[q] \in Keys
  BY ToolexecAssumption
<1>3. Handle(p) /\ UNCHANGED procVars
  BY DEF Serve
<1>4. /\ stage' = stage /\ result' = result /\ out' = out
      /\ UNCHANGED <<key, owner, isDone, report, up>>
      /\ inited \subseteq inited' /\ done \subseteq done'
      /\ pc'[q] = pc[q] /\ reply'[q] = reply[q]
  BY <1>1, <1>3, HandlerMoves DEF procVars
<1>5. HasToken(q)' <=> HasToken(q)
  BY <1>4 DEF HasToken
<1>6. KeyOf[q] \in done => error'[KeyOf[q]] = error[KeyOf[q]]
  <2>1. [Next]_vars
    BY <1>3 DEF Next, Procs
  <2> QED BY <1>1, <2>1, PublishedStep
<1>7. AskInv(q)'
  BY <1>1, <1>4, <1>5 DEF ProcInv, AskInv
<1>8. ReuseInv(q)' /\ LinkedInv(q)'
  BY <1>1, <1>4, <1>5 DEF ProcInv, ReuseInv, Reuses, LinkedInv
<1>9. ReportInv(q)'
  BY <1>1, <1>4, <1>5 DEF ProcInv, ReportInv, ReportedBy
<1>10. FinishedInv(q)'
  BY <1>1, <1>4, <1>5, <1>6 DEF ProcInv, FinishedInv
<1> QED BY <1>7, <1>8, <1>9, <1>10 DEF ProcInv

-----------------------------------------------------------------------------
\* What the steps of a process, and of the handler of its request, do to itself

LEMMA SendStartOwn ==
  ASSUME PInv, NEW p \in Procs, SendStart(p)
  PROVE  ProcInv(p)'
<1>1. TypeOK /\ TTypeOK /\ KeyOrder /\ ProcInv(p)
  BY DEF PInv, TInv, IInv
<1>2. ~ HasToken(p)
  BY <1>1 DEF ProcInv, AskInv, SendStart, Step, At
<1> DEFINE k == KeyOf[p]
<1>3. /\ k \in Keys /\ p \in Tracked /\ stage[p] = "parse" /\ stage'[p] = "starting"
      /\ UNCHANGED <<isDone, result, out>>
      /\ \/ ~ Stored(k) /\ pc'[p] = "init"
         \/ owner'[k] # p
  BY <1>1, <1>2, SendStartMoves DEF TypeOK, TTypeOK, Procs
<1>4. AskInv(p)'
  BY <1>3 DEF AskInv, HasToken
<1>5. ReuseInv(p)' /\ LinkedInv(p)' /\ FinishedInv(p)'
  BY <1>1, <1>3 DEF ProcInv, ReuseInv, Reuses, LinkedInv, FinishedInv
<1>6. ReportInv(p)'
  BY <1>1, <1>3 DEF ReportInv, HasToken, KeyOrder
<1> QED BY <1>4, <1>5, <1>6 DEF ProcInv

LEMMA SendFinishOwn ==
  ASSUME PInv, NEW p \in Procs, SendFinish(p)
  PROVE  ProcInv(p)'
<1>1. TypeOK /\ TTypeOK /\ TInv /\ ProcInv(p)
  BY DEF PInv, TInv, IInv
<1> DEFINE k == KeyOf[p]
<1>2. /\ k \in Keys \ isDone /\ HasToken(p) /\ k \in inited /\ stage[p] = "notify"
      /\ stage'[p] = "finishing" /\ UNCHANGED <<owner, inited, result, out>>
      /\ key'[p] = k /\ pc'[p] = "record" /\ k \in isDone'
      /\ report'[k] = ReportOf(p)
  BY <1>1, SendFinishMoves DEF TypeOK, TTypeOK, Procs
<1>3. AskInv(p)' /\ ReuseInv(p)' /\ FinishedInv(p)'
  BY <1>2 DEF AskInv, ReuseInv, Reuses, FinishedInv, HasToken, Finishing
<1>4. LinkedInv(p)'
  BY <1>1, <1>2 DEF ProcInv, LinkedInv
<1>5. CASE result[p] = "failed"
  <2>1. report'[k].failed
    BY <1>2, <1>5 DEF ReportOf, ReportError
  <2>2. ReportInv(p)'
    BY <1>2, <1>5, <2>1 DEF ReportInv
  <2> QED BY <1>3, <1>4, <2>2 DEF ProcInv
<1>6. CASE result[p] # "failed"
  <2>1. ~ report'[k].failed /\ report'[k].files = ReportedBy(p)
    BY <1>2, <1>6 DEF ReportOf, Report, ReportedBy
  <2>2. ReportedBy(p)' = ReportedBy(p)
    BY <1>2 DEF ReportedBy
  <2>3. Archive \in DOMAIN out[p] => out[p][Archive].linkdeps
    BY <1>1, <1>2, <1>6 DEF ProcInv, LinkedInv
  <2>4. ReportInv(p)'
    BY <1>2, <1>6, <2>1, <2>2, <2>3 DEF ReportInv
  <2> QED BY <1>3, <1>4, <2>4 DEF ProcInv
<1> QED BY <1>5, <1>6

LEMMA KillOwn ==
  ASSUME PInv, NEW p \in Procs, Kill(p)
  PROVE  ProcInv(p)'
<1>1. TTypeOK /\ ProcInv(p)
  BY DEF PInv, TInv
<1>2. stage'[p] = "killed" /\ UNCHANGED <<vars, result, out>>
  BY <1>1 DEF Kill, TTypeOK
<1>3. AskInv(p)' /\ ReuseInv(p)' /\ LinkedInv(p)' /\ FinishedInv(p)'
  BY <1>1, <1>2 DEF ProcInv, AskInv, ReuseInv, Reuses, LinkedInv, FinishedInv
<1>4. ReportInv(p)'
  BY <1>1, <1>2 DEF ProcInv, ReportInv, ReportedBy, HasToken, vars, buildVars
<1> QED BY <1>3, <1>4 DEF ProcInv

\* The answer to the request of p arrives.
LEMMA ServeOwn ==
  ASSUME PInv, NEW p \in Procs, Serve(p)
  PROVE  ProcInv(p)'
<1>1. TypeOK /\ ProcInv(p) /\ ServiceInv /\ HandlerInv
  BY DEF PInv, TInv, IInv
<1>2. Handle(p) /\ UNCHANGED <<stage, result, out>>
  BY DEF Serve, procVars
<1>3. /\ UNCHANGED <<key, owner, isDone, report, up>>
      /\ inited \subseteq inited' /\ done \subseteq done' /\ pc[p] # "idle"
  BY <1>1, <1>2, HandlerMoves
<1>4. stage[p] \in {"starting", "finishing", "killed"}
  BY <1>1, <1>3 DEF ProcInv, AskInv
<1>5. HasToken(p)' <=> HasToken(p)
  BY <1>3 DEF HasToken
<1>6. pc[p] = "init" =>
        pc'[p] = "idle" /\ reply'[p].kind \in {"token", "lost"}
  BY <1>1, <1>2, HandlerMoves DEF Finishing
<1>7. AskInv(p)'
  BY <1>1, <1>2, <1>3, <1>4, <1>5, <1>6 DEF ProcInv, AskInv
<1>8. ReuseInv(p)' /\ LinkedInv(p)'
  BY <1>1, <1>2, <1>4 DEF ProcInv, ReuseInv, Reuses, LinkedInv
<1>9. ReportInv(p)'
  BY <1>1, <1>2, <1>3, <1>5 DEF ProcInv, ReportInv, ReportedBy
<1>10. ASSUME stage[p] = "finishing"
       PROVE  /\ pc'[p] \in Finishing \cup {"idle"}
              /\ pc'[p] = "idle" /\ reply'[p].kind # "lost" =>
                    /\ KeyOf[p] \in done'
                    /\ reply'[p].kind = "ok" <=> error'[KeyOf[p]] \in {"none", "task"}
  <2>1. pc[p] \in Finishing /\ key[p] = KeyOf[p]
    BY <1>1, <1>3, <1>10 DEF ProcInv, FinishedInv
  <2>2. \/ pc'[p] \in Finishing
        \/ pc'[p] = "idle" /\ reply'[p].kind = "lost"
        \/ /\ pc[p] = "respond" /\ pc'[p] = "idle"
           /\ reply'[p] = FinishAnswer(key[p]) /\ error' = error
    BY <1>1, <1>2, <2>1, HandlerMoves DEF Finishing
  <2>3. CASE \/ pc'[p] \in Finishing
             \/ pc'[p] = "idle" /\ reply'[p].kind = "lost"
    BY <2>3 DEF Finishing
  <2>4. CASE pc[p] = "respond" /\ pc'[p] = "idle"
             /\ reply'[p] = FinishAnswer(key[p]) /\ error' = error
    <3>1. KeyOf[p] \in done'
      BY <1>1, <1>3, <2>1, <2>4 DEF ServiceInv
    <3>2. reply'[p].kind = "ok" <=> error'[KeyOf[p]] \in {"none", "task"}
      BY <2>1, <2>4 DEF FinishAnswer, Answer
    <3> QED BY <2>4, <3>1, <3>2
  <2> QED BY <2>2, <2>3, <2>4
<1>11. FinishedInv(p)'
  BY <1>1, <1>2, <1>3, <1>4, <1>10 DEF ProcInv, FinishedInv
<1> QED BY <1>7, <1>8, <1>9, <1>11 DEF ProcInv

LEMMA ParseOwn ==
  ASSUME PInv, NEW p \in Procs,
         ParseUntracked(p) \/ NoServer(p) \/ ReadImports(p) \/ ReadImportsFails(p)
  PROVE  ProcInv(p)'
<1>1. TTypeOK /\ ProcInv(p) /\ UNCHANGED vars
  BY SilentIsSilent DEF PInv, TInv, Silent
<1>2. HasToken(p)' <=> HasToken(p)
  BY <1>1 DEF HasToken, vars, buildVars
<1>3. /\ stage[p] \in {"parse", "imports"} /\ out' = out
      /\ \/ stage'[p] = "weave" /\ result' = result
         \/ stage'[p] = "exited" /\ result'[p] = "failed"
      /\ stage[p] = "parse" /\ stage'[p] = "weave" => p \notin Tracked
  BY <1>1 DEF ParseUntracked, NoServer, ReadImports, ReadImportsFails, Step, At, Fail, TTypeOK
<1>4. AskInv(p)'
  BY <1>1, <1>2, <1>3 DEF ProcInv, AskInv, vars, callVars, buildVars
<1>5. ReuseInv(p)' /\ LinkedInv(p)'
  BY <1>1, <1>3 DEF ProcInv, ReuseInv, Reuses, LinkedInv
<1>6. ~ (HasToken(p) /\ KeyOf[p] \in isDone)
  BY <1>1, <1>3 DEF ProcInv, ReportInv
<1>7. ReportInv(p)' /\ FinishedInv(p)'
  BY <1>1, <1>2, <1>3, <1>6 DEF ReportInv, FinishedInv, vars, buildVars
<1> QED BY <1>4, <1>5, <1>7 DEF ProcInv

\* The token goes to the process that stored the key, and to no other.
LEMMA AnswerOwn ==
  ASSUME PInv, NEW p \in Procs, ReceiveToken(p) \/ ReceiveFiles(p) \/ ReceiveError(p)
  PROVE  ProcInv(p)'
<1>1. TTypeOK /\ ProcInv(p) /\ ServiceInv /\ OwnerInv /\ AnswerInv /\ UNCHANGED vars
  BY SilentIsSilent DEF PInv, TInv, IInv, Silent
<1>2. HasToken(p)' <=> HasToken(p)
  BY <1>1 DEF HasToken, vars, buildVars
<1>3. /\ stage[p] = "starting" /\ pc[p] = "idle" /\ p \in Tracked /\ key[p] = KeyOf[p]
      /\ out' = out /\ out[p] = NoFiles /\ result[p] # "panic"
      /\ \/ /\ reply[p].kind = "token" /\ stage'[p] = "imports" /\ result' = result
         \/ /\ reply[p].kind = "files" /\ stage'[p] = "reuse" /\ result' = result
         \/ /\ stage'[p] = "exited" /\ result'[p] = "failed"
  BY <1>1 DEF ReceiveToken, ReceiveFiles, ReceiveError, Answered, Step, At, Fail, TTypeOK,
              ProcInv, AskInv, LinkedInv, OwnerInv
<1>4. stage'[p] = "imports" => HasToken(p) /\ KeyOf[p] \in inited
  BY <1>1, <1>3 DEF AnswerInv, ServiceInv, HasToken, Procs
<1>5. stage'[p] = "reuse" => ~ HasToken(p)
  BY <1>1, <1>3 DEF ProcInv, AskInv
<1>6. AskInv(p)'
  BY <1>1, <1>2, <1>3, <1>4, <1>5 DEF AskInv, vars, callVars, buildVars
<1>7. DOMAIN out[p] = {}
  BY <1>3 DEF NoFiles
<1>8. ReuseInv(p)'
  BY <1>1, <1>3, <1>7 DEF ReuseInv, Reuses, vars, callVars
<1>9. LinkedInv(p)'
  BY <1>3 DEF LinkedInv
<1>10. ~ (HasToken(p) /\ KeyOf[p] \in isDone)
  BY <1>1, <1>3 DEF ProcInv, ReportInv
<1>11. ReportInv(p)' /\ FinishedInv(p)'
  BY <1>1, <1>2, <1>3, <1>10 DEF ReportInv, FinishedInv, vars, buildVars
<1> QED BY <1>6, <1>8, <1>9, <1>11 DEF ProcInv

LEMMA ReuseOwn ==
  ASSUME PInv, NEW p \in Procs,
         (\E l \in Labels : ReuseFile(p, l)) \/ ReuseFails(p) \/ ReuseDone(p)
  PROVE  ProcInv(p)'
<1>1. TTypeOK /\ ProcInv(p) /\ UNCHANGED vars
  BY SilentIsSilent DEF PInv, TInv, Silent
<1>2. /\ stage[p] = "reuse" /\ stage'[p] \in {"reuse", "exited"}
      /\ result'[p] \in {result[p], "failed"}
  BY <1>1 DEF ReuseFile, ReuseFails, ReuseDone, Step, At, Fail, TTypeOK
<1>3. ~ HasToken(p) /\ ~ HasToken(p)' /\ p \in Tracked /\ pc'[p] = "idle"
  BY <1>1, <1>2 DEF ProcInv, AskInv, HasToken, vars, buildVars, callVars
<1>4. AskInv(p)' /\ ReportInv(p)' /\ FinishedInv(p)'
  BY <1>2, <1>3 DEF AskInv, ReportInv, FinishedInv
<1>5. result[p] # "panic"
  BY <1>1, <1>2 DEF ProcInv, LinkedInv
<1>6. LinkedInv(p)'
  BY <1>2, <1>5 DEF LinkedInv
<1> DEFINE Given(l) == l \in DOMAIN reply[p].files /\ out[p][l] = reply[p].files[l]
<1>7. \A l \in DOMAIN out[p] : Given(l)
  BY <1>1, <1>2 DEF ProcInv, ReuseInv, Reuses
<1>8. \A l \in DOMAIN out'[p] : Given(l)'
  <2>1. ASSUME NEW l \in Labels, ReuseFile(p, l)
        PROVE  \A x \in DOMAIN out'[p] : Given(x)'
    <3>1. out'[p] = Put(out[p], l, reply[p].files[l]) /\ l \in DOMAIN reply[p].files
          /\ reply' = reply
      BY <1>1, <2>1 DEF ReuseFile, TTypeOK, vars, callVars
    <3> QED BY <1>7, <3>1 DEF Put
  <2>2. CASE ReuseFails(p) \/ ReuseDone(p)
    BY <1>1, <1>7, <2>2 DEF ReuseFails, ReuseDone, vars, callVars
  <2> QED BY <2>1, <2>2
<1>9. ReuseInv(p)'
  BY <1>1, <1>2, <1>3, <1>8 DEF ProcInv, ReuseInv, Reuses, vars, callVars
<1> QED BY <1>4, <1>6, <1>9 DEF ProcInv

LEMMA WeaveOwn ==
  ASSUME PInv, NEW p \in Procs,
         WeaveFails(p) \/ WeavePanics(p) \/ Compile(p) \/ CompileFails(p)
  PROVE  ProcInv(p)'
<1>1. TTypeOK /\ ProcInv(p) /\ UNCHANGED vars
  BY SilentIsSilent DEF PInv, TInv, Silent
<1>2. HasToken(p)' <=> HasToken(p)
  BY <1>1 DEF HasToken, vars, buildVars
<1>3. /\ stage[p] = "weave" /\ stage'[p] = "close"
      /\ \/ result'[p] \in {"failed", "panic"} /\ out' = out
         \/ result' = result
  BY <1>1 DEF WeaveFails, WeavePanics, Compile, CompileFails, Step, At, Fail, TTypeOK
<1>4. AskInv(p)' /\ ReuseInv(p)'
  BY <1>1, <1>2, <1>3 DEF ProcInv, AskInv, ReuseInv, Reuses, vars, callVars, buildVars
<1>5. LinkedInv(p)'
  BY <1>1, <1>3 DEF ProcInv, LinkedInv
<1>6. ~ (HasToken(p) /\ KeyOf[p] \in isDone)
  BY <1>1, <1>3 DEF ProcInv, ReportInv
<1>7. ReportInv(p)' /\ FinishedInv(p)'
  BY <1>1, <1>2, <1>3, <1>6 DEF ReportInv, FinishedInv, vars, buildVars
<1> QED BY <1>4, <1>5, <1>7 DEF ProcInv

LEMMA CloseOwn ==
  ASSUME PInv, NEW p \in Procs, Attach(p) \/ AttachFails(p)
  PROVE  ProcInv(p)'
<1>1. TTypeOK /\ ProcInv(p) /\ UNCHANGED vars
  BY SilentIsSilent DEF PInv, TInv, Silent
<1>2. HasToken(p)' <=> HasToken(p)
  BY <1>1 DEF HasToken, vars, buildVars
<1>3. /\ stage[p] = "close" /\ stage'[p] = "notify"
      /\ \/ result'[p] = "failed" /\ out' = out
         \/ result' = result /\ result[p] # "failed" /\ out'[p] = WithLinkDeps(out[p])
  BY <1>1 DEF Attach, AttachFails, Step, At, Fail, TTypeOK
<1>4. AskInv(p)' /\ ReuseInv(p)'
  BY <1>1, <1>2, <1>3 DEF ProcInv, AskInv, ReuseInv, Reuses, vars, callVars, buildVars
<1>5. LinkedInv(p)'
  <2>1. CASE result'[p] = "failed"
    BY <1>3, <2>1 DEF LinkedInv
  <2>2. CASE result' = result /\ result[p] # "failed" /\ out'[p] = WithLinkDeps(out[p])
    <3>1. \A f : f \in FileMap /\ Archive \in DOMAIN f => WithLinkDeps(f)[Archive].linkdeps
      <4> TAKE f
      <4> SUFFICES ASSUME f \in FileMap, Archive \in DOMAIN f
                   PROVE  WithLinkDeps(f)[Archive].linkdeps
        OBVIOUS
      <4>1. f[Archive] \in Artifact
        BY FileMapElim, ToolexecAssumption
      <4> QED BY <4>1 DEF WithLinkDeps, Artifact
    <3>2. WithLinkDeps(NoFiles) = NoFiles
      BY DEF WithLinkDeps, NoFiles
    <3>3. DOMAIN WithLinkDeps(out[p]) = DOMAIN out[p] /\ out[p] \in FileMap
      BY <1>1 DEF WithLinkDeps, TTypeOK
    <3> HIDE DEF WithLinkDeps
    <3> QED BY <1>1, <1>3, <2>2, <3>1, <3>2, <3>3 DEF ProcInv, LinkedInv
  <2> QED BY <1>3, <2>1, <2>2
<1>6. ~ (HasToken(p) /\ KeyOf[p] \in isDone)
  BY <1>1, <1>3 DEF ProcInv, ReportInv
<1>7. ReportInv(p)' /\ FinishedInv(p)'
  BY <1>1, <1>2, <1>3, <1>6 DEF ReportInv, FinishedInv, vars, buildVars
<1> QED BY <1>4, <1>5, <1>7 DEF ProcInv

\* A FinishRequest without any file does not end in published files.
LEMMA NothingIsPublished ==
  ASSUME PInv, NEW p \in Procs, NEW k \in done, out[p] = NoFiles,
         report[k].files = ReportedBy(p)
  PROVE  error[k] # "none"
<1>1. Settled(k) /\ k \in Keys /\ files[k] \in FileMap
  BY DEF PInv, TInv, IInv, KeyInv, TypeOK
<1> SUFFICES ASSUME error[k] = "none"
             PROVE  FALSE
  OBVIOUS
<1>2. files[k] = ReportedBy(p) /\ files[k] # NoFiles
  BY <1>1 DEF Settled
<1>3. \A l \in Outputs[p] : ReportedBy(p)[l] = Absent
  BY DEF ReportedBy, NoFiles
<1>4. DOMAIN files[k] = Outputs[p] /\ files[k] \in [Outputs[p] -> Content]
  BY <1>1, <1>2, FileMapElim DEF ReportedBy
<1>5. Outputs[p] = {}
  BY <1>2, <1>3, <1>4, ConstantsAssumption
<1> QED BY <1>2, <1>5 DEF ReportedBy, NoFiles

LEMMA NotifyOwn ==
  ASSUME PInv, NEW p \in Procs, NotifySkipped(p) \/ NotifyFails(p)
  PROVE  ProcInv(p)'
<1>1. TTypeOK /\ ProcInv(p) /\ UNCHANGED vars
  BY SilentIsSilent DEF PInv, TInv, Silent
<1>2. HasToken(p)' <=> HasToken(p)
  BY <1>1 DEF HasToken, vars, buildVars
<1>3. /\ stage[p] = "notify" /\ stage'[p] = "exited" /\ out' = out
      /\ result'[p] \in {"ok", "failed"}
      /\ ~ HasToken(p) \/ (result'[p] = "failed" /\ ~ up)
  BY <1>1 DEF NotifySkipped, NotifyFails, Exit, Step, At, Fail, TTypeOK
<1>4. AskInv(p)'
  BY <1>1, <1>2, <1>3 DEF ProcInv, AskInv, vars, callVars, buildVars
<1>5. p \notin Tracked \/ result'[p] = "failed"
  BY <1>1, <1>3 DEF ProcInv, AskInv
<1>6. ReuseInv(p)' /\ LinkedInv(p)'
  BY <1>3, <1>5 DEF ReuseInv, Reuses, LinkedInv
<1>7. ~ (HasToken(p) /\ KeyOf[p] \in isDone)
  BY <1>1, <1>3 DEF ProcInv, ReportInv
<1>8. ReportInv(p)' /\ FinishedInv(p)'
  BY <1>1, <1>2, <1>3, <1>7 DEF ReportInv, FinishedInv, vars, buildVars, serverVars
<1> QED BY <1>4, <1>6, <1>8 DEF ProcInv

\* The original exits with status 0 only if its files were published, and its key has
\* an error whenever it does not.
LEMMA ExitOwn ==
  ASSUME PInv, NEW p \in Procs, ReceiveFinished(p)
  PROVE  ProcInv(p)'
<1>1. TTypeOK /\ ProcInv(p) /\ ServiceInv /\ UNCHANGED vars
  BY SilentIsSilent DEF PInv, TInv, Silent
<1> DEFINE k == KeyOf[p]
<1>2. /\ stage[p] = "finishing" /\ stage'[p] = "exited" /\ out' = out /\ pc[p] = "idle"
      /\ result'[p] \in {"ok", "failed"}
      /\ result'[p] = "ok" <=> reply[p].kind = "ok" /\ result[p] = "ok"
  BY <1>1 DEF ReceiveFinished, Answered, Exit, Step, At, Fail, TTypeOK
<1>3. /\ p \in Tracked /\ HasToken(p) /\ HasToken(p)'
      /\ k \in isDone /\ k \in Keys
      /\ reply[p].kind # "lost" =>
            k \in done /\ (reply[p].kind = "ok" <=> error[k] \in {"none", "task"})
  BY <1>1, <1>2, ToolexecAssumption
     DEF ProcInv, AskInv, FinishedInv, HasToken, vars, buildVars
<1>4. /\ report[k].failed <=> result[p] = "failed"
      /\ ~ report[k].failed =>
            /\ report[k].files = ReportedBy(p)
            /\ Archive \in DOMAIN out[p] => out[p][Archive].linkdeps
  BY <1>1, <1>2, <1>3 DEF ProcInv, ReportInv
<1>5. AskInv(p)' /\ ReuseInv(p)' /\ LinkedInv(p)'
  BY <1>1, <1>2, <1>3 DEF AskInv, ReuseInv, Reuses, LinkedInv, vars, callVars
<1>6. ReportInv(p)'
  BY <1>1, <1>2, <1>4 DEF ReportInv, ReportedBy, vars, buildVars
<1>7. ASSUME result'[p] = "ok"
      PROVE  k \in done /\ error[k] = "none"
  BY <1>1, <1>2, <1>3, <1>4, <1>7 DEF ServiceInv
<1>8. ASSUME result'[p] # "ok", up
      PROVE  k \in done /\ error[k] # "none"
  <2>1. reply[p].kind # "lost"
    BY <1>1, <1>8 DEF ServiceInv
  <2>2. CASE reply[p].kind # "ok"
    BY <1>3, <2>1, <2>2
  <2>3. CASE result[p] = "failed"
    <3>1. Settled(k)
      BY <1>3, <2>1 DEF PInv, TInv, IInv, KeyInv
    <3> QED BY <1>3, <1>4, <2>1, <2>3, <3>1 DEF Settled
  <2>4. CASE result[p] = "panic"
    <3>1. out[p] = NoFiles
      BY <1>1, <2>4 DEF ProcInv, LinkedInv
    <3> QED BY <1>3, <1>4, <2>1, <2>4, <3>1, NothingIsPublished
  <2>5. result[p] \in {"ok", "failed", "panic"}
    BY <1>1 DEF TTypeOK
  <2> QED BY <1>2, <1>8, <2>2, <2>3, <2>4, <2>5
<1>9. FinishedInv(p)'
  BY <1>1, <1>2, <1>7, <1>8 DEF FinishedInv, vars, buildVars, serverVars
<1> QED BY <1>5, <1>6, <1>9 DEF ProcInv

LEMMA SilentOwn ==
  ASSUME PInv, NEW p \in Procs, Silent(p)
  PROVE  ProcInv(p)'
BY ParseOwn, AnswerOwn, ReuseOwn, WeaveOwn, CloseOwn, NotifyOwn, ExitOwn DEF Silent

-----------------------------------------------------------------------------
\* The invariant

LEMMA ProcsStep ==
  ASSUME PInv, [TNext]_tvars, NEW q \in Procs
  PROVE  ProcInv(q)'
<1>1. TTypeOK /\ ProcInv(q)
  BY DEF PInv, TInv
<1>2. ASSUME NEW p \in Procs, Silent(p)
      PROVE  ProcInv(q)'
  <2>1. CASE q = p
    BY <1>2, <2>1, SilentOwn
  <2>2. CASE q # p
    <3>1. UNCHANGED vars
      BY <1>2, SilentIsSilent
    <3>2. stage'[q] = stage[q] /\ result'[q] = result[q] /\ out'[q] = out[q]
      BY <1>1, <1>2, <2>2, SilentIsLocal
    <3>3. Seen(q)' = Seen(q)
      BY <3>1, <3>2 DEF Seen, vars, buildVars, callVars, serverVars
    <3> QED BY <1>1, <3>3, SeenDecides
  <2> QED BY <2>1, <2>2
<1>3. ASSUME NEW p \in Procs, SendStart(p) \/ SendFinish(p)
      PROVE  ProcInv(q)'
  BY <1>3, RequestsSpareOthers, SendStartOwn, SendFinishOwn
<1>4. ASSUME NEW p \in Procs, Serve(p)
      PROVE  ProcInv(q)'
  BY <1>4, HandlersSpareOthers, ServeOwn
<1>5. ASSUME NEW p \in Procs, Kill(p)
      PROVE  ProcInv(q)'
  <2>1. CASE q = p
    BY <1>5, <2>1, KillOwn
  <2>2. CASE q # p
    <3>1. Seen(q)' = Seen(q)
      BY <1>1, <1>5, <2>2 DEF Kill, TTypeOK, Seen, vars, buildVars, callVars, serverVars
    <3> QED BY <1>1, <3>1, SeenDecides
  <2> QED BY <2>1, <2>2
<1>6. CASE Shutdown /\ UNCHANGED procVars
  <2>1. UNCHANGED <<buildVars, callVars, procVars>> /\ ~ up'
    BY <1>6 DEF Shutdown
  <2>2. AskInv(q)' /\ ReuseInv(q)' /\ LinkedInv(q)'
    BY <1>1, <2>1 DEF ProcInv, AskInv, ReuseInv, Reuses, LinkedInv, HasToken,
                      buildVars, callVars, procVars
  <2>3. ReportInv(q)' /\ FinishedInv(q)'
    BY <1>1, <2>1 DEF ProcInv, ReportInv, ReportedBy, FinishedInv, HasToken,
                      buildVars, callVars, procVars
  <2> QED BY <2>2, <2>3 DEF ProcInv
<1>7. CASE UNCHANGED tvars
  <2>1. Seen(q)' = Seen(q)
    BY <1>7 DEF Seen, tvars, procVars, vars, buildVars, callVars, serverVars
  <2> QED BY <1>1, <2>1, SeenDecides
<1> QED BY <1>2, <1>3, <1>4, <1>5, <1>6, <1>7, RunSplits DEF TNext

LEMMA ProcsInit ==
  ASSUME TInit, NEW p \in Procs
  PROVE  ProcInv(p)
<1>1. /\ stage[p] = "parse" /\ result[p] = "ok" /\ out[p] = NoFiles
      /\ pc[p] = "idle" /\ isDone = {} /\ KeyOf[p] \in Keys
  BY ToolexecAssumption DEF TInit, Init, Procs
<1>2. ~ HasToken(p)
  BY <1>1, ConstantsAssumption DEF TInit, Init, HasToken, Procs
<1> QED BY <1>1, <1>2 DEF ProcInv, AskInv, ReuseInv, Reuses, LinkedInv, ReportInv, FinishedInv

-----------------------------------------------------------------------------
\* Theorems

LEMMA TInitInv == TInit => TInv
<1> SUFFICES ASSUME TInit
             PROVE  TInv
  OBVIOUS
<1>1. IInv
  BY InitInv DEF TInit
<1>2. TTypeOK
  BY <1>1, NoFilesType DEF TInit, IInv, TTypeOK, Stages
<1>3. OwnerInv
  BY DEF TInit, OwnerInv
<1>4. DOMAIN NoFiles = {}
  BY DEF NoFiles
<1>5. OutputInv
  BY <1>4 DEF TInit, OutputInv
<1> QED BY <1>1, <1>2, <1>3, <1>5 DEF TInv

LEMMA TNextInv == TInv /\ [TNext]_tvars => TInv'
BY TypesStep, OwnerStep, OutputStep DEF TInv

LEMMA TInvariance == TSpec => []TInv
BY TInitInv, TNextInv, PTL DEF TSpec

LEMMA PInvariance == TSpec => []PInv
<1>1. TInit => PInv
  BY TInitInv, ServiceInit, ProcsInit DEF PInv
<1>2. PInv /\ [TNext]_tvars => PInv'
  BY TNextInv, ServiceStep, ProcsStep DEF PInv
<1> QED BY <1>1, <1>2, PTL DEF TSpec

\* Toolexec processes are callers of the never-build-twice service: what they and the
\* handlers of their requests do, in any order and however they fail or are killed, is
\* what the open specification of the service allows (proxy/compile.go against nbt.go).
THEOREM ProcessesAreCallers == TSpec => Spec
<1>1. TInit => Init
  BY DEF TInit
<1>2. TInv /\ [TNext]_tvars => [Next]_vars
  BY StepsAreNext DEF TInv
<1> QED BY <1>1, <1>2, TInvariance, PTL DEF TSpec, Spec

\* To the processes too, the service shows one claim per key, one outcome, and nothing
\* else (the answers of start that compile.go acts on).
THEOREM ProcessesSeeBuildOnce == TSpec => ImplementsBuildOnce
BY ProcessesAreCallers, Refinement, PTL

\* So no process is given part of the files of another, whichever process copies them
\* and wherever it fails (copyFiles under finish, and FinishedFiles in compile.go).
THEOREM FilesAreWhole == TSpec => []AllOrNothing
BY ProcessesAreCallers, NeverPartial, PTL

\* Of the processes that were told of a build ID, one runs the compiler.
THEOREM CompilesOnce == TSpec => []CompiledOnce
<1>1. TInv => CompiledOnce
  BY DEF TInv, TTypeOK, OwnerInv, CompiledOnce
<1> QED BY <1>1, TInvariance, PTL

\* A process that exits with status 0 left every file that was asked of it, whether
\* it ran the compiler or re-used what another process made.
THEOREM ExitsComplete == TSpec => []SuccessIsComplete
<1>1. TInv => SuccessIsComplete
  BY DEF TInv, OutputInv, SuccessIsComplete, Succeeded
<1> QED BY <1>1, TInvariance, PTL

LEMMA SuccessIsOfficial ==
  ASSUME PInv, NEW p \in Tracked, Succeeded(p)
  PROVE  LET k == KeyOf[p] IN
         /\ k \in done /\ error[k] = "none"
         /\ \A l \in Outputs[p] : l \in DOMAIN files[k] /\ out[p][l] = files[k][l]
         /\ HasToken(p) => files[k] = out[p]
<1> DEFINE k == KeyOf[p]
<1>1. /\ p \in Procs /\ k \in Keys /\ ProcInv(p) /\ ServiceInv /\ OutputInv /\ TTypeOK
      /\ KeyInv /\ KeyOrder /\ AnswerInv
  BY ToolexecAssumption DEF PInv, TInv, IInv
<1>2. stage[p] = "exited" /\ result[p] = "ok" /\ DOMAIN out[p] = Outputs[p]
  BY <1>1 DEF Succeeded, OutputInv
<1>3. CASE HasToken(p)
  <2>1. k \in done /\ error[k] = "none"
    BY <1>1, <1>2, <1>3 DEF ProcInv, FinishedInv
  <2>2. files[k] = report[k].files /\ ~ report[k].failed
    BY <1>1, <2>1 DEF KeyInv, Settled
  <2>3. report[k].files = ReportedBy(p)
    BY <1>1, <1>3, <2>1, <2>2 DEF ProcInv, ReportInv, KeyOrder
  <2>4. out[p] \in [Outputs[p] -> Content]
    BY <1>1, <1>2, FileMapElim DEF TTypeOK
  <2>5. ReportedBy(p) = out[p]
    BY <1>2, <2>4 DEF ReportedBy
  <2> QED BY <1>2, <2>1, <2>2, <2>3, <2>5
<1>4. CASE ~ HasToken(p)
  <2>1. /\ key[p] = k /\ reply[p].kind = "files"
        /\ \A l \in DOMAIN out[p] : l \in DOMAIN reply[p].files /\ out[p][l] = reply[p].files[l]
    BY <1>1, <1>2, <1>4 DEF ProcInv, ReuseInv, Reuses
  <2>2. k \in done /\ error[k] = "none" /\ reply[p].files = files[k]
    BY <1>1, <2>1 DEF AnswerInv, ServiceInv, Procs
  <2> QED BY <1>2, <1>4, <2>1, <2>2
<1> QED BY <1>3, <1>4

\* An archive that was published was completed by the process that compiled it.
LEMMA PublishedIsLinked ==
  ASSUME PInv, NEW k \in done, error[k] = "none", Archive \in DOMAIN files[k]
  PROVE  files[k][Archive].linkdeps
<1>1. KeyInv /\ KeyOrder /\ TypeOK /\ ServiceInv
  BY DEF PInv, TInv, IInv
<1>2. k \in Keys /\ Stored(k) /\ k \in isDone /\ files[k] = report[k].files /\ ~ report[k].failed
  BY <1>1 DEF KeyInv, KeyOrder, Settled, TypeOK
<1> DEFINE o == owner[k]
<1>3. o \in Procs /\ HasToken(o) /\ KeyOf[o] = k
  BY <1>1, <1>2, ToolexecAssumption DEF ServiceInv, HasToken
<1>4. /\ files[k] = ReportedBy(o)
      /\ Archive \in DOMAIN out[o] => out[o][Archive].linkdeps
  BY <1>2, <1>3 DEF PInv, ProcInv, ReportInv
<1>5. files[k][Archive] # Absent
  BY <1>1, <1>2, FileMapElim, ConstantsAssumption DEF TypeOK
<1>6. Archive \in DOMAIN out[o] /\ files[k][Archive] = out[o][Archive]
  BY <1>4, <1>5 DEF ReportedBy
<1> QED BY <1>4, <1>6

\* The files of a process that compiled and exits with status 0 are those the service
\* gives to the others (notifyJobServer in proxy/compile.go before Close returns).
THEOREM OwnersPublish == TSpec => []OwnerSuccessIsPublished
<1>1. PInv => OwnerSuccessIsPublished
  BY SuccessIsOfficial DEF OwnerSuccessIsPublished
<1> QED BY <1>1, PInvariance, PTL

\* All that exit with status 0 for one package and build ID leave the same bytes, with
\* link.deps in the archive, whoever compiled and whatever failed on the way.
THEOREM ArtifactsAgree == TSpec => []SameArtifacts
<1>1. ASSUME PInv
      PROVE  SameArtifacts
  <2> SUFFICES ASSUME NEW p \in Tracked, NEW q \in Tracked,
                      Succeeded(p), Succeeded(q), KeyOf[p] = KeyOf[q]
               PROVE  /\ \A l \in Outputs[p] \cap Outputs[q] : out[p][l] = out[q][l]
                      /\ Archive \in Outputs[p] => out[p][Archive].linkdeps
    BY DEF SameArtifacts
  <2>1. \A l \in Outputs[p] \cap Outputs[q] : out[p][l] = out[q][l]
    BY <1>1, SuccessIsOfficial
  <2>2. Archive \in Outputs[p] => out[p][Archive].linkdeps
    BY <1>1, SuccessIsOfficial, PublishedIsLinked
  <2> QED BY <2>1, <2>2
<1> QED BY <1>1, PInvariance, PTL

\* When the process that compiles fails or panics, those that wait for its files fail
\* too: none of them exits with status 0, before or after it (finish with an error, and
\* with the files a panic left, in nbt.go).
THEOREM FailureSpreads == TSpec => []FailureIsShared
<1>1. ASSUME PInv
      PROVE  FailureIsShared
  <2> SUFFICES ASSUME NEW p \in Tracked, NEW q \in Tracked,
                      HasToken(p), stage[p] \in {"exited", "finishing"}, result[p] # "ok",
                      KeyOf[q] = KeyOf[p], up, Succeeded(q)
               PROVE  FALSE
    BY DEF FailureIsShared
  <2> DEFINE k == KeyOf[p]
  <2>1. k \in done /\ error[k] = "none"
    BY <1>1, SuccessIsOfficial
  <2>2. p \in Procs /\ ProcInv(p) /\ TTypeOK /\ KeyOrder /\ Settled(k)
    BY <1>1, <2>1, ToolexecAssumption DEF PInv, TInv, IInv, KeyInv
  <2>3. k \in isDone /\ ~ report[k].failed
    BY <2>1, <2>2 DEF KeyOrder, Settled
  <2>4. stage[p] = "finishing" /\ result[p] # "failed"
    BY <2>1, <2>2, <2>3 DEF ProcInv, FinishedInv, ReportInv
  <2>5. result[p] = "panic"
    BY <2>2, <2>4 DEF TTypeOK
  <2>6. out[p] = NoFiles /\ report[k].files = ReportedBy(p)
    BY <2>2, <2>3, <2>5 DEF ProcInv, LinkedInv, ReportInv
  <2> QED BY <1>1, <2>1, <2>2, <2>6, NothingIsPublished
<1> QED BY <1>1, PInvariance, PTL
=============================================================================
