---------------------------- MODULE DriverProofs ----------------------------
(***************************************************************************)
(* Theorems about one run of the program, for every command line, every    *)
(* content of the files and every size of the object.                      *)
(***************************************************************************)
EXTENDS Driver, TLAPS

Choosing == {"options", "sources"}
Passes == {"labels", "lines", "output"}
Locations == Choosing \cup Passes \cup {"tmp", "src", "copy", "done", "refused", "exit"}

(* The streams at every location. *)
TmpFits ==
  /\ at \in Choosing \cup {"tmp"} => streams.tmp = "unopened"
  /\ at \in Passes \cup {"src", "copy", "done"} => streams.tmp = "open"
  /\ at = "refused" =>
       streams.tmp = IF errors THEN "open" ELSE "closed"

SrcFits ==
  /\ at \in Choosing \cup {"tmp", "src"} => streams.src = "unopened"
  /\ at \in Passes \cup {"copy", "done", "refused"} => streams.src = "open"

OutFits ==
  /\ at \notin {"copy", "done", "exit"} => streams.out = "unopened"
  /\ at = "copy" => streams.out = "open"
  /\ at = "done" => streams.out = IF errors THEN "unopened" ELSE "closed"
  /\ at = "exit" => streams.out \in {"unopened", "closed"}

Untouched == [Files -> {Objects!None} \cup {Objects!Source(t) : t \in Texts}]

File == [kind : {"none", "source", "object", "torn"}, text : Texts \cup {""},
         bytes : 0 .. ImageSize]

(* What the output can hold when n bytes have been copied. *)
Outcomes(n) == {Objects!Object(image, n), Objects!Torn(image)}

(* Until the output is opened the files are as they were; from then on its *)
(* file holds what has been copied, or is torn.                            *)
FilesFit ==
  /\ streams.out = "unopened" =>
       copied = 0 /\ files \in Untouched
  /\ streams.out # "unopened" => files[Target] \in Outcomes(copied)
  /\ streams.out = "closed" => copied = ImageSize

(* What the passes have found out about the text. *)
TextFits ==
  /\ at \notin Choosing \cup {"exit"} => source \in Paths
  /\ source # "" /\ streams.out = "unopened" => files[FileAt[source]].kind = "source"
  /\ at \in Choosing \cup {"tmp", "src", "labels"} => ~errors
  /\ at \in Choosing \cup {"tmp", "src", "labels", "lines"} => image = ""
  /\ at = "lines" => ~errors /\ files[FileAt[source]].text \notin BadLabels
  /\ at = "output" => /\ image = files[FileAt[source]].text
                      /\ image \notin BadLabels
                      /\ errors <=> image \in BadLines
  /\ streams.out # "unopened" => /\ ~errors
                             /\ image \in Texts \ (BadLabels \cup BadLines)

ExitFits ==
  /\ at # "exit" <=> exit = "none"
  /\ at = "exit" /\ streams.out = "closed" => exit = "success"
  /\ exit = "success" => errors \/ streams.out = "closed"

IInv == TypeOK /\ TmpFits /\ SrcFits /\ OutFits /\ FilesFit /\ TextFits /\ ExitFits
-----------------------------------------------------------------------------
LEMMA WordsArePaths ==
  ASSUME TypeOK, NEW k \in left
  PROVE  argv[k].path \in Paths
  <1>1. argv \in Seq(Words) /\ k \in DOMAIN argv
    BY CommandLinesAssumption DEF TypeOK
  <1>2. argv[k] \in Words
    BY <1>1
  <1> QED
    BY <1>2 DEF Words

LEMMA TargetIsFile == TypeOK => Target \in Files
  BY PathsAssumption DEF TypeOK, Target

LEMMA FilesTyped ==
  /\ Untouched \subseteq [Files -> File]
  /\ \A f \in Untouched : \A g \in Files : f[g].kind # "none" =>
       f[g].kind = "source" /\ f[g].text \in Texts /\ f[g] = Objects!Source(f[g].text)
  <1>0. 0 \in 0 .. ImageSize
    BY SizesAssumption
  <1>1. Objects!None \in File /\ \A t \in Texts : Objects!Source(t) \in File
    BY <1>0 DEF File, Objects!None, Objects!Source
  <1>2. Objects!None.kind = "none"
    BY DEF Objects!None
  <1>3. \A t : Objects!Source(t).kind = "source" /\ Objects!Source(t).text = t
    BY DEF Objects!Source
  <1> QED
    BY <1>1, <1>2, <1>3 DEF Untouched

LEMMA ObjectsTyped ==
  /\ \A t \in Texts, n \in 0 .. ImageSize : Objects!Object(t, n) \in File
  /\ \A t \in Texts : Objects!Torn(t) \in File
  <1>1. 0 \in 0 .. ImageSize
    BY SizesAssumption
  <1>2. \A t \in Texts, n \in 0 .. ImageSize : Objects!Object(t, n) \in File
    BY DEF File, Objects!Object
  <1>3. \A t \in Texts : Objects!Torn(t) \in File
    BY <1>1 DEF File, Objects!Torn
  <1> QED
    BY <1>2, <1>3

LEMMA Counting ==
  /\ 0 \in 0 .. ImageSize
  /\ \A n \in 0 .. ImageSize :
       /\ n \in Nat
       /\ n < ImageSize => n + 1 \in 0 .. ImageSize
  BY SizesAssumption

(* In the passes the text of the source is one of the texts. *)
LEMMA SourceTyped ==
  IInv /\ at \in Passes => source \in Paths /\ files[FileAt[source]].text \in Texts
  <1> SUFFICES ASSUME IInv, at \in Passes PROVE source \in Paths /\ files[FileAt[source]].text \in Texts
    OBVIOUS
  <1>1. streams.out = "unopened" /\ source \in Paths
    BY DEF IInv, OutFits, TextFits, Passes, Choosing
  <1>2. source # "" /\ files \in Untouched
    BY <1>1, PathsAssumption DEF IInv, FilesFit
  <1>3. FileAt[source] \in Files /\ files[FileAt[source]].kind = "source"
    BY <1>1, <1>2, PathsAssumption DEF IInv, TextFits
  <1> QED
    BY <1>1, <1>2, <1>3, FilesTyped

USE DEF Goto, Leave, Open, Closed, choice, UnchangedByMain, Streams,
        Choosing, Passes

LEMMA InitHolds == Init => IInv
  <1> SUFFICES ASSUME Init PROVE IInv
    OBVIOUS
  <1>1. files \in [Files -> File]
    BY FilesTyped DEF Init, Untouched
  <1>2. 0 \in 0 .. ImageSize
    BY SizesAssumption
  <1>3. TypeOK
    BY <1>1, <1>2 DEF Init, TypeOK, File
  <1> QED
    BY <1>3 DEF Init, IInv, Untouched, TmpFits, SrcFits, OutFits, FilesFit, TextFits, ExitFits

LEMMA Inductive == IInv /\ [Next]_vars => IInv'
  <1> SUFFICES ASSUME IInv, [Next]_vars PROVE IInv'
    OBVIOUS
  <1>1. CASE NoArguments
    <2>1. TypeOK'
      BY <1>1 DEF NoArguments, IInv, TypeOK
    <2>2. TmpFits' /\ SrcFits' /\ OutFits'
      BY <1>1 DEF NoArguments, IInv, TypeOK, TmpFits, SrcFits, OutFits
    <2>3. FilesFit'
      BY <1>1 DEF NoArguments, IInv, TypeOK, FilesFit, OutFits, Target, Outcomes
    <2>4. TextFits' /\ ExitFits'
      BY <1>1 DEF NoArguments, IInv, TypeOK, TextFits, OutFits, ExitFits
    <2> QED
      BY <2>1, <2>2, <2>3, <2>4 DEF IInv
  <1>2. CASE ReadWord
    <2>1. TypeOK'
      BY <1>2, WordsArePaths, PathsAssumption DEF ReadWord, IInv, TypeOK
    <2>2. TmpFits' /\ SrcFits' /\ OutFits'
      BY <1>2 DEF ReadWord, IInv, TypeOK, TmpFits, SrcFits, OutFits
    <2>3. FilesFit'
      BY <1>2 DEF ReadWord, IInv, TypeOK, FilesFit, OutFits, Target, Outcomes
    <2>4. TextFits'
      <3>1. /\ UNCHANGED <<source, files, errors, streams, image>>
            /\ at = "options" /\ at' \in {"options", "exit"}
        BY <1>2 DEF ReadWord
      <3> QED
        BY <3>1 DEF IInv, TextFits, OutFits
    <2>5. ExitFits'
      BY <1>2 DEF ReadWord, IInv, TypeOK, OutFits, ExitFits
    <2> QED
      BY <2>1, <2>2, <2>3, <2>4, <2>5 DEF IInv
  <1>3. CASE EndOptions
    <2>1. TypeOK'
      BY <1>3 DEF EndOptions, IInv, TypeOK
    <2>2. TmpFits' /\ SrcFits' /\ OutFits'
      BY <1>3 DEF EndOptions, IInv, TypeOK, TmpFits, SrcFits, OutFits
    <2>3. FilesFit'
      BY <1>3 DEF EndOptions, IInv, TypeOK, FilesFit, OutFits, Target, Outcomes
    <2>4. TextFits' /\ ExitFits'
      BY <1>3 DEF EndOptions, IInv, TypeOK, TextFits, OutFits, ExitFits
    <2> QED
      BY <2>1, <2>2, <2>3, <2>4 DEF IInv
  <1>4. CASE ConsiderWord
    <2>1. TypeOK'
      BY <1>4, WordsArePaths, PathsAssumption DEF ConsiderWord, IInv, TypeOK
    <2>2. TmpFits' /\ SrcFits' /\ OutFits'
      BY <1>4 DEF ConsiderWord, IInv, TypeOK, TmpFits, SrcFits, OutFits
    <2>3. FilesFit'
      BY <1>4 DEF ConsiderWord, IInv, TypeOK, FilesFit, OutFits, Target, Outcomes
    <2>4. TextFits'
      <3>1. /\ UNCHANGED <<files, errors, streams, image>>
            /\ at = "sources" /\ at' = "sources"
        BY <1>4 DEF ConsiderWord
      <3>2. source' # "" => source' = source \/ (source' \in Paths /\ Exists(source'))
        BY <1>4, WordsArePaths DEF ConsiderWord, Candidate, IInv
      <3>3. files \in Untouched /\ streams.out = "unopened"
        BY <3>1 DEF IInv, OutFits, FilesFit
      <3>4. source' # "" => files[FileAt[source']].kind = "source"
        BY <3>2, <3>3, FilesTyped, PathsAssumption DEF Exists, IInv, TextFits
      <3> QED
        BY <3>1, <3>3, <3>4 DEF IInv, TextFits, OutFits
    <2>5. ExitFits'
      BY <1>4 DEF ConsiderWord, IInv, TypeOK, OutFits, ExitFits
    <2> QED
      BY <2>1, <2>2, <2>3, <2>4, <2>5 DEF IInv
  <1>5. CASE EndSources
    <2>1. TypeOK'
      BY <1>5 DEF EndSources, IInv, TypeOK
    <2>2. TmpFits' /\ SrcFits' /\ OutFits'
      BY <1>5 DEF EndSources, IInv, TypeOK, TmpFits, SrcFits, OutFits
    <2>3. FilesFit'
      BY <1>5 DEF EndSources, IInv, TypeOK, FilesFit, OutFits, Target, Outcomes
    <2>4. TextFits'
      BY <1>5 DEF EndSources, IInv, TypeOK, TextFits, OutFits
    <2>5. ExitFits'
      BY <1>5 DEF EndSources, IInv, TypeOK, OutFits, ExitFits
    <2> QED
      BY <2>1, <2>2, <2>3, <2>4, <2>5 DEF IInv
  <1>6. CASE OpenTemporary
    <2>1. TypeOK'
      BY <1>6 DEF OpenTemporary, IInv, TypeOK
    <2>2. TmpFits' /\ SrcFits' /\ OutFits'
      BY <1>6 DEF OpenTemporary, IInv, TypeOK, TmpFits, SrcFits, OutFits
    <2>3. FilesFit'
      BY <1>6 DEF OpenTemporary, IInv, TypeOK, FilesFit, OutFits, Target, Outcomes
    <2>4. TextFits' /\ ExitFits'
      BY <1>6 DEF OpenTemporary, IInv, TypeOK, TextFits, OutFits, ExitFits
    <2> QED
      BY <2>1, <2>2, <2>3, <2>4 DEF IInv
  <1>7. CASE OpenSource
    <2>1. TypeOK'
      BY <1>7 DEF OpenSource, IInv, TypeOK
    <2>2. TmpFits' /\ SrcFits' /\ OutFits'
      BY <1>7 DEF OpenSource, IInv, TypeOK, TmpFits, SrcFits, OutFits
    <2>3. FilesFit'
      BY <1>7 DEF OpenSource, IInv, TypeOK, FilesFit, OutFits, Target, Outcomes
    <2>4. TextFits' /\ ExitFits'
      BY <1>7 DEF OpenSource, IInv, TypeOK, TextFits, OutFits, ExitFits
    <2> QED
      BY <2>1, <2>2, <2>3, <2>4 DEF IInv
  <1>8. CASE MakeLabels
    <2>0. errors' \in BOOLEAN
      <3>1. errors' = (errors \/ files[FileAt[source]].text \in BadLabels)
        BY <1>8 DEF MakeLabels
      <3>2. errors \in BOOLEAN
        BY DEF IInv, TypeOK
      <3> QED
        BY <3>1, <3>2, Zenon
    <2>1. TypeOK'
      BY <1>8, <2>0, SourceTyped DEF MakeLabels, IInv, TypeOK
    <2>2. TmpFits' /\ SrcFits' /\ OutFits'
      BY <1>8 DEF MakeLabels, IInv, TypeOK, TmpFits, SrcFits, OutFits
    <2>3. FilesFit'
      BY <1>8 DEF MakeLabels, IInv, TypeOK, FilesFit, OutFits, Target, Outcomes
    <2>4. TextFits' /\ ExitFits'
      BY <1>8 DEF MakeLabels, IInv, TypeOK, TextFits, OutFits, ExitFits
    <2> QED
      BY <2>1, <2>2, <2>3, <2>4 DEF IInv
  <1>9. CASE MakeAssemble
    <2>0. errors' \in BOOLEAN
      <3>1. errors' = (errors \/ files[FileAt[source]].text \in BadLines)
        BY <1>9 DEF MakeAssemble
      <3>2. errors \in BOOLEAN
        BY DEF IInv, TypeOK
      <3> QED
        BY <3>1, <3>2, Zenon
    <2>1. TypeOK'
      BY <1>9, <2>0, SourceTyped DEF MakeAssemble, IInv, TypeOK
    <2>2. TmpFits' /\ SrcFits' /\ OutFits'
      BY <1>9 DEF MakeAssemble, IInv, TypeOK, TmpFits, SrcFits, OutFits
    <2>3. FilesFit'
      BY <1>9 DEF MakeAssemble, IInv, TypeOK, FilesFit, OutFits, Target, Outcomes
    <2>4. TextFits' /\ ExitFits'
      BY <1>9 DEF MakeAssemble, IInv, TypeOK, TextFits, OutFits, ExitFits
    <2> QED
      BY <2>1, <2>2, <2>3, <2>4 DEF IInv
  <1>10. CASE OutOfMemory
    <2>1. TypeOK'
      BY <1>10 DEF OutOfMemory, IInv, TypeOK
    <2>2. TmpFits' /\ SrcFits' /\ OutFits'
      BY <1>10 DEF OutOfMemory, IInv, TypeOK, TmpFits, SrcFits, OutFits
    <2>3. FilesFit'
      BY <1>10 DEF OutOfMemory, IInv, TypeOK, FilesFit, OutFits, Target, Outcomes
    <2>4. TextFits' /\ ExitFits'
      BY <1>10 DEF OutOfMemory, IInv, TypeOK, TextFits, OutFits, ExitFits
    <2> QED
      BY <2>1, <2>2, <2>3, <2>4 DEF IInv
  <1>11. CASE OpenOutput
    <2>0. Objects!Object(image, 0) \in File
      <3>1. at = "output"
        BY <1>11 DEF OpenOutput
      <3>2. image \in Texts
        BY <3>1, SourceTyped DEF IInv, TextFits
      <3> QED
        BY <3>2, ObjectsTyped, Counting
    <2>1. TypeOK'
      <3>1. files' \in [Files -> File]
        BY <1>11, <2>0 DEF OpenOutput, IInv, TypeOK, File
      <3> QED
        BY <1>11, <3>1 DEF OpenOutput, IInv, TypeOK, File
    <2>2. TmpFits' /\ SrcFits' /\ OutFits'
      BY <1>11 DEF OpenOutput, IInv, TypeOK, TmpFits, SrcFits, OutFits
    <2>3. FilesFit'
      <3>1. CASE streams' = streams \/ streams' = Closed("tmp", streams)
        BY <1>11, <3>1 DEF OpenOutput, IInv, TypeOK, FilesFit, OutFits
      <3>2. CASE Open("out") /\ files' = [files EXCEPT ![Target] = Objects!Object(image, 0)]
        <4>1. copied' = 0
          <5>1. at = "output" /\ copied' = copied
            BY <1>11 DEF OpenOutput
          <5>2. copied = 0
            BY <5>1 DEF IInv, FilesFit, OutFits
          <5> QED
            BY <5>1, <5>2
        <4>2. files'[Target] = Objects!Object(image, 0) /\ Target' = Target
          BY <1>11, <3>2, TargetIsFile DEF OpenOutput, IInv, TypeOK, Target
        <4> QED
          BY <1>11, <3>2, <4>1, <4>2 DEF OpenOutput, IInv, TypeOK, FilesFit, Outcomes
      <3> QED
        BY <1>11, <3>1, <3>2 DEF OpenOutput
    <2>4. TextFits'
      <3>1. /\ at = "output" /\ at' \in {"done", "copy", "refused"}
            /\ UNCHANGED <<source, errors, image>>
            /\ streams'.out = "unopened" => files' = files
            /\ streams'.out # "unopened" => ~errors
        BY <1>11 DEF OpenOutput, IInv, TypeOK, OutFits
      <3>2. image \in Texts
        BY <3>1, SourceTyped DEF IInv, TextFits
      <3> QED
        BY <3>1, <3>2 DEF IInv, TextFits, OutFits
    <2>5. ExitFits'
      BY <1>11 DEF OpenOutput, IInv, TypeOK, OutFits, ExitFits
    <2> QED
      BY <2>1, <2>2, <2>3, <2>4, <2>5 DEF IInv
  <1>12. CASE CopyByte
    <2>1. /\ at = "copy" /\ copied' = copied + 1
          /\ copied \in 0 .. ImageSize /\ copied' \in 0 .. ImageSize
          /\ UNCHANGED <<out, image, streams>> /\ streams.out = "open"
          /\ image \in Texts /\ Target \in Files
      <3>1. copied \in 0 .. ImageSize /\ copied < ImageSize /\ copied' = copied + 1
        BY <1>12 DEF CopyByte, IInv, TypeOK
      <3> QED
        BY <1>12, <3>1, Counting, TargetIsFile DEF CopyByte, IInv, TextFits, OutFits
    <2>2. \E c \in Outcomes(copied') : files' = [files EXCEPT ![Target] = c]
      BY <1>12 DEF CopyByte, LoseBytes, Outcomes
    <2>3. TypeOK'
      <3>1. Outcomes(copied') \subseteq File
        BY <2>1, ObjectsTyped DEF Outcomes
      <3>2. files' \in [Files -> File]
        BY <2>1, <2>2, <3>1 DEF IInv, TypeOK, File
      <3> QED
        BY <1>12, <2>1, <3>2 DEF CopyByte, IInv, TypeOK, File
    <2>4. TmpFits' /\ SrcFits' /\ OutFits'
      BY <1>12 DEF CopyByte, IInv, TypeOK, TmpFits, SrcFits, OutFits
    <2>5. FilesFit'
      <3>1. files'[Target] \in Outcomes(copied') /\ Target' = Target
        BY <2>1, <2>2 DEF IInv, TypeOK, Target
      <3>2. Outcomes(copied') = Outcomes(copied)'
        BY <2>1 DEF Outcomes
      <3> QED
        BY <2>1, <3>1, <3>2 DEF FilesFit
    <2>6. TextFits' /\ ExitFits'
      BY <1>12 DEF CopyByte, IInv, TypeOK, TextFits, OutFits, ExitFits
    <2> QED
      BY <2>3, <2>4, <2>5, <2>6 DEF IInv
  <1>13. CASE CloseOutput
    <2>1. /\ at = "copy" /\ at' = "done" /\ copied = ImageSize
          /\ UNCHANGED <<argv, left, out, source, errors, image, copied, exit>>
          /\ streams.out = "open" /\ streams' = Closed("out", streams)
          /\ ~errors /\ image \in Texts /\ Target \in Files
      BY <1>13, TargetIsFile DEF CloseOutput, IInv, TextFits, OutFits
    <2>2. files' = files \/ files' = [files EXCEPT ![Target] = Objects!Torn(image)]
      BY <1>13 DEF CloseOutput, LoseBytes
    <2>3. TypeOK'
      <3>1. files' \in [Files -> File]
        BY <2>1, <2>2, ObjectsTyped DEF IInv, TypeOK, File
      <3> QED
        BY <2>1, <3>1 DEF IInv, TypeOK, File
    <2>4. TmpFits' /\ SrcFits' /\ OutFits'
      BY <2>1 DEF IInv, TypeOK, TmpFits, SrcFits, OutFits
    <2>5. FilesFit'
      <3>1. files'[Target] \in Outcomes(copied) /\ Target' = Target
        BY <2>1, <2>2 DEF IInv, TypeOK, FilesFit, Outcomes, Target
      <3>2. Outcomes(copied)' = Outcomes(copied) /\ streams'.out = "closed"
        BY <2>1 DEF Outcomes, IInv, TypeOK
      <3> QED
        BY <2>1, <3>1, <3>2 DEF FilesFit
    <2>6. TextFits' /\ ExitFits'
      BY <2>1 DEF IInv, TypeOK, TextFits, OutFits, ExitFits
    <2> QED
      BY <2>3, <2>4, <2>5, <2>6 DEF IInv
  <1>14. CASE Done
    <2>1. TypeOK'
      BY <1>14 DEF Done, IInv, TypeOK
    <2>2. TmpFits' /\ SrcFits' /\ OutFits'
      BY <1>14 DEF Done, IInv, TypeOK, TmpFits, SrcFits, OutFits
    <2>3. FilesFit'
      BY <1>14 DEF Done, IInv, TypeOK, FilesFit, OutFits, Target, Outcomes
    <2>4. TextFits' /\ ExitFits'
      BY <1>14 DEF Done, IInv, TypeOK, TextFits, OutFits, ExitFits
    <2> QED
      BY <2>1, <2>2, <2>3, <2>4 DEF IInv
  <1>15. CASE UNCHANGED vars
    <2>0. TypeOK'
      BY <1>15 DEF vars, IInv, TypeOK
    <2>1. TmpFits' /\ SrcFits' /\ OutFits'
      BY <1>15 DEF vars, IInv, TmpFits, SrcFits, OutFits
    <2>2. FilesFit'
      BY <1>15 DEF vars, IInv, FilesFit, Target, Outcomes
    <2>3. TextFits' /\ ExitFits'
      BY <1>15 DEF vars, IInv, TextFits, ExitFits
    <2> QED
      BY <2>0, <2>1, <2>2, <2>3 DEF IInv
  <1> QED
    BY <1>1, <1>2, <1>3, <1>4, <1>5, <1>6, <1>7, <1>8, <1>9, <1>10, <1>11, <1>12, <1>13, <1>14, <1>15 DEF Next
-----------------------------------------------------------------------------
LEMMA Invariance == Spec => []IInv
  BY InitHolds, Inductive, PTL DEF Spec

(* Types, for every command line and every content of the files. *)
THEOREM TypesCorrect == Spec => []TypeOK
  <1>1. IInv => TypeOK
    BY DEF IInv
  <1> QED
    BY <1>1, Invariance, PTL

(* The exit status tells what has happened to the files. *)
THEOREM ExitStatusTells == Spec => []ExitTells
  <1>1. ASSUME IInv PROVE ExitTells
    <2>1. ASSUME streams.out = "unopened", NEW f \in Files
          PROVE  files[f].kind \in {"none", "source"}
      BY <1>1, <2>1, FilesTyped DEF IInv, FilesFit
    <2>2. exit \in {"failure", "no memory", "aborted"} => streams.out = "unopened"
      BY <1>1 DEF IInv, ExitFits, OutFits
    <2>3. errors => streams.out = "unopened"
      BY <1>1 DEF IInv, TextFits
    <2>4. ASSUME exit = "success", ~errors
          PROVE  /\ image \notin BadLabels \cup BadLines
                 /\ files[Target] \in {Objects!Object(image, ImageSize), Objects!Torn(image)}
      <3>1. streams.out = "closed" /\ copied = ImageSize
        BY <1>1, <2>4 DEF IInv, ExitFits, FilesFit
      <3> QED
        BY <1>1, <3>1 DEF IInv, FilesFit, TextFits, Outcomes
    <2> QED
      BY <2>1, <2>2, <2>3, <2>4 DEF ExitTells
  <1> QED
    BY <1>1, Invariance, PTL

(* However make returns no stream stays open, and the only one closed      *)
(* twice is CONTEXT.out, when the output could not be opened.              *)
THEOREM StreamsClosedOnce == Spec => []ClosedOnce
  <1>1. Init => ClosedOnce
    BY DEF Init, ClosedOnce
  <1>2. ASSUME IInv, ClosedOnce, [Next]_vars PROVE ClosedOnce'
    <2>1. CASE streams' = streams /\ exit' = exit /\ errors' = errors
      BY <1>2, <2>1 DEF ClosedOnce
    <2>2. CASE Done
      <3>1. CASE at = "done"
        <4>1. /\ streams.tmp = "open" /\ streams.src = "open"
              /\ streams.out \in {"unopened", "closed"}
          BY <1>2, <3>1 DEF IInv, TmpFits, SrcFits, OutFits
        <4> QED
          BY <1>2, <2>2, <3>1, <4>1 DEF Done, IInv, TypeOK, ClosedOnce
      <3>2. CASE at = "refused"
        <4>1. /\ streams.tmp = IF errors THEN "open" ELSE "closed"
              /\ streams.src = "open" /\ streams.out = "unopened"
          BY <1>2, <3>2 DEF IInv, TmpFits, SrcFits, OutFits
        <4> QED
          BY <1>2, <2>2, <3>2, <4>1 DEF Done, IInv, TypeOK, ClosedOnce
      <3> QED
        BY <2>2, <3>1, <3>2 DEF Done
    <2>3. ASSUME \A s \in Streams : streams'[s] # "closed twice",
                 exit' \in {"success", "failure", "aborted"} =>
                   \A s \in Streams : streams'[s] # "open"
          PROVE  ClosedOnce'
      BY <2>3 DEF ClosedOnce
    <2>4. at # "exit" => \A s \in Streams : streams[s] # "closed twice"
      BY <1>2 DEF IInv, TypeOK, TmpFits, SrcFits, OutFits
    <2>5. CASE NoArguments \/ ReadWord \/ EndOptions \/ ConsiderWord \/ EndSources
                 \/ MakeLabels \/ MakeAssemble \/ OutOfMemory \/ CopyByte
      <3>1. streams' = streams /\ at # "exit"
        BY <2>5 DEF NoArguments, ReadWord, EndOptions, ConsiderWord, EndSources,
             MakeLabels, MakeAssemble, OutOfMemory, CopyByte
      <3>2. at \in Choosing \/ exit' \in {"none", "no memory"}
        BY <1>2, <2>5 DEF NoArguments, ReadWord, EndOptions, ConsiderWord, EndSources,
             MakeLabels, MakeAssemble, OutOfMemory, CopyByte, IInv, ExitFits
      <3>3. at \in Choosing => \A s \in Streams : streams[s] = "unopened"
        BY <1>2 DEF IInv, TmpFits, SrcFits, OutFits
      <3> QED
        BY <2>3, <2>4, <3>1, <3>2, <3>3
    <2>6. CASE OpenTemporary \/ OpenSource
      <3>1. /\ \A s \in Streams : streams'[s] # "closed twice"
            /\ exit' # "none" => \A s \in Streams : streams'[s] # "open"
        <4>1. /\ exit = "none" /\ streams.src = "unopened" /\ streams.out = "unopened"
              /\ streams.tmp = IF at = "tmp" THEN "unopened" ELSE "open"
          BY <1>2, <2>6 DEF OpenTemporary, OpenSource, IInv, TmpFits, SrcFits,
               OutFits, ExitFits
        <4> QED
          BY <1>2, <2>6, <4>1 DEF OpenTemporary, OpenSource, IInv, TypeOK
      <3> QED
        BY <2>3, <3>1
    <2>7. CASE OpenOutput \/ CloseOutput
      <3>1. /\ exit' = "none"
            /\ \A s \in Streams : streams'[s] # "closed twice"
        BY <1>2, <2>4, <2>7 DEF OpenOutput, CloseOutput, IInv, TypeOK, TmpFits,
             OutFits, ExitFits
      <3> QED
        BY <2>3, <3>1
    <2> QED
      BY <1>2, <2>1, <2>2, <2>5, <2>6, <2>7 DEF Next, vars
  <1> QED
    BY <1>1, <1>2, InitHolds, Invariance, PTL DEF Spec

(* Until the output is opened the source is a file the run found; the word *)
(* that names the output never is the source, though it may lead to the    *)
(* source's file.                                                          *)
SourceApart ==
  /\ at = "options" => source = ""
  /\ source # "" => source # out
  /\ SourceKept

LEMMA SourceStaysApart ==
  ASSUME IInv, IInv', SourceApart, [Next]_vars
  PROVE  SourceApart'
  <1>0. (at = "options" => source = "")' /\ (source # "" => source # out)'
    BY DEF Next, vars, NoArguments, ReadWord, EndOptions, ConsiderWord, EndSources,
           OpenTemporary, OpenSource, MakeLabels, MakeAssemble, OutOfMemory,
           OpenOutput, CopyByte, CloseOutput, Done, Candidate, SourceApart
  <1>1. CASE streams'.out = "unopened"
    BY <1>0, <1>1 DEF SourceApart, SourceKept, IInv, TextFits
  <1>2. CASE streams'.out # "unopened"
    <2>1. UNCHANGED <<source, out>> /\ at' # "options"
      BY <1>2 DEF Next, vars, NoArguments, ReadWord, EndOptions, ConsiderWord,
             EndSources, OpenTemporary, OpenSource, MakeLabels, MakeAssemble,
             OutOfMemory, OpenOutput, CopyByte, CloseOutput, Done, IInv, OutFits
    <2>2. \A f \in Files : f # Target => files'[f] = files[f]
      BY DEF Next, vars, NoArguments, ReadWord, EndOptions, ConsiderWord,
             EndSources, OpenTemporary, OpenSource, MakeLabels, MakeAssemble,
             OutOfMemory, OpenOutput, CopyByte, CloseOutput, LoseBytes, Done, IInv, TypeOK
    <2>3. CASE source = ""
      BY <1>0, <2>1, <2>3 DEF SourceApart, SourceKept
    <2>4. CASE source # "" /\ FileAt[source] = Target
      BY <1>0, <2>1, <2>4 DEF SourceApart, SourceKept, Target
    <2>5. CASE source # "" /\ FileAt[source] # Target
      <3>1. FileAt[source] \in Files
        BY <2>5, PathsAssumption DEF IInv, TypeOK
      <3>2. files'[FileAt[source']] = files[FileAt[source]]
        BY <2>1, <2>2, <2>5, <3>1
      <3> QED
        BY <1>0, <2>1, <3>2 DEF SourceApart, SourceKept
    <2> QED
      BY <2>3, <2>4, <2>5
  <1> QED
    BY <1>1, <1>2

(* The run does not write over the text it has assembled, unless the       *)
(* output is another path to its file, or none is named and its file is    *)
(* that of a.out.                                                          *)
THEOREM SourceIsKept == Spec => []SourceKept
  <1>1. Init => SourceApart
    BY DEF Init, SourceApart, SourceKept
  <1>2. IInv /\ SourceApart => SourceKept
    BY DEF SourceApart
  <1> QED
    BY <1>1, <1>2, SourceStaysApart, Invariance, PTL DEF Spec

-----------------------------------------------------------------------------
(* The choice of the source.  getopt_long has moved the options in front:  *)
(* the words are considered in that order, and once an operand has been    *)
(* seen only operands are left.                                            *)

Seen == {k \in DOMAIN argv \ left : IsOperand(k) /\ Candidate(argv[k].path)}

LastSeenChosen ==
  Seen # {} => \E k \in Seen : argv[k].path = source /\ \A l \in Seen : l <= k

Consideration ==
  at = "sources" =>
    /\ \A k \in DOMAIN argv \ left : \A l \in left : Comes(k, l)
    /\ LastSeenChosen

LEMMA ConsiderWordInOrder ==
  ASSUME IInv, Consideration, ConsiderWord
  PROVE  Consideration'
  <1>1. PICK k \in left :
          /\ \A l \in left : Comes(k, l)
          /\ at = "sources" /\ left' = left \ {k}
          /\ source' = IF Candidate(argv[k].path) THEN argv[k].path ELSE source
          /\ UNCHANGED <<argv, files, out>>
    BY DEF ConsiderWord
  <1>2. /\ k \in DOMAIN argv /\ argv \in Seq(Words)
        /\ DOMAIN argv' \ left' = (DOMAIN argv \ left) \cup {k}
    BY <1>1, CommandLinesAssumption DEF IInv, TypeOK
  <1>3. /\ \A w \in DOMAIN argv : Candidate(argv[w].path)' <=> Candidate(argv[w].path)
        /\ \A w \in DOMAIN argv : IsOperand(w)' <=> IsOperand(w)
    BY <1>1 DEF Candidate, Exists, IsOperand
  <1>4. \A w \in DOMAIN argv \ left : Comes(w, k)
    BY <1>1 DEF Consideration
  <1>5. ASSUME NEW w \in DOMAIN argv' \ left', NEW l \in left'
        PROVE  Comes(w, l)'
    <2>1. w = k \/ w \in DOMAIN argv \ left
      BY <1>2
    <2>2. l \in left
      BY <1>1
    <2>3. Comes(w, l)
      BY <1>1, <2>1, <2>2 DEF Consideration
    <2> QED
      BY <1>1, <2>3 DEF Comes, IsOperand
  <1>6. Seen' = Seen \cup (IF IsOperand(k) /\ Candidate(argv[k].path) THEN {k} ELSE {})
    BY <1>1, <1>2, <1>3 DEF Seen
  <1>7. LastSeenChosen'
    <2>1. CASE IsOperand(k) /\ Candidate(argv[k].path)
      <3>1. source' = argv[k].path /\ k \in Seen' /\ argv' = argv
        BY <1>1, <1>6, <2>1
      <3>2. ASSUME NEW l \in Seen' PROVE l <= k
        <4>1. CASE l = k
          BY <1>2, <4>1
        <4>2. CASE l \in Seen
          BY <1>4, <2>1, <4>2 DEF Seen, Comes
        <4> QED
          BY <1>6, <4>1, <4>2
      <3> QED
        BY <3>1, <3>2 DEF LastSeenChosen
    <2>2. CASE IsOperand(k) /\ ~Candidate(argv[k].path)
      <3>1. Seen' = Seen /\ source' = source /\ argv' = argv
        BY <1>1, <1>6, <2>2
      <3> QED
        BY <1>1, <3>1 DEF Consideration, LastSeenChosen
    <2>3. CASE ~IsOperand(k)
      <3>1. Seen = {}
        BY <1>4, <2>3 DEF Seen, Comes
      <3> QED
        BY <1>6, <2>3, <3>1 DEF LastSeenChosen
    <2> QED
      BY <2>1, <2>2, <2>3
  <1> QED
    BY <1>5, <1>7 DEF Consideration

LEMMA ConsiderationStep ==
  ASSUME IInv, Consideration, OperandsBeforeArguments, [Next]_vars
  PROVE  Consideration' /\ OperandsBeforeArguments'
  <1>1. CASE ConsiderWord
    <2>1. at' = "sources"
      BY <1>1 DEF ConsiderWord
    <2> QED
      BY <1>1, <2>1, ConsiderWordInOrder DEF OperandsBeforeArguments
  <1>2. CASE EndOptions
    <2>1. at' = "sources" /\ left' = DOMAIN argv /\ argv' = argv
      BY <1>2 DEF EndOptions
    <2>2. Seen' = {}
      BY <2>1 DEF Seen
    <2> QED
      BY <2>1, <2>2 DEF Consideration, LastSeenChosen, OperandsBeforeArguments
  <1>3. CASE EndSources
    <2>1. /\ at = "sources" /\ at' # "sources" /\ left = {}
          /\ UNCHANGED <<argv, files, out, source>>
      BY <1>3 DEF EndSources
    <2>2. Seen = {k \in DOMAIN argv : IsOperand(k) /\ Candidate(argv[k].path)}
      BY <2>1 DEF Seen
    <2>3. OperandsBeforeArguments'
      BY <2>1, <2>2 DEF Consideration, LastSeenChosen, OperandsBeforeArguments,
         IsOperand, Candidate, Exists
    <2> QED
      BY <2>1, <2>3 DEF Consideration
  <1>4. CASE UNCHANGED vars
    BY <1>4 DEF vars, Consideration, LastSeenChosen, Seen, OperandsBeforeArguments,
       IsOperand, Candidate, Exists, Comes
  <1>5. CASE NoArguments \/ ReadWord \/ OpenTemporary \/ OpenSource \/ MakeLabels
               \/ MakeAssemble \/ OutOfMemory \/ OpenOutput \/ CopyByte \/ CloseOutput
               \/ Done
    <2>1. at' \notin {"sources", "tmp"}
      BY <1>5 DEF NoArguments, ReadWord, OpenTemporary, OpenSource, MakeLabels,
         MakeAssemble, OutOfMemory, OpenOutput, CopyByte, CloseOutput, Done
    <2> QED
      BY <2>1 DEF Consideration, OperandsBeforeArguments
  <1> QED
    BY <1>1, <1>2, <1>3, <1>4, <1>5 DEF Next

(* The text assembled is that of the last operand that can be one: the     *)
(* argument of an option only ever comes before it.                        *)
THEOREM OperandsAlwaysFirst == Spec => []OperandsBeforeArguments
  <1>1. Init => Consideration /\ OperandsBeforeArguments
    BY DEF Init, Consideration, OperandsBeforeArguments
  <1> QED
    BY <1>1, ConsiderationStep, Invariance, PTL DEF Spec

-----------------------------------------------------------------------------
(* The refinement: every step of the program is a step of Delivery or      *)
(* leaves its variables alone.                                             *)

LEMMA InitRefines == Init => Objects!Init
  BY DEF Init, Objects!Init, Job, Verdict, Objects!NoJob

LEMMA Stutters ==
  ASSUME files' = files, streams'.out = streams.out,
         \/ streams.out = "unopened" /\ exit' = exit
         \/ streams.out # "unopened" /\ UNCHANGED <<out, image>>,
         streams.out \in {"unopened", "open", "closed"}
  PROVE  UNCHANGED Objects!vars
  <1>1. CASE streams.out = "unopened"
    BY <1>1 DEF Objects!vars, Job, Verdict
  <1>2. CASE streams.out # "unopened"
    <2>1. UNCHANGED <<Target, image, files>> /\ streams'.out = streams.out
      BY <1>2 DEF Target
    <2>2. Job' = Job
      BY <2>1 DEF Job
    <2>3. Verdict' = Verdict
      BY <1>2, <2>1 DEF Verdict
    <2> QED
      BY <2>1, <2>2, <2>3 DEF Objects!vars
  <1> QED
    BY <1>1, <1>2

LEMMA Refuses ==
  ASSUME files' = files, streams.out = "unopened", streams'.out = "unopened",
         exit = "none", exit' # "none"
  PROVE  Objects!Refuse
  BY DEF Objects!Refuse, Job, Verdict

LEMMA OutputBegins ==
  ASSUME IInv, OpenOutput, streams'.out # streams.out
  PROVE  \E f \in Files, t \in Texts : Objects!Begin(f, t)
  <1>1. /\ at = "output" /\ ~errors /\ UNCHANGED <<out, image, exit>>
        /\ files' = [files EXCEPT ![Target] = Objects!Object(image, 0)]
        /\ streams.out = "unopened" /\ streams'.out = "open"
    BY DEF OpenOutput, IInv, TypeOK, OutFits
  <1>2. exit = "none"
    BY <1>1 DEF IInv, ExitFits
  <1>3. image = files[FileAt[source]].text /\ source \in Paths /\ image \in Texts
    BY <1>1, SourceTyped DEF IInv, TextFits
  <1>4. image \notin BadLabels \cup BadLines
    BY <1>1 DEF IInv, TextFits
  <1>5. files \in Untouched /\ files[FileAt[source]].kind = "source"
    BY <1>1, <1>3, PathsAssumption DEF IInv, FilesFit, TextFits
  <1>6. FileAt[source] \in Files /\ files[FileAt[source]] = Objects!Source(image)
    BY <1>3, <1>5, FilesTyped, PathsAssumption
  <1>7. Objects!Begin(Target, image)
    BY <1>1, <1>2, <1>3, <1>4, <1>6 DEF Objects!Begin, Job, Verdict, Target
  <1> QED
    BY <1>3, <1>7, TargetIsFile DEF IInv

LEMMA ByteExtends ==
  ASSUME IInv, CopyByte
  PROVE  Objects!Extend \/ Objects!Tear
  <1>1. /\ UNCHANGED <<out, image, streams, exit>> /\ streams.out = "open"
        /\ copied' = copied + 1 /\ copied < ImageSize
        /\ files[Target] \in Outcomes(copied)
    BY DEF CopyByte, IInv, OutFits, FilesFit
  <1>2. UNCHANGED Job /\ Verdict = "delivering" /\ Verdict' = "delivering"
        /\ Job.file = Target /\ Job.text = image
    BY <1>1 DEF Job, Verdict, Target
  <1>3. CASE /\ files[Target].kind = "object"
             /\ files' = [files EXCEPT ![Target] = Objects!Object(image, copied')]
    <2>1. files[Target] = Objects!Object(image, copied)
      BY <1>1, <1>3 DEF Outcomes, Objects!Torn
    <2>2. files[Target].bytes = copied
      BY <2>1 DEF Objects!Object
    <2> QED
      BY <1>1, <1>2, <1>3, <2>2 DEF Objects!Extend
  <1>4. CASE LoseBytes
    BY <1>2, <1>4 DEF LoseBytes, Objects!Tear
  <1> QED
    BY <1>3, <1>4 DEF CopyByte

LEMMA CloseDelivers ==
  ASSUME IInv, CloseOutput
  PROVE  Objects!Deliver \/ Objects!Tear
  <1>1. /\ UNCHANGED <<out, image, exit>> /\ copied = ImageSize
        /\ streams.out = "open" /\ streams'.out = "closed"
        /\ files[Target] \in Outcomes(ImageSize) /\ Target \in Files
    BY TargetIsFile DEF CloseOutput, IInv, TypeOK, OutFits, FilesFit
  <1>2. /\ UNCHANGED Job /\ Verdict = "delivering"
        /\ Job.file = Target /\ Job.text = image
        /\ Verdict' = IF files'[Target].kind = "torn" THEN "torn" ELSE "delivered"
    BY <1>1 DEF Job, Verdict, Target
  <1>3. CASE UNCHANGED files /\ files[Target] = Objects!Object(image, ImageSize)
    BY <1>2, <1>3 DEF Objects!Deliver, Objects!Object
  <1>4. ASSUME files' = [files EXCEPT ![Target] = Objects!Torn(image)]
        PROVE  Objects!Tear
    <2>1. files'[Target].kind = "torn"
      BY <1>1, <1>4 DEF Objects!Torn, IInv, TypeOK
    <2> QED
      BY <1>2, <1>4, <2>1 DEF Objects!Tear
  <1>5. CASE UNCHANGED files /\ files[Target] = Objects!Torn(image)
    BY <1>4, <1>5 DEF IInv, TypeOK
  <1> QED
    BY <1>1, <1>3, <1>4, <1>5 DEF CloseOutput, LoseBytes, Outcomes

(* main, and make as long as the output is not opened, change the files    *)
(* no more than a refusal does.                                            *)
EarlyStep ==
  \/ NoArguments \/ ReadWord \/ EndOptions \/ ConsiderWord \/ EndSources
  \/ OpenTemporary \/ OpenSource \/ MakeLabels \/ MakeAssemble \/ OutOfMemory

LEMMA EarlyStepRefines ==
  ASSUME IInv, EarlyStep
  PROVE  Objects!Refuse \/ UNCHANGED Objects!vars
  <1>1. at \in Choosing \cup Passes \cup {"tmp", "src"}
    BY DEF EarlyStep, NoArguments, ReadWord, EndOptions, ConsiderWord, EndSources,
           OpenTemporary, OpenSource, MakeLabels, MakeAssemble, OutOfMemory
  <1>2. streams.out = "unopened" /\ exit = "none"
    BY <1>1 DEF IInv, OutFits, ExitFits
  <1>3. files' = files
    BY DEF EarlyStep, NoArguments, ReadWord, EndOptions, ConsiderWord, EndSources,
           OpenTemporary, OpenSource, MakeLabels, MakeAssemble, OutOfMemory
  <1>4. streams'.out = streams.out
    BY DEF EarlyStep, NoArguments, ReadWord, EndOptions, ConsiderWord, EndSources,
           OpenTemporary, OpenSource, MakeLabels, MakeAssemble, OutOfMemory,
           IInv, TypeOK
  <1> QED
    BY <1>2, <1>3, <1>4, Stutters, Refuses

LEMMA DoneRefines ==
  ASSUME IInv, Done
  PROVE  Objects!Refuse \/ UNCHANGED Objects!vars
  <1>1. /\ at \in {"done", "refused"} /\ files' = files /\ exit' # "none"
        /\ UNCHANGED <<out, image>>
    BY DEF Done
  <1>2. exit = "none" /\ streams.out \in {"unopened", "closed"}
    BY <1>1 DEF IInv, OutFits, ExitFits
  <1>3. streams'.out = streams.out
    BY DEF Done, IInv, TypeOK
  <1> QED
    BY <1>1, <1>2, <1>3, Stutters, Refuses

LEMMA StepRefines == IInv /\ [Next]_vars => [Objects!Next]_Objects!vars
  <1> SUFFICES ASSUME IInv, [Next]_vars PROVE Objects!Next \/ UNCHANGED Objects!vars
    OBVIOUS
  <1>0. streams.out \in {"unopened", "open", "closed"}
    BY DEF IInv, OutFits
  <1>1. CASE EarlyStep
    BY <1>1, EarlyStepRefines DEF Objects!Next
  <1>2. CASE OpenOutput
    <2>1. CASE streams'.out = streams.out
      <3>1. files' = files /\ exit' = exit /\ streams.out = "unopened"
        BY <1>2, <2>1 DEF OpenOutput, IInv, TypeOK, OutFits
      <3> QED
        BY <2>1, <3>1, Stutters
    <2>2. CASE streams'.out # streams.out
      BY <1>2, <2>2, OutputBegins DEF Objects!Next
    <2> QED
      BY <2>1, <2>2
  <1>3. CASE CopyByte
    BY <1>3, ByteExtends DEF Objects!Next
  <1>4. CASE CloseOutput
    BY <1>4, CloseDelivers DEF Objects!Next
  <1>5. CASE Done
    BY <1>5, DoneRefines DEF Objects!Next
  <1>6. CASE UNCHANGED vars
    BY <1>0, <1>6, Stutters DEF vars
  <1> QED
    BY <1>1, <1>2, <1>3, <1>4, <1>5, <1>6 DEF Next, EarlyStep

(* The program implements Delivery: whatever the command line, the paths,  *)
(* the files and the failures, at most one file changes, and only into the *)
(* object of a text without errors, which is whole unless bytes were lost. *)
THEOREM DriverImplementsDelivery == Spec => DeliversOrRefuses
  BY InitHolds, InitRefines, StepRefines, Invariance, PTL
     DEF Spec, DeliversOrRefuses, Objects!Safety
=============================================================================
