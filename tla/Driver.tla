------------------------------- MODULE Driver -------------------------------
(***************************************************************************)
(* One run of the program: main of myasm.c chooses the files, make of      *)
(* assemble.c opens them, runs the passes and copies the object out.       *)
(*                                                                         *)
(* A word of the command line is an operand, an -o with its argument, or   *)
(* an option getopt_long rejects.  What the two passes and writeElf do     *)
(* inside is left to the modules Assembler and ElfWriter; here a text      *)
(* counts only by the pass that finds errors in it.                        *)
(***************************************************************************)
EXTENDS Naturals, Sequences

CONSTANTS
  Files, Texts, ImageSize,  \* as in Delivery
  Paths,        \* what files are called on the command line
  FileAt,       \* the file every path leads to
  BadLabels,    \* texts in which makeLabels finds an error
  BadLines,     \* texts in which makeAssemble finds an error
  CommandLines  \* sequences of words

Default == "a.out"

Words == [kind : {"operand", "o", "bad"}, path : Paths]

ASSUME PathsAssumption ==
  Default \in Paths /\ "" \notin Paths /\ FileAt \in [Paths -> Files]
ASSUME CommandLinesAssumption == CommandLines \subseteq Seq(Words)
ASSUME FaultsAssumption == BadLabels \subseteq Texts /\ BadLines \subseteq Texts
ASSUME SizesAssumption == ImageSize \in Nat

VARIABLES
  argv,     \* the words behind the program's name
  files,    \* the content of every file
  at,       \* where main and make are
  left,     \* the words main has not looked at yet
  out,      \* out_name; "" is NULL
  source,   \* source; "" is NULL
  errors,   \* ERRORS
  streams,  \* CONTEXT.out, CONTEXT.cur_src and the local out
  image,    \* the text CONTEXT.out holds the object of
  copied,   \* the bytes copied from it
  exit      \* the exit status, "none" while running

choice == <<argv, left, out, source>>
vars == <<choice, files, at, errors, streams, image, copied, exit>>

(* How a run looks from outside. *)
Target == FileAt[IF out = "" THEN Default ELSE out]

Job ==
  IF streams.out = "unopened" THEN [file |-> "", text |-> ""]
  ELSE [file |-> Target, text |-> image]

Verdict ==
  CASE streams.out = "open"   -> "delivering"
    [] streams.out = "closed" ->
         IF files[Target].kind = "torn" THEN "torn" ELSE "delivered"
    [] OTHER                  -> IF exit = "none" THEN "open" ELSE "refused"

Objects == INSTANCE Delivery WITH
  Accepted <- Texts \ (BadLabels \cup BadLines),
  disk <- files, job <- Job, verdict <- Verdict

Streams == {"tmp", "src", "out"}

Init ==
  /\ argv \in CommandLines
  /\ files \in [Files -> {Objects!None} \cup {Objects!Source(t) : t \in Texts}]
  /\ at = "options"
  /\ left = DOMAIN argv
  /\ out = "" /\ source = ""
  /\ errors = FALSE
  /\ streams = [s \in Streams |-> "unopened"]
  /\ image = "" /\ copied = 0
  /\ exit = "none"

Goto(from, to) == at = from /\ at' = to /\ UNCHANGED exit
Leave(from, status) == at = from /\ at' = "exit" /\ exit' = status

Open(s) == streams' = [streams EXCEPT ![s] = "open"]
Closed(s, st) ==
  [st EXCEPT ![s] = IF @ = "open" THEN "closed" ELSE "closed twice"]

-----------------------------------------------------------------------------
(* main *)

UnchangedByMain == UNCHANGED <<argv, files, errors, streams, image, copied>>

NoArguments ==
  /\ argv = <<>>
  /\ Leave("options", "failure")
  /\ UNCHANGED <<left, out, source>>
  /\ UnchangedByMain

(* One call of getopt_long, which passes over operands. *)
ReadWord ==
  \E k \in left :
    /\ \A l \in left : k <= l
    /\ IF argv[k].kind = "bad"
       THEN Leave("options", "failure") /\ UNCHANGED <<left, out>>
       ELSE /\ Goto("options", "options")
            /\ left' = left \ {k}
            /\ out' = IF argv[k].kind = "o" THEN argv[k].path ELSE out
    /\ UNCHANGED source
    /\ UnchangedByMain

EndOptions ==
  /\ argv # <<>>
  /\ left = {}
  /\ Goto("options", "sources")
  /\ left' = DOMAIN argv
  /\ UNCHANGED <<out, source>>
  /\ UnchangedByMain

IsOperand(k) == argv[k].kind = "operand"

(* Mutant: the words stay in the order they are written in. *)
ComesAsWritten(k, l) == k <= l

(* getopt_long has moved the operands behind the options. *)
Comes(k, l) == IF IsOperand(k) = IsOperand(l) THEN k <= l ELSE IsOperand(l)

(* access: the path leads to a file. *)
Exists(p) == files[FileAt[p]].kind # "none"

(* Mutant: the word that names the output is a source like any other. *)
CandidateOutput(p) == Exists(p)

(* strcmp tells paths apart, not the files they lead to. *)
Candidate(p) == Exists(p) /\ p # out

(* The argument of -o is a word as well. *)
ConsiderWord ==
  \E k \in left :
    /\ \A l \in left : Comes(k, l)
    /\ Goto("sources", "sources")
    /\ left' = left \ {k}
    /\ source' = IF Candidate(argv[k].path) THEN argv[k].path ELSE source
    /\ UNCHANGED out
    /\ UnchangedByMain

EndSources ==
  /\ left = {}
  /\ IF source = "" THEN Leave("sources", "failure") ELSE Goto("sources", "tmp")
  /\ UNCHANGED <<left, out, source>>
  /\ UnchangedByMain

-----------------------------------------------------------------------------
(* make *)

OpenTemporary ==
  /\ \/ Goto("tmp", "src") /\ Open("tmp")
     \/ Leave("tmp", "failure") /\ UNCHANGED streams
  /\ UNCHANGED <<choice, files, errors, image, copied>>

(* access has found the file, which does not say that it opens. *)
OpenSource ==
  /\ \/ Goto("src", "labels") /\ Open("src")
     \/ Leave("src", "failure") /\ streams' = Closed("tmp", streams)
  /\ UNCHANGED <<choice, files, errors, image, copied>>

MakeLabels ==
  /\ at = "labels"
  /\ errors' = (errors \/ files[FileAt[source]].text \in BadLabels)
  /\ Goto("labels", IF errors' THEN "refused" ELSE "lines")
  /\ UNCHANGED <<choice, files, streams, image, copied>>

(* writeElf follows an assembly with errors as well. *)
MakeAssemble ==
  /\ at = "lines"
  /\ errors' = (errors \/ files[FileAt[source]].text \in BadLines)
  /\ image' = files[FileAt[source]].text
  /\ Goto("lines", "output")
  /\ UNCHANGED <<choice, files, streams, copied>>

(* xmalloc, xcalloc and xrealloc leave the program from within the passes. *)
OutOfMemory ==
  /\ at \in {"labels", "lines"}
  /\ Leave(at, "no memory")
  /\ UNCHANGED <<choice, files, errors, streams, image, copied>>

(* Mutant: the output is written whatever pass 2 has reported. *)
OpenOutputAnyway ==
  /\ Goto("output", "copy")
  /\ Open("out")
  /\ files' = [files EXCEPT ![Target] = Objects!Object(image, 0)]
  /\ UNCHANGED <<choice, errors, image, copied>>

OpenOutput ==
  /\ \/ /\ errors
        /\ Goto("output", "done")
        /\ UNCHANGED <<files, streams>>
     \/ /\ ~errors
        /\ Goto("output", "copy")
        /\ Open("out")
        /\ files' = [files EXCEPT ![Target] = Objects!Object(image, 0)]
     \/ /\ ~errors
        /\ Goto("output", "refused")
        /\ streams' = Closed("tmp", streams)
        /\ UNCHANGED files
  /\ UNCHANGED <<choice, errors, image, copied>>

(* Mutant: the character is kept in a char, which is never EOF. *)
CopyByteForever ==
  /\ Goto("copy", "copy")
  /\ UNCHANGED <<choice, files, copied, errors, streams, image>>

(* The output loses what a full disk or a failing device does not take. *)
LoseBytes == files' = [files EXCEPT ![Target] = Objects!Torn(image)]

(* Nobody looks whether fputc has stored the byte. *)
CopyByte ==
  /\ copied < ImageSize
  /\ Goto("copy", "copy")
  /\ copied' = copied + 1
  /\ \/ /\ files[Target].kind = "object"
        /\ files' = [files EXCEPT ![Target] = Objects!Object(image, copied')]
     \/ LoseBytes
  /\ UNCHANGED <<choice, errors, streams, image>>

(* Mutant: the last byte is taken for the end of the file. *)
CloseOutputEarly ==
  /\ copied >= ImageSize - 1
  /\ Goto("copy", "done")
  /\ streams' = Closed("out", streams)
  /\ UNCHANGED <<choice, files, errors, image, copied>>

(* fclose writes what is still buffered; nobody looks whether it could. *)
CloseOutput ==
  /\ copied = ImageSize
  /\ Goto("copy", "done")
  /\ streams' = Closed("out", streams)
  /\ UNCHANGED files \/ LoseBytes
  /\ UNCHANGED <<choice, errors, image, copied>>

(* Mutant: the temporary file stays open. *)
DoneWithoutOut ==
  /\ streams' = Closed("src", streams)
  /\ \/ Leave("done", "success")
     \/ Leave("refused", "failure")
  /\ UNCHANGED <<choice, files, errors, image, copied>>

(* The label done.  Closing CONTEXT.out again is undefined: the program    *)
(* goes on or is aborted.                                                  *)
Done ==
  /\ streams' = Closed("tmp", Closed("src", streams))
  /\ \/ Leave("done", "success")
     \/ Leave("refused", "failure")
     \/ streams.tmp = "closed" /\ Leave("refused", "aborted")
  /\ UNCHANGED <<choice, files, errors, image, copied>>

Next ==
  \/ NoArguments \/ ReadWord \/ EndOptions \/ ConsiderWord \/ EndSources
  \/ OpenTemporary \/ OpenSource \/ MakeLabels \/ MakeAssemble \/ OutOfMemory
  \/ OpenOutput \/ CopyByte \/ CloseOutput \/ Done

(* The program runs alone until it exits. *)
Spec == Init /\ [][Next]_vars /\ WF_vars(Next)

-----------------------------------------------------------------------------
(* Properties. *)

TypeOK ==
  /\ argv \in CommandLines
  /\ files \in [Files -> [kind : {"none", "source", "object", "torn"},
                          text : Texts \cup {""}, bytes : 0 .. ImageSize]]
  /\ at \in {"options", "sources", "tmp", "src", "labels", "lines", "output",
             "copy", "done", "refused", "exit"}
  /\ left \subseteq DOMAIN argv
  /\ out \in Paths \cup {""} /\ source \in Paths \cup {""}
  /\ errors \in BOOLEAN
  /\ streams \in [Streams -> {"unopened", "open", "closed", "closed twice"}]
  /\ image \in Texts \cup {""}
  /\ copied \in 0 .. ImageSize
  /\ exit \in {"none", "success", "failure", "no memory", "aborted"}

(* A run leaves every file alone or replaces the one it was asked for by   *)
(* the whole object of an accepted text; an output that loses bytes counts *)
(* as torn and not as delivered (make of assemble.c and main of myasm.c    *)
(* together).                                                              *)
DeliversOrRefuses == Objects!Safety

(* And it comes to an end: every loop of main and make does.               *)
Ends == <>(Verdict \in {"delivered", "torn", "refused"})

(* Whenever make returns, with whatever result, it has left no stream open *)
(* and has closed none twice, with one exception: after an output that     *)
(* cannot be opened CONTEXT.out is.  (Without memory make does not return: *)
(* the program exits from within.)                                         *)
ClosedOnce ==
  /\ exit \in {"success", "failure", "aborted"} =>
       \A s \in Streams : streams[s] # "open"
  /\ "closed twice" \in {streams[s] : s \in Streams} =>
       /\ streams = [tmp |-> "closed twice", src |-> "closed", out |-> "unopened"]
       /\ ~errors /\ exit \in {"failure", "aborted"}

(* The file assembled is the last operand that leads to a file and is not  *)
(* spelled like the output; the argument of an earlier -o becomes the      *)
(* source only when there is no such operand.                              *)
OperandsBeforeArguments ==
  at = "tmp" =>
    LET operands == {k \in DOMAIN argv : IsOperand(k) /\ Candidate(argv[k].path)}
    IN  operands # {} =>
          \E k \in operands :
            argv[k].path = source /\ \A l \in operands : l <= k

(* The text that is assembled is still there afterwards, but for two ways  *)
(* of naming its file twice: the output is another spelling of its path,   *)
(* or no output is named and its path leads to the file of a.out.          *)
SourceKept ==
  source # "" /\ files[FileAt[source]].kind # "source" =>
    IF out = "" THEN FileAt[source] = FileAt[Default]
    ELSE source # out /\ FileAt[source] = FileAt[out]

(* The exit status: failure means that no file was written, and success    *)
(* that the output holds the whole object of a text without errors or has  *)
(* lost bytes; after errors of pass 2 no file was written either.          *)
ExitTells ==
  /\ exit \in {"failure", "no memory", "aborted"} \/ (exit = "success" /\ errors) =>
       \A f \in Files : files[f].kind \in {"none", "source"}
  /\ exit = "success" /\ ~errors =>
       /\ image \notin BadLabels \cup BadLines
       /\ files[Target] \in {Objects!Object(image, ImageSize), Objects!Torn(image)}

(* test/Makefile:19: objcopy reads the object whenever the assembler has   *)
(* returned success.                                                       *)
SuccessDelivers ==
  exit = "success" => files[Target] = Objects!Object(image, ImageSize)
=============================================================================
