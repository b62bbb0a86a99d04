------------------------------ MODULE Delivery ------------------------------
(***************************************************************************)
(* What one run of the assembler promises about the files around it,       *)
(* whatever it does inside: it either leaves every file as it found it, or *)
(* replaces exactly one by the object of a text it has accepted, from the  *)
(* front to the end.  When the system loses bytes on the way the file is   *)
(* torn, and only a whole object is delivered.  Driver implements it.      *)
(***************************************************************************)
EXTENDS Naturals

CONSTANTS
  Files,      \* the files a run may meet, whatever they are called
  Texts,      \* the texts files can hold before the run
  Accepted,   \* those the assembler accepts
  ImageSize   \* the bytes of an object

None == [kind |-> "none", text |-> "", bytes |-> 0]
Source(t) == [kind |-> "source", text |-> t, bytes |-> 0]
Object(t, n) == [kind |-> "object", text |-> t, bytes |-> n]

(* What is left of an object that has lost bytes. *)
Torn(t) == [kind |-> "torn", text |-> t, bytes |-> 0]

NoJob == [file |-> "", text |-> ""]

VARIABLES
  disk,     \* the content of every file
  job,      \* the file being replaced and the text it is the object of
  verdict   \* "open", "delivering", "delivered", "torn" or "refused"

vars == <<disk, job, verdict>>

Init ==
  /\ disk \in [Files -> {None} \cup {Source(t) : t \in Texts}]
  /\ job = NoJob
  /\ verdict = "open"

Refuse ==
  /\ verdict = "open"
  /\ verdict' = "refused"
  /\ UNCHANGED <<disk, job>>

Begin(f, t) ==
  /\ verdict = "open"
  /\ \E g \in Files : disk[g] = Source(t)
  /\ t \in Accepted
  /\ disk' = [disk EXCEPT ![f] = Object(t, 0)]
  /\ job' = [file |-> f, text |-> t]
  /\ verdict' = "delivering"

Extend ==
  /\ verdict = "delivering"
  /\ disk[job.file].kind = "object"
  /\ disk[job.file].bytes < ImageSize
  /\ disk' = [disk EXCEPT ![job.file] = Object(job.text, @.bytes + 1)]
  /\ UNCHANGED <<job, verdict>>

Tear ==
  /\ verdict = "delivering"
  /\ disk' = [disk EXCEPT ![job.file] = Torn(job.text)]
  /\ verdict' \in {"delivering", "torn"}
  /\ UNCHANGED job

Deliver ==
  /\ verdict = "delivering"
  /\ disk[job.file] = Object(job.text, ImageSize)
  /\ verdict' = "delivered"
  /\ UNCHANGED <<disk, job>>

Next ==
  \/ Refuse
  \/ \E f \in Files, t \in Texts : Begin(f, t)
  \/ Extend
  \/ Tear
  \/ Deliver

Safety == Init /\ [][Next]_vars

Spec == Safety /\ WF_vars(Next)
=============================================================================
