------------------------------- MODULE Drivers -------------------------------
(***************************************************************************)
(* ivan-cc, ivan-as and ivan-ld as whole programs (src/cc.c, src/as.c,     *)
(* src/ld.c): the order in which they read, open, link, write and make     *)
(* runnable, over the one file they share with the rest of the world,      *)
(* their output.  What the front ends make of their input is left open;    *)
(* links are those of Link.  A disk may be full at any write.              *)
(***************************************************************************)
EXTENDS Link

CONSTANTS
  MaxPlaces,   \* LINK_MAX_PLACE
  OldFiles     \* what may be at the output's path beforehand

Files == [content : {"absent", "old", "empty", "part", "whole"},
          kind : {"none", "text", "object", "executable"}, runnable : BOOLEAN]

ASSUME OldFilesAssumption == OldFiles \subseteq Files

VARIABLES
  job,      \* the tool and its flags
  step,     \* how far its main has got
  file,     \* what is at the output's path: content, kind, runnable
  before,   \* what was there when the tool started
  status    \* the exit status, once step is "exited"

driverVars == <<job, step, file, before, status>>
vars == <<linkVars, driverVars>>

Jobs == [tool : {"cc"}, flags : SUBSET {"-S", "-c"}] \union [tool : {"as"}, flags : {{}}]
        \union [tool : {"ld"}, flags : SUBSET {"-r"}]

(* What a job is to write: -S goes before -c. *)
Emits ==
  CASE "-S" \in job.flags -> "text"
    [] job.tool = "as" \/ "-r" \in job.flags \/ job.flags = {"-c"} -> "object"
    [] OTHER -> "executable"

Links == job.tool = "ld" \/ Emits = "executable"

(* ivan-ld starts from nothing, ivan-cc from what it encoded, without any  *)
(* -place; a job without a link has an object of its own.                  *)
Suits ==
  /\ Links <=> Len(units) > 1
  /\ job.tool = "ld" => units[1].secs = << >> /\ units[1].syms = << >>
  /\ opts.relocatable = (Emits # "executable")
  /\ job.tool # "ld" => opts.places = << >>

Init ==
  /\ LinkInit
  /\ job \in Jobs /\ Suits
  /\ step = "front"
  /\ before \in OldFiles /\ file = before
  /\ status = 0

Exit(code) == step' = "exited" /\ status' = code

(* The source does not parse or makes no sense, or cannot be read. *)
InputRefused ==
  /\ step = "front" /\ job.tool \in {"cc", "as"}
  /\ Exit(1)
  /\ UNCHANGED <<linkVars, job, file, before>>

InputAccepted ==
  /\ step = "front" /\ job.tool \in {"cc", "as"}
  /\ step' = "open"
  /\ UNCHANGED <<linkVars, job, file, before, status>>

TooManyPlaces ==
  /\ step = "front" /\ job.tool = "ld"
  /\ Len(opts.places) > MaxPlaces
  /\ Exit(1)
  /\ UNCHANGED <<linkVars, job, file, before>>

(* The output opened with the options read, before the link. *)
OptionsReadAndOpened ==
  /\ step = "front" /\ job.tool = "ld"
  /\ Len(opts.places) <= MaxPlaces
  /\ step' = "link"
  /\ file' = [content |-> "empty", kind |-> "none", runnable |-> file.runnable]
  /\ UNCHANGED <<linkVars, job, before, status>>

OptionsRead ==
  /\ step = "front" /\ job.tool = "ld"
  /\ Len(opts.places) <= MaxPlaces
  /\ step' = "link"
  /\ UNCHANGED <<linkVars, job, file, before, status>>

CannotOpen ==
  /\ step = "open"
  /\ Exit(1)
  /\ UNCHANGED <<linkVars, job, file, before>>

(* fopen empties the file; who may run it stays as it was. *)
OpenOutput ==
  /\ step = "open"
  /\ file' = [content |-> "empty", kind |-> "none", runnable |-> file.runnable]
  /\ step' = IF job.tool = "cc" THEN "emit" ELSE "write"
  /\ UNCHANGED <<linkVars, job, before, status>>

(* ivan-cc generates code, and encodes it, with its output already open. *)
CannotGenerate ==
  /\ step = "emit"
  /\ Exit(1)
  /\ UNCHANGED <<linkVars, job, file, before>>

Generate ==
  /\ step = "emit"
  /\ step' = IF Links THEN "link" ELSE "write"
  /\ UNCHANGED <<linkVars, job, file, before, status>>

Linking ==
  /\ step = "link"
  /\ LinkNext
  /\ UNCHANGED driverVars

LinkFailed ==
  /\ step = "link" /\ pc = "failed"
  /\ Exit(1)
  /\ UNCHANGED <<linkVars, job, file, before>>

Linked ==
  /\ step = "link" /\ pc = "linked"
  /\ step' = IF job.tool = "cc" THEN "write" ELSE "open"
  /\ UNCHANGED <<linkVars, job, file, before, status>>

Kind == IF Emits = "text" THEN "text" ELSE IF etype = "EXEC" THEN "executable" ELSE "object"

(* No tool learns how much of its output fitted on the disk: fwrite and    *)
(* fclose are not asked.                                                   *)
WriteOutput ==
  /\ step = "write"
  /\ \E content \in {"empty", "part", "whole"} : file' = [file EXCEPT !.content = content, !.kind = Kind]
  /\ step' = "chmod"
  /\ UNCHANGED <<linkVars, job, before, status>>

(* The output of ivan-cc made runnable whatever it is. *)
MakeRunnableAlways ==
  /\ step = "chmod"
  /\ file' = [file EXCEPT !.runnable = TRUE]
  /\ Exit(0)
  /\ UNCHANGED <<linkVars, job, before>>

MakeRunnable ==
  /\ step = "chmod"
  /\ file' = [file EXCEPT !.runnable = @ \/ Emits = "executable"]
  /\ Exit(0)
  /\ UNCHANGED <<linkVars, job, before>>

Next ==
  \/ InputRefused \/ InputAccepted \/ TooManyPlaces \/ OptionsRead
  \/ CannotOpen \/ OpenOutput \/ CannotGenerate \/ Generate
  \/ Linking \/ LinkFailed \/ Linked
  \/ WriteOutput \/ MakeRunnable

(* Each tool is one thread that nothing blocks: it runs until it exits. *)
Spec == Init /\ [][Next]_vars /\ WF_vars(Next)

-----------------------------------------------------------------------------
(* Properties.                                                             *)

Exited(code) == step = "exited" /\ status = code

(* A tool that fails, at whatever point and for whatever reason, leaves no *)
(* half of an output.  ivan-as and ivan-ld, which open it last (as.c:35,   *)
(* ld.c:97), leave what was there; ivan-cc opens it before it generates    *)
(* and links (cc.c:209), and may leave it empty, as runnable as it was.    *)
FailureKeepsOutput ==
  Exited(1) =>
    \/ file = before
    \/ job.tool = "cc" /\ file.content = "empty" /\ file.runnable = before.runnable

(* A tool that succeeds has written what its flags asked for, of a link    *)
(* that did not fail; it makes an executable runnable, and nothing else    *)
(* that was not.                                                           *)
SuccessDelivers ==
  Exited(0) =>
    /\ file.kind = Emits
    /\ Links => pc = "linked"
    /\ file.runnable = (Emits = "executable" \/ before.runnable)

(* Every run of a tool ends: no loop of Link_Merge, Link_PlaceSections or  *)
(* Rel_x86_64_Apply runs for ever, and no check waits for another.         *)
Exits == <>(step = "exited")

=============================================================================
