----------------------------- MODULE HtmlPublish -----------------------------
(***************************************************************************)
(* The publication of the HTML documentation: build-html-docs.py renders a *)
(* tree beside the published one, has it checked, and puts it in its       *)
(* place; install-html-docs.py copies the published tree.  Either may end  *)
(* between any two of its steps, by an exception or because it is killed,  *)
(* and what it reads may be edited between any two of them.                *)
(*                                                                         *)
(* A directory is the set of its files.  Temporary trees that interrupted  *)
(* runs leave behind have names of their own and are not looked at again,  *)
(* so the two ways to end differ in nothing that is kept here.             *)
(***************************************************************************)
EXTENDS Integers, FiniteSets

CONSTANTS
  Names, Index,            \* The artifacts required; "index.html".
  Api,                     \* Those that Doxygen makes of the public headers.
  MaxEdits,                \* How often the sources, or the headers, are edited
  MaxFaults                \* and how often a run fails, in a behaviour.

ASSUME PublishAssumption ==
  /\ Index \in Names /\ Api \subseteq Names
  /\ {MaxEdits, MaxFaults} \subseteq Nat

VARIABLES
  source,                  \* The version of html_docs_sources, the inputs of
  headers,                 \* the target; that of the headers, which are none.
  build,                   \* Which build was the last, and what it began with.
  temporary, output, installed,
  stamp,                   \* The inputs the stamp is newer than, or 0.
  step,                    \* What the tool that runs does next, or "idle".
  exit,                    \* How the last run ended.
  faults

sources == <<source, headers>>
trees == <<temporary, output, installed>>
vars == <<sources, build, trees, stamp, step, exit, faults>>

FileKept(n, sound) ==                                             \* mutant
  IF n \in {f.name : f \in output}
    THEN [CHOOSE f \in output : f.name = n EXCEPT !.build = build.number, !.sound = sound]
    ELSE [name |-> n, sound |-> sound, build |-> build.number,
          source |-> source, headers |-> IF n \in Api THEN headers ELSE 0]

(* A file that a build has made of what it found at that moment, sound or  *)
(* with a link that is broken.                                             *)
File(n, sound) ==
  [name |-> n, sound |-> sound, build |-> build.number,
   source |-> source, headers |-> IF n \in Api THEN headers ELSE 0]

NamesIn(dir) == {f.name : f \in dir}

CheckedPresence(dir) == NamesIn(dir) = Names                      \* mutant

(* check-html-docs.py: nothing required is missing, no link is broken.     *)
Checked(dir) == NamesIn(dir) = Names /\ \A f \in dir : f.sound

-----------------------------------------------------------------------------
StampAlways == source                                             \* mutant

StampOnFailure == stamp

(* A tool ends early.                                                      *)
Abort ==
  /\ step' = "idle" /\ exit' = "failed" /\ temporary' = {}
  /\ stamp' = StampOnFailure
  /\ UNCHANGED <<sources, build, output, installed>>

Fault ==
  /\ step # "idle" /\ faults < MaxFaults
  /\ faults' = faults + 1
  /\ Abort

Goto(next) == step' = next /\ UNCHANGED <<sources, stamp, exit>>

(* The html-docs target: the tool is run when there is no stamp or one of  *)
(* html_docs_sources is newer.  The headers are not among them.            *)
UpToDate == stamp = source

StartBuild ==
  /\ step = "idle" /\ ~UpToDate
  /\ build' = [number |-> build.number + 1, source |-> source, headers |-> headers]
  /\ Goto("render")
  /\ UNCHANGED <<trees, faults>>

(* Copying, Pandoc and, when they are through, Doxygen make one artifact   *)
(* after the other.                                                        *)
Render(n) ==
  /\ step = "render" /\ n \in Names \ NamesIn(temporary)
  /\ n \in Api => Names \ Api \subseteq NamesIn(temporary)
  /\ \E sound \in BOOLEAN :
       /\ sound \/ faults < MaxFaults
       /\ temporary' = temporary \union {File(n, sound)}
       /\ faults' = IF sound THEN faults ELSE faults + 1
  /\ UNCHANGED <<sources, build, output, installed, stamp, step, exit>>

(* The tools report success, perhaps without having written all of it.     *)
FinishRender ==
  /\ step = "render"
  /\ NamesIn(temporary) = Names \/ faults < MaxFaults
  /\ faults' = IF NamesIn(temporary) = Names THEN faults ELSE faults + 1
  /\ Goto("check")
  /\ UNCHANGED <<build, trees>>

Check ==
  /\ step = "check"
  /\ IF Checked(temporary) THEN Goto("replace") /\ UNCHANGED <<build, trees>> ELSE Abort
  /\ UNCHANGED faults

WithoutNothing(dir, f) == dir                                     \* mutant

Remaining(dir, f) == dir \ {f}

(* rmtree(output_dir) takes file after file, in any order; the rename is   *)
(* one step.                                                               *)
Clear(f) ==
  /\ step = "replace" /\ f \in output
  /\ output' = Remaining(output, f)
  /\ UNCHANGED <<sources, build, temporary, installed, stamp, step, exit, faults>>

Rename ==
  /\ step = "replace" /\ output = {}
  /\ output' = temporary /\ temporary' = {}
  /\ Goto("stamp")
  /\ UNCHANGED <<build, installed, faults>>

(* The stamp comes last and is newer than every edit so far, also of what  *)
(* had been rendered by then.                                              *)
WriteStamp ==
  /\ step = "stamp"
  /\ stamp' = source /\ exit' = "built" /\ step' = "idle"
  /\ UNCHANGED <<sources, build, trees, faults>>

-----------------------------------------------------------------------------
(* install-html-docs.py wants a stamp and an index.                        *)
StartInstall ==
  /\ step = "idle"
  /\ IF stamp # 0 /\ Index \in NamesIn(output)
       THEN Goto("uninstall") /\ UNCHANGED <<build, trees>>
       ELSE Abort
  /\ UNCHANGED faults

Uninstall(f) ==
  /\ step = "uninstall" /\ f \in installed
  /\ installed' = installed \ {f}
  /\ UNCHANGED <<sources, build, temporary, output, stamp, step, exit, faults>>

MakeDestination ==
  /\ step = "uninstall" /\ installed = {}
  /\ Goto("copy")
  /\ UNCHANGED <<build, trees, faults>>

Copy(f) ==
  /\ step = "copy" /\ f \in output \ installed
  /\ installed' = installed \union {f}
  /\ UNCHANGED <<sources, build, temporary, output, stamp, step, exit, faults>>

FinishInstall ==
  /\ step = "copy" /\ installed = output
  /\ step' = "idle" /\ exit' = "installed"
  /\ UNCHANGED <<sources, build, trees, stamp, faults>>

(* Somebody edits an input of the target, or a public header, also while a *)
(* tool runs.                                                              *)
Edit ==
  /\ source <= MaxEdits
  /\ source' = source + 1
  /\ UNCHANGED <<headers, build, trees, stamp, step, exit, faults>>

EditHeaders ==
  /\ headers <= MaxEdits
  /\ headers' = headers + 1
  /\ UNCHANGED <<source, build, trees, stamp, step, exit, faults>>

Init ==
  /\ source = 1 /\ headers = 1
  /\ build = [number |-> 0, source |-> 0, headers |-> 0]
  /\ temporary = {} /\ output = {} /\ installed = {}
  /\ stamp = 0 /\ step = "idle" /\ exit = "none" /\ faults = 0

Work ==
  \/ \E n \in Names : Render(n)
  \/ FinishRender
  \/ Check
  \/ \E f \in output : Clear(f)
  \/ Rename
  \/ WriteStamp
  \/ \E f \in installed : Uninstall(f)
  \/ MakeDestination
  \/ \E f \in output : Copy(f)
  \/ FinishInstall

Next == StartBuild \/ StartInstall \/ Work \/ Edit \/ EditHeaders \/ Fault

(* A tool that runs goes on, and the build is run again and again.         *)
Spec     == Init /\ [][Next]_vars
FairSpec == Spec /\ WF_vars(Work) /\ SF_vars(StartBuild)

-----------------------------------------------------------------------------
(* Properties.                                                             *)

(* All the artifacts, as one build made them and the checker passed them.  *)
Complete(dir, number) ==
  NamesIn(dir) = Names /\ \A f \in dir : f.sound /\ f.build = number

(* Every file shows what was there when the last build began, or later.    *)
ShowsItsBuild ==
  \A f \in output :
    f.source >= build.source /\ (f.name \in Api => f.headers >= build.headers)

(* Nothing that the checker has refused, or not seen, is ever in the       *)
(* published or the installed tree, and neither mixes the files of two     *)
(* builds: after an interruption they lack files at worst.                 *)
OnlyCheckedFiles ==
  \A dir \in {output, installed} :
    /\ \A f \in dir : f.sound
    /\ \A f, g \in dir : f.build = g.build

(* The published tree is only taken away from, or replaced by a whole one, *)
(* which the build that runs has made.                                     *)
ReplacedWhole ==
  [][output' \subseteq output \/ Complete(output', build.number)]_output

(* When the target is taken for up to date the tree of the last build is   *)
(* there, all of it, and shows everything that was written before that     *)
(* build began: one that was interrupted, also between the two trees, is   *)
(* run again.  No more is promised: what was edited while that build ran,  *)
(* and the headers edited since, may not be shown.                         *)
UpToDateIsWhole == UpToDate => Complete(output, build.number) /\ ShowsItsBuild

(* When the faults and the edits cease some build has the last word, and   *)
(* its tree is there and shows what was written before it began.           *)
Converges == <>[](UpToDate /\ Complete(output, build.number) /\ ShowsItsBuild)

(* install-html-docs.py refuses a source that is incomplete; DESIGN.md:    *)
(* local links are checked before installation.                            *)
InstallsComplete ==
  step = "idle" /\ exit = "installed"
    => \E number \in 1 .. build.number : Complete(installed, number)

=============================================================================
