-------------------------- MODULE HtmlPublishProofs --------------------------
(***************************************************************************)
(* The safety of the publication, for every set of artifacts and any       *)
(* number of edits, at any time, and of faults.  It needs four facts of    *)
(* the control: between two builds there is no temporary tree; while one   *)
(* runs every file of it was made by that build, of what was there when it *)
(* began or later; what is put in place has passed the check; and from the *)
(* start of a build to its end the stamp is older than the inputs, however *)
(* they are edited.                                                        *)
(***************************************************************************)
EXTENDS HtmlPublish, TLAPS

Types ==
  /\ source \in Nat \ {0} /\ headers \in Nat \ {0}
  /\ build \in [number : Nat, source : Nat, headers : Nat]
  /\ build.source <= source /\ build.headers <= headers
  /\ stamp \in Nat /\ stamp <= source

Fresh(f) ==
  /\ f.build = build.number
  /\ f.source >= build.source
  /\ f.name \in Api => f.headers >= build.headers

Published == Complete(output, build.number) /\ ShowsItsBuild

Control ==
  /\ step \in {"render", "check", "replace", "stamp"} => stamp < source
  /\ step \in {"render", "check", "replace"} => \A f \in temporary : Fresh(f)
  /\ step \notin {"render", "check", "replace"} => temporary = {}
  /\ step = "replace" => Checked(temporary)
  /\ step = "stamp" => Published

IInv == Types /\ Control /\ OnlyCheckedFiles
        /\ (step = "copy" => installed \subseteq output)
        /\ UpToDateIsWhole

-----------------------------------------------------------------------------
(* At first there is nothing, and no stamp.                                *)
LEMMA Initially == Init => IInv
BY DEF Init, IInv, Types, Control, OnlyCheckedFiles, UpToDateIsWhole, UpToDate

(* No step of the tools, of an editor or of a fault disturbs it.           *)
LEMMA Inductive == IInv /\ [Next]_vars => IInv'
<1> SUFFICES ASSUME IInv, [Next]_vars PROVE IInv' OBVIOUS
<1> USE DEF IInv, sources, trees
<1>1. ASSUME Abort PROVE IInv'
  BY <1>1 DEF Abort, StampOnFailure, Types, Control, OnlyCheckedFiles, UpToDateIsWhole,
              UpToDate, Complete, NamesIn, ShowsItsBuild
<1>2. CASE StartBuild
  <2>1. Types' /\ stamp' < source' /\ temporary' = {} /\ step' = "render"
    BY <1>2 DEF StartBuild, Goto, Types, Control, UpToDate
  <2>2. OnlyCheckedFiles'
    BY <1>2 DEF StartBuild, OnlyCheckedFiles
  <2>3. UpToDateIsWhole'
    BY <2>1 DEF UpToDateIsWhole, UpToDate, Types
  <2> QED BY <2>1, <2>2, <2>3 DEF Control
<1>3. CASE StartInstall
  <2>1. CASE Abort
    BY <1>1, <2>1
  <2>2. CASE Goto("uninstall") /\ UNCHANGED <<build, trees>>
    BY <1>3, <2>2 DEF StartInstall, Goto, Types, Control, OnlyCheckedFiles, UpToDateIsWhole,
                      UpToDate, Complete, NamesIn, ShowsItsBuild
  <2> QED BY <1>3, <2>1, <2>2 DEF StartInstall
<1>4. ASSUME NEW n \in Names, Render(n) PROVE IInv'
  <2>1. PICK sound \in BOOLEAN : temporary' = temporary \union {File(n, sound)}
    BY <1>4 DEF Render
  <2>2. Fresh(File(n, sound))
    BY DEF Fresh, File, Types
  <2>3. \A f \in temporary' : Fresh(f)'
    BY <1>4, <2>1, <2>2 DEF Render, Control, Fresh
  <2> QED
    BY <1>4, <2>3 DEF Render, Types, Control, OnlyCheckedFiles, UpToDateIsWhole,
                      UpToDate, Complete, NamesIn, ShowsItsBuild
<1>5. CASE FinishRender
  BY <1>5 DEF FinishRender, Goto, Types, Control, Fresh, OnlyCheckedFiles, UpToDateIsWhole,
              UpToDate, Complete, NamesIn, ShowsItsBuild
<1>6. CASE Check
  <2>1. CASE Checked(temporary)
    BY <1>6, <2>1 DEF Check, Goto, Checked, Types, Control, Fresh, OnlyCheckedFiles,
                      UpToDateIsWhole, UpToDate, Complete, NamesIn, ShowsItsBuild
  <2>2. CASE ~Checked(temporary)
    BY <1>1, <1>6, <2>2 DEF Check
  <2> QED BY <2>1, <2>2
<1>7. ASSUME NEW f \in output, Clear(f) PROVE IInv'
  <2>1. output' \subseteq output
    BY <1>7 DEF Clear, Remaining
  <2>2. OnlyCheckedFiles'
    BY <1>7, <2>1 DEF Clear, OnlyCheckedFiles
  <2>3. UpToDateIsWhole'
    BY <1>7 DEF Clear, Control, Types, UpToDateIsWhole, UpToDate
  <2> QED BY <1>7, <2>2, <2>3 DEF Clear, Types, Control, Fresh, Checked, NamesIn
<1>8. CASE Rename
  <2>1. /\ \A f \in temporary : Fresh(f)
        /\ Checked(temporary)
        /\ stamp < source
    BY <1>8 DEF Rename, Control
  <2>2. Published'
    BY <1>8, <2>1 DEF Rename, Goto, Published, Complete, Checked, Fresh, NamesIn, ShowsItsBuild
  <2>3. OnlyCheckedFiles'
    BY <1>8, <2>1 DEF Rename, OnlyCheckedFiles, Checked, Fresh
  <2> QED
    BY <1>8, <2>1, <2>2, <2>3 DEF Rename, Goto, Types, Control, UpToDateIsWhole, UpToDate
<1>9. CASE WriteStamp
  BY <1>9 DEF WriteStamp, Types, Control, Published, OnlyCheckedFiles, UpToDateIsWhole,
              UpToDate, Complete, NamesIn, ShowsItsBuild
<1>10. ASSUME NEW f \in installed, Uninstall(f) PROVE IInv'
  BY <1>10 DEF Uninstall, Types, Control, OnlyCheckedFiles, UpToDateIsWhole,
               UpToDate, Complete, NamesIn, ShowsItsBuild
<1>11. CASE MakeDestination
  BY <1>11 DEF MakeDestination, Goto, Types, Control, OnlyCheckedFiles, UpToDateIsWhole,
               UpToDate, Complete, NamesIn, ShowsItsBuild
<1>12. ASSUME NEW f \in output, Copy(f) PROVE IInv'
  <2>1. installed' \subseteq output
    BY <1>12 DEF Copy
  <2>2. OnlyCheckedFiles'
    BY <1>12, <2>1 DEF Copy, OnlyCheckedFiles
  <2> QED
    BY <1>12, <2>1, <2>2 DEF Copy, Types, Control, UpToDateIsWhole,
                             UpToDate, Complete, NamesIn, ShowsItsBuild
<1>13. CASE FinishInstall
  BY <1>13 DEF FinishInstall, Types, Control, OnlyCheckedFiles, UpToDateIsWhole,
               UpToDate, Complete, NamesIn, ShowsItsBuild
<1>14. CASE Edit
  <2>1. Types' /\ stamp' < source'
    BY <1>14 DEF Edit, Types
  <2>2. Control'
    BY <1>14, <2>1 DEF Edit, Control, Fresh, Checked, Published, Complete, NamesIn, ShowsItsBuild
  <2>3. UpToDateIsWhole'
    BY <2>1 DEF Types, UpToDateIsWhole, UpToDate
  <2> QED BY <1>14, <2>1, <2>2, <2>3 DEF Edit, OnlyCheckedFiles
<1>15. CASE EditHeaders
  <2>1. Types'
    BY <1>15 DEF EditHeaders, Types
  <2>2. Control'
    BY <1>15 DEF EditHeaders, Control, Fresh, Checked, Published, Complete, NamesIn, ShowsItsBuild
  <2> QED
    BY <1>15, <2>1, <2>2 DEF EditHeaders, OnlyCheckedFiles, UpToDateIsWhole, UpToDate,
                             Complete, NamesIn, ShowsItsBuild
<1>16. CASE Fault
  BY <1>1, <1>16 DEF Fault
<1>17. CASE UNCHANGED vars
  BY <1>17 DEF vars, Types, Control, Fresh, Checked, Published, OnlyCheckedFiles,
               UpToDateIsWhole, UpToDate, Complete, NamesIn, ShowsItsBuild
<1> QED
  BY <1>2, <1>3, <1>4, <1>5, <1>6, <1>7, <1>8, <1>9, <1>10, <1>11, <1>12,
     <1>13, <1>14, <1>15, <1>16, <1>17 DEF Next, Work

-----------------------------------------------------------------------------
(* The strengthened invariant holds in every state of the publication.     *)
THEOREM Invariance == Spec => []IInv
BY Initially, Inductive, PTL DEF Spec

(* A target that docs/meson.build takes for up to date has the whole tree  *)
(* of the last build behind it, which shows all that was written before    *)
(* that build began: after builds interrupted anywhere, and whatever is    *)
(* edited, also while build-html-docs.py runs.                             *)
THEOREM UpToDateTree == Spec => []UpToDateIsWhole
<1>1. IInv => UpToDateIsWhole
  BY DEF IInv
<1> QED BY <1>1, Invariance, PTL

(* The published and the installed tree hold only files that passed        *)
(* check-html-docs.py, all of them of one build.                           *)
THEOREM CheckedBeforePublished == Spec => []OnlyCheckedFiles
<1>1. IInv => OnlyCheckedFiles
  BY DEF IInv
<1> QED BY <1>1, Invariance, PTL

(* Readers of the published tree see the old one, less and less of it, or  *)
(* a whole new one: the rename publishes no tree that lacks a file.        *)
THEOREM Replacement == Spec => ReplacedWhole
<1>1. IInv /\ [Next]_vars
        => [output' \subseteq output \/ Complete(output', build.number)]_output
  <2> SUFFICES ASSUME IInv, [Next]_vars, output' # output
               PROVE  output' \subseteq output \/ Complete(output', build.number)
    OBVIOUS
  <2>1. CASE Rename
    BY <2>1 DEF Rename, IInv, Control, Checked, Fresh, Complete, NamesIn
  <2>2. ASSUME NEW f \in output, Clear(f) PROVE output' \subseteq output
    BY <2>2 DEF Clear, Remaining
  <2>3. Rename \/ \E f \in output : Clear(f)
    BY DEF Next, Work, vars, trees, StartBuild, StartInstall, Render, FinishRender, Check,
           WriteStamp, Uninstall, MakeDestination, Copy, FinishInstall, Edit, EditHeaders,
           Fault, Abort
  <2> QED BY <2>1, <2>2, <2>3
<1> QED BY <1>1, Invariance, PTL DEF Spec, ReplacedWhole

=============================================================================
