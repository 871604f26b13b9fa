------------------------------ MODULE Updater ------------------------------
(***************************************************************************)
(* The self-update (services/updater.py, ui/updates.py and the update      *)
(* commands of bridge/runtime.py): check the latest release, download and  *)
(* verify its EXE, copy it beside the running one, and leave a helper      *)
(* script that waits for the program to end, ends it if it does not, puts  *)
(* the staged EXE in its place and starts it again.  Nothing keeps an      *)
(* install from starting while the helper of an earlier one is at work.    *)
(***************************************************************************)
EXTENDS Naturals

CONSTANTS
  MaxVersion, \* versions published
  Asset,      \* what a release may say of its EXE: sets of "size" and "digest"
  MaxTries,   \* tries of a helper to replace the EXE (45 in the code)
  Helper      \* helper scripts that may be at work at once

VARIABLES
  release, \* the latest release on GitHub
  skipped, \* skipped_update_version
  install, \* the install command: what it does, and the EXE under updates/ it
           \* downloads (one left there by an earlier install is never read)
  staged,  \* <name>.new.exe
  exe,     \* the EXE the user starts
  app,     \* whether the program runs
  helper,  \* per helper script, what it does
  tries,   \* its failed attempts
  over     \* history: the last copy began while a helper was at work

store == <<staged, exe>>
process == <<app, helper, tries>>
updateVars == <<release, skipped, install, store, process, over>>

Release == [version : 1 .. MaxVersion, says : Asset]

\* A file: the build of a release, as it was published, cut short, or of the
\* right size with other bytes in it; or the first part of a copy.
File == [of : Release, bytes : {"good", "cut", "bad", "half"}]
Build(r, bytes) == [of |-> r, bytes |-> bytes]
NoRelease == [version |-> 0, says |-> {}]
NoFile == Build(NoRelease, "none")
NoInstall == [at |-> "idle", file |-> NoFile]

UpdateInit ==
  /\ release \in {r \in Release : r.version = 1} /\ skipped = 0
  /\ install = NoInstall /\ staged = NoFile /\ exe = Build(release, "good")
  /\ app = "running" /\ over = FALSE
  /\ helper = [h \in Helper |-> "none"] /\ tries = [h \in Helper |-> 0]

\* A new release, or one withdrawn so that an older is the latest again.
Publish ==
  /\ release' \in Release \ {release}
  /\ UNCHANGED <<skipped, install, store, process, over>>

Skip ==
  /\ app = "running" /\ skipped' = release.version
  /\ UNCHANGED <<release, install, store, process, over>>

-----------------------------------------------------------------------------
(* cmd_install_update.                                                     *)

\* check_for_update: parse_version orders the versions.
UpdateFor == release.version > exe.of.version /\ skipped < release.version

Install ==
  /\ app = "running" /\ install.at = "idle" /\ UpdateFor
  /\ install' = [at |-> "download", file |-> Build(release, "none")]
  /\ UNCHANGED <<release, skipped, store, process, over>>

VerifiedBySize(f) == "size" \in f.of.says => f.bytes # "cut"

\* The size is compared with Content-Length and with what arrived, then the
\* digest with the hash of what arrived.
Verified(f) ==
  /\ "size" \in f.of.says => f.bytes # "cut"
  /\ "digest" \in f.of.says => f.bytes = "good"

Download ==
  \E bytes \in {"good", "cut", "bad"} : LET f == Build(install.file.of, bytes) IN
    /\ install.at = "download" /\ Verified(f)
    /\ install' = [at |-> "stage", file |-> f]
    /\ UNCHANGED <<release, skipped, store, process, over>>

\* What fails is a .part file, removed; an older download stays.
DownloadFails ==
  /\ install.at = "download" /\ install' = NoInstall
  /\ UNCHANGED <<release, skipped, store, process, over>>

\* schedule_windows_replace_and_restart: the copy empties the staged file and
\* fills it again, at the name every helper uses.
Stage ==
  /\ install.at = "stage" /\ install' = [install EXCEPT !.at = "copy"]
  /\ staged' = Build(install.file.of, "half")
  /\ over' = (\E h \in Helper : helper[h] # "none")
  /\ UNCHANGED <<release, skipped, exe, process>>

Copied ==
  /\ install.at = "copy" /\ install' = [install EXCEPT !.at = "schedule"]
  /\ staged' = install.file
  /\ UNCHANGED <<release, skipped, exe, process, over>>

Schedule(h) ==
  /\ install.at = "schedule" /\ install' = NoInstall
  /\ helper[h] = "none" /\ helper' = [helper EXCEPT ![h] = "waiting"]
  /\ tries' = [tries EXCEPT ![h] = 0]
  /\ UNCHANGED <<release, skipped, store, app, over>>

\* No room for the copy, or no helper: what was staged stays.
StageFails ==
  /\ install.at \in {"stage", "copy", "schedule"} /\ install' = NoInstall
  /\ UNCHANGED <<release, skipped, store, process, over>>

-----------------------------------------------------------------------------
(* The program's life.  A quit or a crash ends a command that is on its way. *)

Quit ==
  /\ app = "running" /\ app' = "stopped" /\ install' = NoInstall
  /\ UNCHANGED <<release, skipped, store, helper, tries, over>>

\* The user may start it again while a helper works.
Start ==
  /\ app = "stopped" /\ app' = "running"
  /\ UNCHANGED <<release, skipped, install, store, helper, tries, over>>

-----------------------------------------------------------------------------
(* A helper script.                                                        *)

HelperGoes(h, to) == helper' = [helper EXCEPT ![h] = to]

\* Waits for the process, at most 45 s, and ends what still runs.
KillApp(h) ==
  /\ helper[h] = "waiting" /\ HelperGoes(h, "replacing")
  /\ app' = "stopped" /\ install' = NoInstall
  /\ UNCHANGED <<release, skipped, store, tries, over>>

\* Windows does not let a running EXE be replaced.
Replace(h) ==
  /\ helper[h] = "replacing" /\ app = "stopped" /\ staged # NoFile
  /\ exe' = staged /\ staged' = NoFile /\ HelperGoes(h, "relaunching")
  /\ UNCHANGED <<release, skipped, install, app, tries, over>>

\* The program was started again, or another helper took the staged file.
ReplaceFails(h) ==
  /\ helper[h] = "replacing" /\ (app = "running" \/ staged = NoFile)
  /\ tries' = [tries EXCEPT ![h] = @ + 1]
  /\ HelperGoes(h, IF tries'[h] = MaxTries THEN "none" ELSE "replacing")
  /\ UNCHANGED <<release, skipped, install, store, app, over>>

Relaunch(h) ==
  /\ helper[h] = "relaunching" /\ HelperGoes(h, "none") /\ app' = "running"
  /\ UNCHANGED <<release, skipped, install, store, tries, over>>

UpdateNext ==
  \/ Publish \/ Skip \/ Install \/ Download \/ DownloadFails
  \/ Stage \/ Copied \/ StageFails \/ Quit \/ Start
  \/ \E h \in Helper :
       Schedule(h) \/ KillApp(h) \/ Replace(h) \/ ReplaceFails(h) \/ Relaunch(h)
UpdateSpec == UpdateInit /\ [][UpdateNext]_updateVars

-----------------------------------------------------------------------------

(* Whatever the network delivers, whenever releases appear or go, whenever  *)
(* the user quits or starts the program, and however many helpers work at  *)
(* once: a new EXE takes the place of the old one only while the program   *)
(* is stopped, is of a later version, is no truncated download if its      *)
(* release gave a size and is the published one if its release gave a      *)
(* digest.  The first part of an interrupted copy takes its place only if  *)
(* that copy was begun while the helper of an earlier install was still at *)
(* work.                                                                   *)
InstallsAreSound ==
  [][exe' # exe =>
       /\ app = "stopped" /\ exe'.of.version > exe.of.version
       /\ "size" \in exe'.of.says => exe'.bytes # "cut"
       /\ "digest" \in exe'.of.says => exe'.bytes # "bad"
       /\ exe'.bytes = "half" => over]_updateVars
=============================================================================
