------------------------------ MODULE AppScan ------------------------------
(***************************************************************************)
(* The scan of the XDG desktop entries and its cache                       *)
(* (pkg/launcher/desktop.go, Refresh in registry.go).  A scan stats the    *)
(* directories, then the files, and parses when a modification time is not *)
(* the one it saw before; other programs write the directories meanwhile.  *)
(* Refresh holds the registry's lock, so one scan runs at a time.          *)
(*                                                                         *)
(* A modification time is a count of writes: two writes never share one.   *)
(* A file is its contents, "shown" ones and hidden or otherwise refused.   *)
(***************************************************************************)
EXTENDS Naturals, FiniteSets, Sequences, SequencesExt

CONSTANTS
  DataDirs,   \* the directories, the one that takes precedence first
  FileIds,    \* desktop-file ids
  MaxWrites   \* bound on the writes of others

ASSUME ScanAssumption ==
    /\ MaxWrites \in Nat /\ IsFiniteSet(FileIds)
    /\ DataDirs \in Seq(ToSet(DataDirs)) /\ IsInjective(DataDirs)

VARIABLES
  files,      \* <<directory, id>> -> [mtime, text]; text "none" for no file
  dirs,       \* directory -> modification time, 0 when it is missing
  writes,     \* writes so far: the clock
  quiet,      \* history: no write since the scan under way began
  apps,       \* Registry.apps: id -> [dir, text] of those listed
  seen,       \* Registry.scanned: modification times, [dirs, files]
  scan        \* the scan under way: [at, dirs, files]

fileSystem == <<files, dirs, writes>>
scanVars == <<fileSystem, quiet, apps, seen, scan>>

AppDirs == ToSet(DataDirs)
Paths == AppDirs \X FileIds
Absent == [mtime |-> 0, text |-> "none"]
Texts == {"shown", "edited", "hidden"}
There(p) == files[p].text # "none"
\* No path at all: not even the time zero of a missing directory.
NoPaths == [k \in {} |-> 0]
Unscanned == [dirs |-> NoPaths, files |-> NoPaths]
Resting == [at |-> "rest", saw |-> Unscanned]

ScanInit ==
    /\ files = [p \in Paths |-> Absent]
    /\ dirs = [d \in AppDirs |-> 0] /\ writes = 0 /\ quiet = TRUE
    /\ apps = NoPaths /\ seen = Unscanned /\ scan = Resting
-----------------------------------------------------------------------------
(* Other programs.                                                         *)

Written == writes < MaxWrites /\ writes' = writes + 1 /\ quiet' = FALSE
\* A new file, or its end, changes the directory; an edit in place does not.
Create(p) ==
    /\ Written /\ ~There(p)
    /\ \E t \in Texts : files' = [files EXCEPT ![p] = [mtime |-> writes', text |-> t]]
    /\ dirs' = [dirs EXCEPT ![p[1]] = writes']
    /\ UNCHANGED <<apps, seen, scan>>
Edit(p) ==
    /\ Written /\ There(p)
    /\ \E t \in Texts \ {files[p].text} : files' = [files EXCEPT ![p] = [mtime |-> writes', text |-> t]]
    /\ UNCHANGED <<dirs, apps, seen, scan>>
Delete(p) ==
    /\ Written /\ There(p)
    /\ files' = [files EXCEPT ![p] = Absent]
    /\ dirs' = [dirs EXCEPT ![p[1]] = writes']
    /\ UNCHANGED <<apps, seen, scan>>
-----------------------------------------------------------------------------
(* Refresh.                                                                *)

Refresh ==
    /\ scan.at = "rest"
    /\ scan' = [at |-> "files", saw |-> [Unscanned EXCEPT !.dirs = dirs]]
    /\ quiet' = TRUE
    /\ UNCHANGED <<fileSystem, apps, seen>>
StatFiles ==
    /\ scan.at = "files"
    /\ scan' = [scan EXCEPT !.at = "parse",
                  !.saw.files = [p \in {q \in Paths : There(q)} |-> files[p].mtime]]
    /\ UNCHANGED <<fileSystem, quiet, apps, seen>>

\* The first directory that has the id decides, even with a hidden entry.
FirstWith(id) ==
    LET I == {k \in DOMAIN DataDirs : There(<<DataDirs[k], id>>)} IN IF I = {} THEN 0 ELSE Min(I)
Parsed ==
    LET P(id) == <<DataDirs[FirstWith(id)], id>>
    IN [id \in {i \in FileIds : FirstWith(i) # 0 /\ files[P(i)].text # "hidden"} |->
          [dir |-> P(id)[1], text |-> files[P(id)].text]]

Differ(new, old) == \E k \in DOMAIN new : k \notin DOMAIN old \/ old[k] # new[k]
\* As if only the directories were looked at.
MutChanged == Differ(scan.saw.dirs, seen.dirs)
\* A file that is gone shows in the count of them.
Changed ==
    \/ Differ(scan.saw.dirs, seen.dirs) \/ Differ(scan.saw.files, seen.files)
    \/ Cardinality(DOMAIN seen.files) # Cardinality(DOMAIN scan.saw.files)
\* Reading and parsing are one step: a file is read once.
Parse ==
    /\ scan.at = "parse" /\ scan' = Resting
    /\ IF Changed
       THEN apps' = Parsed /\ seen' = scan.saw
       ELSE UNCHANGED <<apps, seen>>
    /\ UNCHANGED <<fileSystem, quiet>>

ScanNext ==
    \/ \E p \in Paths : Create(p) \/ Edit(p) \/ Delete(p)
    \/ Refresh \/ StatFiles \/ Parse
ScanSpec == ScanInit /\ [][ScanNext]_scanVars
-----------------------------------------------------------------------------
(* Properties.                                                             *)

(***************************************************************************)
(* A scan that no write disturbed leaves what the directories say by XDG's *)
(* precedence: the first directory with an id wins, and what it hides is   *)
(* hidden.  An edit in place, a write during an earlier scan and a         *)
(* directory that went away are all noticed.                               *)
(***************************************************************************)
Says(d, id) == files[<<d, id>>].text
IdsIn(d) == {id \in FileIds : Says(d, id) # "none"}
Expected(id) ==
    {[dir |-> DataDirs[k], text |-> Says(DataDirs[k], id)] :
        k \in {j \in DOMAIN DataDirs : id \in IdsIn(DataDirs[j])
                 /\ \A i \in 1..(j - 1) : id \notin IdsIn(DataDirs[i])}}
Fresh ==
    [][scan.at = "parse" /\ scan'.at = "rest" /\ quiet =>
         \A id \in FileIds :
            {e \in Expected(id) : e.text # "hidden"}
                = IF id \in DOMAIN apps' THEN {apps'[id]} ELSE {}]_scanVars
=============================================================================
