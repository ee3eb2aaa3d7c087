------------------------------ MODULE Projects ------------------------------
(***************************************************************************)
(* Where a project begins (find_root of util.rs), and what of it is no     *)
(* source (autoignore.rs).                                                 *)
(***************************************************************************)
EXTENDS Integers, SequencesExt, FiniteSetsExt, Optional

CONSTANTS
    NoiseDirs,          \* SKIP_DIRS
    StackOf,            \* marker file -> what it is a sign of
    StackDepth          \* how deep such files are looked for

(* The directories from "/" down to where a command runs are 1, 2, ...; each has *)
(* [git, marker], and home is one of them, or 0 when it is elsewhere.            *)

Chain(home, start) == (IF home \in 1 .. start THEN home + 1 ELSE 1) .. start

\* Mutant: the walk up stops at the first.
DeepestOf(dirs) == Max(dirs)

HighestOf(dirs) == Min(dirs)

FindRoot(marks, home, start) ==
    LET chain == Chain(home, start)
        git == {d \in chain : marks[d].git}
        marker == {d \in chain : marks[d].marker} IN
    CASE git \cap marker /= {} -> HighestOf(git \cap marker)
      [] git \cap marker = {} /\ git /= {} -> HighestOf(git)
      [] git = {} /\ marker /= {} -> HighestOf(marker)
      [] OTHER -> start

-----------------------------------------------------------------------------
(* A project is [above, files, ignore]: the names of the directories it is in, *)
(* its files, each [dirs, name], and its .ignore, the stacks that has rules    *)
(* for, or None.                                                               *)

\* Mutant: only the directory a file is in is looked at.
NoisyParent(above, dirs) == dirs /= <<>> /\ Last(dirs) \in NoiseDirs

\* The walk enters every directory; a file counts by the names of all above it.
Noisy(above, dirs) == ToSet(above \o dirs) \cap NoiseDirs /= {}

DetectStacks(project) ==
    {StackOf[f.name] : f \in {f \in project.files :
        /\ Len(f.dirs) < StackDepth
        /\ f.name \in DOMAIN StackOf /\ ~Noisy(project.above, f.dirs)}}

NodeFamily == {"node", "bun", "yarn", "pnpm"}

SectionOf(stack) ==
    CASE stack \in NodeFamily -> "node"
      [] stack = "laravel" -> "php"
      [] OTHER -> stack

ComposeContent(stacks) == {SectionOf(s) : s \in stacks}

RunAutoignore(project, force) ==
    IF project.ignore /= None /\ ~force THEN project
    ELSE [project EXCEPT !.ignore = ComposeContent(DetectStacks(project))]
=============================================================================
