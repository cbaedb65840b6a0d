------------------------------ MODULE Controls ------------------------------
(***************************************************************************)
(* Runtime controls: the pool's control plane rewrites controls.json (fees *)
(* and bans) while Prime runs, and controls_watcher reloads it when its    *)
(* mtime differs from that of the controls in force.  The watcher looks at *)
(* the file three times (mtime, mtime again, text) and applies what it got *)
(* later; the file may change, be removed or be half written at any of     *)
(* these points.                                                           *)
(*                                                                         *)
(* The file's states are numbered in the order they appear, and the number *)
(* is the mtime: two states are taken to be further apart than the clock's *)
(* granularity.  A valid file is one of Contents; what it says is not      *)
(* looked into.                                                            *)
(***************************************************************************)
EXTENDS Integers, Sequences

CONSTANTS
    Contents,    \* valid files
    Bad,         \* a file that does not parse or validate, or is half written
    Absent,      \* no file
    Defaults,    \* Controls::default(): the configured fees, no bans
    MaxWrites,   \* bound: changes of the file
    MaxRestarts  \* bound: restarts of Prime

ASSUME ControlsAssumption ==
    /\ Bad \notin Contents
    /\ Absent \notin Contents
    /\ Defaults \notin Contents
    /\ Bad # Absent
    /\ MaxWrites \in Nat
    /\ MaxRestarts \in Nat

VARIABLES
    file,        \* every state of the file so far; the last is the current one
    in_force,    \* Shared::controls
    stamp,       \* its mtime, or NoTime
    at,          \* where the watcher stands
    load_stamp,  \* the mtime Controls::load took
    loaded,      \* what it read
    restarts,
    applied      \* history: mtime of the last controls loaded since the start

vars == <<file, in_force, stamp, at, load_stamp, loaded, restarts, applied>>

NoTime == 0

Current == file[Len(file)]

\* fs::metadata(path).modified()
Mtime == IF Current = Absent THEN NoTime ELSE Len(file)

\* Types: what is about to be applied parsed, and its mtime is one the file had.
TypeOK ==
    /\ file \in Seq(Contents \cup {Bad, Absent})
    /\ Len(file) >= 1
    /\ in_force \in Contents \cup {Defaults}
    /\ stamp \in 0..Len(file)
    /\ at \in {"idle", "load", "read", "apply"}
    /\ at \in {"read", "apply"} => load_stamp \in 1..Len(file)
    /\ at = "apply" => loaded \in Contents
    /\ restarts \in 0..MaxRestarts
    /\ applied \in 0..Len(file)

\* Prime starts: it loads the file as the watcher does later, over the
\* defaults.
Init ==
    /\ file = <<Absent>>
    /\ in_force = Defaults
    /\ stamp = NoTime
    /\ at = "load"
    /\ load_stamp = NoTime
    /\ loaded = Absent
    /\ restarts = 0
    /\ applied = NoTime

\* The control plane (external) writes, breaks off writing, or removes it.
Write(c) ==
    /\ Len(file) <= MaxWrites
    /\ c # Absent \/ Current # Absent
    /\ file' = Append(file, c)
    /\ UNCHANGED <<in_force, stamp, at, load_stamp, loaded, restarts, applied>>

\* Every 5 s: anything to load?
Look ==
    /\ at = "idle"
    /\ Mtime # stamp
    /\ at' = "load"
    /\ UNCHANGED <<file, in_force, stamp, load_stamp, loaded, restarts, applied>>

\* Controls::load takes the mtime first. No file: back to the defaults.
LoadMtime ==
    /\ at = "load"
    /\ IF Current = Absent
       THEN /\ at' = "idle"
            /\ in_force' = Defaults
            /\ stamp' = NoTime
            /\ UNCHANGED load_stamp
       ELSE /\ at' = "read"
            /\ load_stamp' = Mtime
            /\ UNCHANGED <<in_force, stamp>>
    /\ UNCHANGED <<file, loaded, restarts, applied>>

\* Mutant of LoadText: a file that does not parse clears the controls.
LoadTextClears ==
    /\ at = "read"
    /\ at' = IF Current \in Contents THEN "apply" ELSE "idle"
    /\ loaded' = Current
    /\ in_force' = IF Current \in Contents THEN in_force ELSE Defaults
    /\ UNCHANGED <<file, stamp, load_stamp, restarts, applied>>

\* ... and reads the text. An error leaves the controls in force.
LoadText ==
    /\ at = "read"
    /\ at' = IF Current \in Contents THEN "apply" ELSE "idle"
    /\ loaded' = Current
    /\ UNCHANGED <<file, in_force, stamp, load_stamp, restarts, applied>>

\* Mutant of Apply: the mtime is taken after the text.
ApplyRestamped ==
    /\ at = "apply"
    /\ at' = "idle"
    /\ in_force' = loaded
    /\ stamp' = Len(file)
    /\ applied' = Len(file)
    /\ UNCHANGED <<file, load_stamp, loaded, restarts>>

\* The controls are replaced under their lock.
Apply ==
    /\ at = "apply"
    /\ at' = "idle"
    /\ in_force' = loaded
    /\ stamp' = load_stamp
    /\ applied' = load_stamp
    /\ UNCHANGED <<file, load_stamp, loaded, restarts>>

\* Prime stops and starts: a file that fails to load leaves the defaults.
Restart ==
    /\ restarts < MaxRestarts
    /\ restarts' = restarts + 1
    /\ in_force' = Defaults
    /\ stamp' = NoTime
    /\ at' = "load"
    /\ applied' = NoTime
    /\ UNCHANGED <<file, load_stamp, loaded>>

Watcher == Look \/ LoadMtime \/ LoadText \/ Apply

\* Every state of the file has been written and nothing is left to load.
Quiet == at = "idle" /\ Len(file) > MaxWrites /\ UNCHANGED vars

Next ==
    \/ \E c \in Contents \cup {Bad, Absent} : Write(c)
    \/ Watcher
    \/ Restart
    \/ Quiet

\* The watcher's task runs for as long as Prime does.
Spec == Init /\ [][Next]_vars /\ WF_vars(Watcher)

-----------------------------------------------------------------------------
(* Properties *)

\* Controls that carry the file's mtime carry its contents: the watcher never
\* takes an older text for the current one, and so never stops reloading too
\* early, however the writer gets between its three looks at the file.
StampedIsCurrent ==
    stamp # NoTime /\ stamp = Len(file) => in_force = Current

\* The last valid file comes into force ("re-read by Prime every few seconds,
\* so fee changes ... and bans take effect without a restart").
CatchesUp ==
    \A c \in Contents : <>[](Current = c) => <>[](in_force = c)

\* Once Prime has controls, it is without them again only if the file was
\* gone at some time since: writes that break off, and texts that change
\* between its looks, lift no ban ("A file that fails to parse keeps the
\* previous controls in force (never fail open, ...)": controls.rs). A
\* restart starts over.
NeverFailsOpen ==
    in_force = Defaults /\ applied # NoTime
        => \E v \in applied..Len(file) : file[v] = Absent

-----------------------------------------------------------------------------
(* The inductive invariant behind StampedIsCurrent: what is in force, or about
   to be, is no older than its mtime. *)

NoOlder(c, time) == \E v \in time..Len(file) : file[v] = c

StampInv ==
    /\ TypeOK
    /\ stamp # NoTime => NoOlder(in_force, stamp)
    /\ at = "apply" => NoOlder(loaded, load_stamp)
=============================================================================
