------------------------------ MODULE Logging ------------------------------
(***************************************************************************)
(* The rotating log of logging/logging.go.  The log is errors.log and up   *)
(* to three older files; here these are the places 0 (errors.log) to 3     *)
(* (errors.log.2).  New and Write rotate: they move every file one place   *)
(* on, the oldest first, and create errors.log.  Every call to the file    *)
(* system is a step of its own and may fail, and the program may be killed *)
(* between any two of them; what it leaves is what the next New finds.     *)
(*                                                                         *)
(* os.Stat of a file that exists is taken to succeed, and the files belong *)
(* to this program alone.  Write holds its lock from beginning to end, so  *)
(* writes are sequential.                                                  *)
(***************************************************************************)
EXTENDS Naturals

CONSTANTS
    MaxLogSize,
    Lengths,       \* the lengths of what is written
    MaxFiles       \* bound on the files that are created

ASSUME LoggingAssumption ==
    /\ MaxLogSize \in Nat
    /\ Lengths \subseteq Nat \ {0}
    /\ MaxFiles \in Nat

Places == 0 .. 3

VARIABLES
    file,         \* of each place: the number of its file, 0 if there is none
    size,         \* of each place: the length of its file
    begun,        \* how many files were created
    pc,           \* where New or Write is; "up" between calls
    from,         \* the place whose file is moved next
    fp,           \* w.fp: "nil", or "open" on the file in place 0
    pending,      \* the length of the write under way, 0 in New
    openFailed    \* history: this run of the program failed to create a file

vars == <<file, size, begun, pc, from, fp, pending, openFailed>>
disk == <<file, size, begun>>

LogTypeOK ==
    /\ file \in [Places -> Nat]
    /\ size \in [Places -> Nat]
    /\ begun \in Nat
    /\ pc \in {"down", "up", "close", "move", "open", "write"}
    /\ from \in 0 .. 2
    /\ fp \in {"nil", "open"}
    /\ pending \in Lengths \cup {0}
    /\ openFailed \in BOOLEAN

Init ==
    /\ file = [p \in Places |-> 0]
    /\ size = [p \in Places |-> 0]
    /\ begun = 0
    /\ pc = "down"
    /\ from = 2
    /\ fp = "nil"
    /\ pending = 0
    /\ openFailed = FALSE
-----------------------------------------------------------------------------
(* Mutant: one file more is moved than there are places for. *)
NewMovesOneMore ==
    /\ pc = "down"
    /\ pc' = "move" /\ from' = 3
    /\ openFailed' = FALSE
    /\ UNCHANGED <<disk, fp, pending>>

(* Mutant: the third file is not moved, so the second replaces it. *)
NewMovesOneLess ==
    /\ pc = "down"
    /\ pc' = "move" /\ from' = 1
    /\ openFailed' = FALSE
    /\ UNCHANGED <<disk, fp, pending>>

(* New: it rotates, whatever the size of the log. *)
New ==
    /\ pc = "down"
    /\ pc' = "move" /\ from' = 2
    /\ openFailed' = FALSE
    /\ UNCHANGED <<disk, fp, pending>>

TooLong == file[0] # 0 /\ size[0] > MaxLogSize

(* Mutant: Write looks at the size of the last file it has moved away. *)
WriteChecksOldFile(n) ==
    /\ pc = "up"
    /\ pending' = n
    /\ pc' = IF file[1] # 0 /\ size[1] > MaxLogSize
             THEN (IF fp = "open" THEN "close" ELSE "move") ELSE "write"
    /\ from' = 2
    /\ UNCHANGED <<disk, fp, openFailed>>

Write(n) ==
    /\ pc = "up"
    /\ pending' = n
    /\ pc' = IF TooLong THEN (IF fp = "open" THEN "close" ELSE "move") ELSE "write"
    /\ from' = 2
    /\ UNCHANGED <<disk, fp, openFailed>>

(* rotate returns an error: New gives up, Write goes on without a file. *)
Abandon == pc' = IF pending = 0 THEN "down" ELSE "write"

(* w.fp is nil whether its Close succeeds or not. *)
CloseOld ==
    /\ pc = "close"
    /\ fp' = "nil"
    /\ pc' = "move" \/ Abandon
    /\ UNCHANGED <<disk, from, pending, openFailed>>

(* Mutant: the files are moved newest first. *)
MoveNewestFirst ==
    /\ pc = "move"
    /\ LET source == 2 - from IN
       /\ file' = IF file[source] = 0 THEN file
                  ELSE [file EXCEPT ![source + 1] = file[source], ![source] = 0]
       /\ size' = IF file[source] = 0 THEN size
                  ELSE [size EXCEPT ![source + 1] = size[source], ![source] = 0]
    /\ IF from = 0 THEN pc' = "open" /\ UNCHANGED from
                   ELSE from' = from - 1 /\ UNCHANGED pc
    /\ UNCHANGED <<begun, fp, pending, openFailed>>

(* The file in place from, if there is one, replaces the one in the next   *)
(* place.                                                                  *)
Move ==
    /\ pc = "move"
    /\ file' = IF file[from] = 0 THEN file
               ELSE [file EXCEPT ![from + 1] = file[from], ![from] = 0]
    /\ size' = IF file[from] = 0 THEN size
               ELSE [size EXCEPT ![from + 1] = size[from], ![from] = 0]
    /\ IF from = 0 THEN pc' = "open" /\ UNCHANGED from
                   ELSE from' = from - 1 /\ UNCHANGED pc
    /\ UNCHANGED <<begun, fp, pending, openFailed>>

MoveFails ==
    /\ pc = "move" /\ file[from] # 0
    /\ Abandon
    /\ UNCHANGED <<disk, from, fp, pending, openFailed>>

(* OpenFile with O_TRUNC: a new file, or an old one emptied. *)
Open ==
    /\ pc = "open" /\ begun < MaxFiles
    /\ begun' = begun + 1
    /\ file' = [file EXCEPT ![0] = begun + 1]
    /\ size' = [size EXCEPT ![0] = 0]
    /\ fp' = "open"
    /\ pc' = IF pending = 0 THEN "up" ELSE "write"
    /\ UNCHANGED <<from, pending, openFailed>>

OpenFails ==
    /\ pc = "open"
    /\ openFailed' = TRUE
    /\ Abandon
    /\ UNCHANGED <<disk, from, fp, pending>>

(* The write itself, which may fail half way; to a nil file it fails.  The *)
(* error goes to the log package, which drops it.                          *)
Append ==
    /\ pc = "write"
    /\ IF fp = "open"
       THEN \E n \in 0 .. pending : size' = [size EXCEPT ![0] = size[0] + n]
       ELSE UNCHANGED size
    /\ pc' = "up" /\ pending' = 0
    /\ UNCHANGED <<file, begun, from, fp, openFailed>>

(* The program ends (Close) or is killed. *)
Stop ==
    /\ pc # "down"
    /\ pc' = "down" /\ fp' = "nil" /\ pending' = 0
    /\ UNCHANGED <<disk, from, openFailed>>

Next ==
    \/ New \/ (\E n \in Lengths : Write(n))
    \/ CloseOld \/ Move \/ MoveFails \/ Open \/ OpenFails \/ Append
    \/ Stop

Spec == Init /\ [][Next]_vars
-----------------------------------------------------------------------------
(* No file is longer than the limit by more than one write: the size is    *)
(* looked at before each write, also after rotations that failed and       *)
(* restarts.                                                               *)
Bounded ==
    \A p \in Places : size[p] > MaxLogSize => \E n \in Lengths : size[p] <= MaxLogSize + n

(* A log that a failed rotation has closed is not given up: the next write *)
(* finds the long file still in its place and rotates again, unless it was *)
(* the creation of the new file that failed.                               *)
Retried == pc = "up" /\ fp = "nil" => openFailed \/ TooLong

(* Rotations, with any of their steps failing and with the program killed  *)
(* and started again between any two, lose no file but the oldest and      *)
(* never empty one that exists.                                            *)
History == INSTANCE LogHistory WITH kept <- {file[p] : p \in Places} \ {0}, begun <- begun
LosesOnlyTheOldest == History!Spec
=============================================================================
