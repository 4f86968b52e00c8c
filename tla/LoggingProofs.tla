--------------------------- MODULE LoggingProofs ---------------------------
(***************************************************************************)
(* The invariant of the rotating log and what follows from it: the files   *)
(* are ordered by age, a rotation has always emptied the place it moves    *)
(* the next file to, and whatever is about to be written goes to a file    *)
(* within the limit.  That the places are ordered makes the file that a    *)
(* rename replaces the oldest one; that the next place is empty makes it   *)
(* the only one.                                                           *)
(***************************************************************************)
EXTENDS Logging, TLAPS

Ordered ==
    \A p, q \in Places :
        p < q /\ file[p] # 0 /\ file[q] # 0 => file[p] > file[q]

Numbered == \A p \in Places : file[p] <= begun

(* While files are moved, the place after the next file's is empty, except *)
(* for the first move, which replaces the oldest file.                     *)
PlaceEmpty ==
    /\ pc = "move" /\ from < 2 => file[from + 1] = 0
    /\ pc = "open" => file[0] = 0
    /\ pc = "close" => from = 2

(* What holds of the open file and of a log that is being rotated.         *)
InPlace ==
    /\ fp = "open" => file[0] # 0 /\ pc \in {"up", "close", "write"}
    /\ pc = "write" /\ fp = "open" => size[0] <= MaxLogSize
    /\ pc \in {"down", "up"} => pending = 0
    /\ pc \in {"close", "write"} => pending # 0
    /\ pc \in {"close", "move"} /\ pending # 0 => openFailed \/ TooLong
    /\ pc \in {"up", "write"} /\ fp = "nil" => openFailed \/ TooLong

LogInv == LogTypeOK /\ Ordered /\ Numbered /\ PlaceEmpty /\ InPlace /\ Bounded

LEMMA LogInvInit == Init => LogInv
<1> SUFFICES ASSUME Init PROVE LogInv
  OBVIOUS
<1> USE LoggingAssumption
<1>1. openFailed \in BOOLEAN
  BY Zenon DEF Init
<1>2. /\ file = [p \in Places |-> 0] /\ size = [p \in Places |-> 0] /\ begun = 0
      /\ pc = "down" /\ from = 2 /\ fp = "nil" /\ pending = 0
  BY DEF Init
<1>3. LogTypeOK
  BY <1>1, <1>2 DEF LogTypeOK
<1>4. Ordered /\ Numbered /\ PlaceEmpty /\ Bounded
  BY <1>2 DEF Ordered, Numbered, PlaceEmpty, Bounded
<1>5. InPlace
  BY <1>2 DEF InPlace
<1> QED
  BY <1>3, <1>4, <1>5 DEF LogInv

LEMMA LogInvStep == LogInv /\ [Next]_vars => LogInv'
<1> SUFFICES ASSUME LogTypeOK, Ordered, Numbered, PlaceEmpty, InPlace, Bounded, [Next]_vars
             PROVE  LogInv'
  BY DEF LogInv
<1> USE LoggingAssumption
<1>1. CASE New
  <2>1. LogTypeOK'
    <3>1. UNCHANGED <<file, size, begun, fp, pending>> /\ pc' = "move" /\ from' = 2 /\ openFailed' \in BOOLEAN
      BY <1>1, Zenon DEF New, disk
    <3> QED
      BY <3>1 DEF LogTypeOK
  <2>2. Ordered'
    BY <1>1 DEF New, disk, LogTypeOK, Ordered, Places
  <2>3. Numbered'
    BY <1>1 DEF New, disk, LogTypeOK, Numbered, Places
  <2>4. PlaceEmpty'
    BY <1>1 DEF New, disk, LogTypeOK, PlaceEmpty, Places
  <2>5. InPlace'
    BY <1>1 DEF New, disk, LogTypeOK, InPlace, Places, TooLong, PlaceEmpty
  <2>6. Bounded'
    BY <1>1 DEF New, disk, LogTypeOK, Bounded, Places
  <2> QED
    BY <2>1, <2>2, <2>3, <2>4, <2>5, <2>6 DEF LogInv
<1>2. ASSUME NEW n \in Lengths, Write(n) PROVE LogInv'
  <2>1. LogTypeOK'
    BY <1>2 DEF Write, disk, LogTypeOK
  <2>2. Ordered'
    BY <1>2 DEF Write, disk, LogTypeOK, Ordered, Places
  <2>3. Numbered'
    BY <1>2 DEF Write, disk, LogTypeOK, Numbered, Places
  <2>4. PlaceEmpty'
    BY <1>2 DEF Write, disk, LogTypeOK, PlaceEmpty, Places
  <2>5. InPlace'
    BY <1>2 DEF Write, disk, LogTypeOK, InPlace, Places, TooLong, PlaceEmpty
  <2>6. Bounded'
    BY <1>2 DEF Write, disk, LogTypeOK, Bounded, Places
  <2> QED
    BY <2>1, <2>2, <2>3, <2>4, <2>5, <2>6 DEF LogInv
<1>3. CASE CloseOld
  <2>1. LogTypeOK'
    BY <1>3 DEF CloseOld, Abandon, disk, LogTypeOK
  <2>2. Ordered'
    BY <1>3 DEF CloseOld, Abandon, disk, LogTypeOK, Ordered, Places
  <2>3. Numbered'
    BY <1>3 DEF CloseOld, Abandon, disk, LogTypeOK, Numbered, Places
  <2>4. PlaceEmpty'
    BY <1>3 DEF CloseOld, Abandon, disk, LogTypeOK, PlaceEmpty, Places
  <2>5. InPlace'
    BY <1>3 DEF CloseOld, Abandon, disk, LogTypeOK, InPlace, Places, TooLong, PlaceEmpty
  <2>6. Bounded'
    BY <1>3 DEF CloseOld, Abandon, disk, LogTypeOK, Bounded, Places
  <2> QED
    BY <2>1, <2>2, <2>3, <2>4, <2>5, <2>6 DEF LogInv
<1>4. CASE Move
  <2>1. LogTypeOK'
    BY <1>4 DEF Move, LogTypeOK, Places
  <2>2. Ordered'
    BY <1>4 DEF Move, LogTypeOK, Ordered, Places, PlaceEmpty
  <2>3. Numbered'
    BY <1>4 DEF Move, LogTypeOK, Numbered, Places
  <2>4. PlaceEmpty'
    BY <1>4 DEF Move, LogTypeOK, PlaceEmpty, Places
  <2>5. InPlace'
    BY <1>4 DEF Move, LogTypeOK, InPlace, Places, TooLong, PlaceEmpty
  <2>6. Bounded'
    BY <1>4 DEF Move, LogTypeOK, Bounded, Places
  <2> QED
    BY <2>1, <2>2, <2>3, <2>4, <2>5, <2>6 DEF LogInv
<1>5. CASE MoveFails
  <2>1. LogTypeOK'
    BY <1>5 DEF MoveFails, Abandon, disk, LogTypeOK
  <2>2. Ordered'
    BY <1>5 DEF MoveFails, Abandon, disk, LogTypeOK, Ordered, Places
  <2>3. Numbered'
    BY <1>5 DEF MoveFails, Abandon, disk, LogTypeOK, Numbered, Places
  <2>4. PlaceEmpty'
    BY <1>5 DEF MoveFails, Abandon, disk, LogTypeOK, PlaceEmpty, Places
  <2>5. InPlace'
    BY <1>5 DEF MoveFails, Abandon, disk, LogTypeOK, InPlace, Places, TooLong, PlaceEmpty
  <2>6. Bounded'
    BY <1>5 DEF MoveFails, Abandon, disk, LogTypeOK, Bounded, Places
  <2> QED
    BY <2>1, <2>2, <2>3, <2>4, <2>5, <2>6 DEF LogInv
<1>6. CASE Open
  <2>1. LogTypeOK'
    BY <1>6 DEF Open, LogTypeOK, Places
  <2>2. Ordered'
    BY <1>6 DEF Open, LogTypeOK, Ordered, Places, Numbered
  <2>3. Numbered'
    BY <1>6 DEF Open, LogTypeOK, Numbered, Places
  <2>4. PlaceEmpty'
    BY <1>6 DEF Open, LogTypeOK, PlaceEmpty, Places
  <2>5. InPlace'
    BY <1>6 DEF Open, LogTypeOK, InPlace, Places, TooLong, PlaceEmpty
  <2>6. Bounded'
    BY <1>6 DEF Open, LogTypeOK, Bounded, Places
  <2> QED
    BY <2>1, <2>2, <2>3, <2>4, <2>5, <2>6 DEF LogInv
<1>7. CASE OpenFails
  <2>1. LogTypeOK'
    BY <1>7 DEF OpenFails, Abandon, disk, LogTypeOK
  <2>2. Ordered'
    BY <1>7 DEF OpenFails, Abandon, disk, LogTypeOK, Ordered, Places
  <2>3. Numbered'
    BY <1>7 DEF OpenFails, Abandon, disk, LogTypeOK, Numbered, Places
  <2>4. PlaceEmpty'
    BY <1>7 DEF OpenFails, Abandon, disk, LogTypeOK, PlaceEmpty, Places
  <2>5. InPlace'
    BY <1>7 DEF OpenFails, Abandon, disk, LogTypeOK, InPlace, Places, TooLong, PlaceEmpty
  <2>6. Bounded'
    BY <1>7 DEF OpenFails, Abandon, disk, LogTypeOK, Bounded, Places
  <2> QED
    BY <2>1, <2>2, <2>3, <2>4, <2>5, <2>6 DEF LogInv
<1>8. CASE Append
  <2>1. LogTypeOK'
    BY <1>8 DEF Append, LogTypeOK, Places
  <2>2. Ordered'
    BY <1>8 DEF Append, LogTypeOK, Ordered, Places
  <2>3. Numbered'
    BY <1>8 DEF Append, LogTypeOK, Numbered, Places
  <2>4. PlaceEmpty'
    BY <1>8 DEF Append, LogTypeOK, PlaceEmpty, Places
  <2>5. InPlace'
    BY <1>8 DEF Append, LogTypeOK, InPlace, Places, TooLong, PlaceEmpty
  <2>6. Bounded'
    BY <1>8 DEF Append, LogTypeOK, Bounded, Places, InPlace
  <2> QED
    BY <2>1, <2>2, <2>3, <2>4, <2>5, <2>6 DEF LogInv
<1>9. CASE Stop
  <2>1. LogTypeOK'
    BY <1>9 DEF Stop, disk, LogTypeOK
  <2>2. Ordered'
    BY <1>9 DEF Stop, disk, LogTypeOK, Ordered, Places
  <2>3. Numbered'
    BY <1>9 DEF Stop, disk, LogTypeOK, Numbered, Places
  <2>4. PlaceEmpty'
    BY <1>9 DEF Stop, disk, LogTypeOK, PlaceEmpty, Places
  <2>5. InPlace'
    BY <1>9 DEF Stop, disk, LogTypeOK, InPlace, Places, TooLong, PlaceEmpty
  <2>6. Bounded'
    BY <1>9 DEF Stop, disk, LogTypeOK, Bounded, Places
  <2> QED
    BY <2>1, <2>2, <2>3, <2>4, <2>5, <2>6 DEF LogInv
<1>10. CASE UNCHANGED vars
  <2>1. LogTypeOK'
    BY <1>10 DEF vars, disk, LogTypeOK
  <2>2. Ordered'
    BY <1>10 DEF vars, disk, LogTypeOK, Ordered, Places
  <2>3. Numbered'
    BY <1>10 DEF vars, disk, LogTypeOK, Numbered, Places
  <2>4. PlaceEmpty'
    BY <1>10 DEF vars, disk, LogTypeOK, PlaceEmpty, Places
  <2>5. InPlace'
    BY <1>10 DEF vars, disk, LogTypeOK, InPlace, Places, TooLong, PlaceEmpty
  <2>6. Bounded'
    BY <1>10 DEF vars, disk, LogTypeOK, Bounded, Places
  <2> QED
    BY <2>1, <2>2, <2>3, <2>4, <2>5, <2>6 DEF LogInv
<1> QED
  BY <1>1, <1>2, <1>3, <1>4, <1>5, <1>6, <1>7, <1>8, <1>9, <1>10 DEF Next

LEMMA LogInvariant == Spec => []LogInv
<1> QED
  BY LogInvInit, LogInvStep, PTL DEF Spec

(* The variables keep their types for every limit and every set of write   *)
(* lengths: logging.go never moves a file from a place there is none of.   *)
THEOREM LogTypeCorrect == Spec => []LogTypeOK
<1>1. LogInv => LogTypeOK
  BY DEF LogInv
<1> QED
  BY <1>1, LogInvariant, PTL

(* No log file grows beyond the limit by more than one write (Write looks  *)
(* at the size first), through failing rotations and restarts.             *)
THEOREM FilesAreBounded == Spec => []Bounded
<1>1. LogInv => Bounded
  BY DEF LogInv
<1> QED
  BY <1>1, LogInvariant, PTL

(* After a rotation has failed, Write finds the file to rotate in its      *)
(* place, except when it was the creation of the new file that failed.     *)
THEOREM FailedRotationIsRetried == Spec => []Retried
<1>1. LogInv => Retried
  BY DEF LogInv, InPlace, Retried
<1> QED
  BY <1>1, LogInvariant, PTL
-----------------------------------------------------------------------------
(* The refinement.  The places map to the set of their files.              *)
Files == {file[p] : p \in Places} \ {0}

(* Steps that do not touch the disk keep the files. *)
LEMMA SameFiles ==
  ASSUME UNCHANGED disk PROVE UNCHANGED <<Files, begun>>
BY DEF disk, Files

(* Creating errors.log, which a rotation has moved away, adds the newest.  *)
LEMMA OpenBegins ==
  ASSUME LogTypeOK, Numbered, PlaceEmpty, Open
  PROVE  begun' = begun + 1 /\ Files' = Files \cup {begun + 1}
<1>1. file[0] = 0 /\ begun \in Nat /\ file \in [Places -> Nat] /\ 0 \in Places
  BY DEF Open, PlaceEmpty, LogTypeOK, Places
<1>2. begun' = begun + 1 /\ file' = [file EXCEPT ![0] = begun + 1]
  BY DEF Open
<1>3. \A p \in Places : file'[p] = IF p = 0 THEN begun + 1 ELSE file[p]
  BY <1>1, <1>2
<1>4. Files' = {file'[p] : p \in Places} \ {0}
  BY DEF Files
<1> QED
  BY <1>1, <1>2, <1>3, <1>4 DEF Files

(* A move into an empty place keeps the files; the one that replaces the   *)
(* file in the last place drops the oldest.                                *)
LEMMA MoveForgets ==
  ASSUME LogTypeOK, Ordered, PlaceEmpty, Move
  PROVE  \/ UNCHANGED <<Files, begun>>
         \/ /\ UNCHANGED begun
            /\ \E old \in Files, newer \in Files :
                 /\ newer > old
                 /\ \A f \in Files : f >= old
                 /\ Files' = Files \ {old}
<1>1. begun' = begun
  BY DEF Move
<1>2. file \in [Places -> Nat] /\ from \in 0 .. 2
  BY DEF LogTypeOK
<1>3. from < 2 => file[from + 1] = 0
  BY DEF PlaceEmpty, Move
<1>4. from \in Places /\ from + 1 \in Places /\ from + 1 # from /\ (from < 2 \/ from = 2)
  BY <1>2 DEF Places
<1>5. CASE file[from] = 0
  <2>1. file' = file
    BY <1>5 DEF Move
  <2> QED
    BY <1>1, <2>1 DEF Files
<1>6. CASE file[from] # 0 /\ file[from + 1] = 0
  <2>1. \A p \in Places : file'[p] = IF p = from + 1 THEN file[from] ELSE IF p = from THEN 0 ELSE file[p]
    BY <1>6, <1>2, <1>4 DEF Move
  <2>2. ASSUME NEW f PROVE f \in Files' <=> f \in Files
    <3>1. f \in Files' <=> f # 0 /\ \E p \in Places : f = file'[p]
      BY Zenon DEF Files
    <3>2. f \in Files <=> f # 0 /\ \E p \in Places : f = file[p]
      BY Zenon DEF Files
    <3>3. ASSUME f # 0, NEW p \in Places, f = file[p] PROVE \E q \in Places : f = file'[q]
      BY <1>6, <1>4, <2>1, <3>3
    <3>4. ASSUME f # 0, NEW p \in Places, f = file'[p] PROVE \E q \in Places : f = file[q]
      BY <1>6, <1>4, <2>1, <3>4
    <3> QED
      BY <3>1, <3>2, <3>3, <3>4
  <2> QED
    BY <1>1, <2>2
<1>7. CASE file[from] # 0 /\ file[from + 1] # 0
  <2>1. from = 2
    BY <1>7, <1>3, <1>4
  <2>2. \A p \in Places : file'[p] = IF p = 3 THEN file[2] ELSE IF p = 2 THEN 0 ELSE file[p]
    BY <1>7, <1>2, <1>4, <2>1 DEF Move
  <2>3. ASSUME NEW f PROVE /\ f \in Files' <=> f # 0 /\ \E p \in Places : f = file'[p]
                           /\ f \in Files <=> f # 0 /\ \E p \in Places : f = file[p]
    BY Zenon DEF Files
  <2>4. 2 \in Places /\ 3 \in Places
    BY DEF Places
  <2>5. \A p \in Places : file[p] # 0 /\ p # 3 => file[p] > file[3]
    BY <1>7, <1>2, <2>1 DEF Places, Ordered
  <2>6. file[3] \in Files /\ file[2] \in Files /\ file[2] > file[3]
    BY <1>7, <2>1, <2>3, <2>4, <2>5
  <2>7. \A f \in Files : f >= file[3]
    <3>1. TAKE f \in Files
    <3>2. PICK p \in Places : f = file[p] /\ f # 0
      BY <2>3
    <3> QED
      BY <1>2, <2>4, <2>5, <3>2
  <2>8. ASSUME NEW f PROVE f \in Files' <=> f \in Files \ {file[3]}
    <3>1. ASSUME NEW p \in Places, f = file'[p], f # 0 PROVE f # file[3] /\ \E q \in Places : f = file[q]
      BY <1>2, <2>2, <2>4, <2>5, <3>1
    <3>2. ASSUME NEW p \in Places, f = file[p], f # 0, f # file[3] PROVE \E q \in Places : f = file'[q]
      BY <1>2, <2>2, <2>4, <3>2
    <3> QED
      BY <2>3, <3>1, <3>2
  <2> QED
    BY <1>1, <2>6, <2>7, <2>8
<1> QED
  BY <1>5, <1>6, <1>7

LEMMA HistoryInit == Init => History!Init
BY DEF Init, History!Init, Places

LEMMA HistoryStep ==
  LogInv /\ [Next]_vars => [History!Begin \/ History!Forget]_<<Files, begun>>
<1> SUFFICES ASSUME LogInv, [Next]_vars
             PROVE  History!Begin \/ History!Forget \/ UNCHANGED <<Files, begun>>
  OBVIOUS
<1> USE DEF LogInv
<1>1. CASE Open
  BY <1>1, OpenBegins DEF History!Begin, Files
<1>2. CASE Move
  BY <1>2, MoveForgets DEF History!Forget, Files
<1>3. CASE Append
  BY <1>3 DEF Append, Files
<1>4. CASE New \/ (\E n \in Lengths : Write(n)) \/ CloseOld \/ MoveFails \/ OpenFails \/ Stop \/ UNCHANGED vars
  <2>1. UNCHANGED disk
    BY <1>4 DEF New, Write, CloseOld, MoveFails, OpenFails, Stop, vars, disk
  <2> QED
    BY <2>1, SameFiles
<1> QED
  BY <1>1, <1>2, <1>3, <1>4 DEF Next

(* Whatever fails and whenever the program is killed, rotation loses only  *)
(* the oldest file and never truncates one: rotate of logging.go           *)
(* implements the history of LogHistory.                                   *)
THEOREM RotationKeepsHistory == Spec => LosesOnlyTheOldest
<1>1. LogInv /\ [Next]_vars => [History!Begin \/ History!Forget]_<<Files, begun>>
  BY HistoryStep
<1> QED
  BY <1>1, HistoryInit, LogInvariant, PTL DEF Spec, LosesOnlyTheOldest, History!Spec, Files
=============================================================================
