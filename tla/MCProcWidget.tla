---------------------------- MODULE MCProcWidget ----------------------------
(* Three processes, two of which have one name, so that the two modes show *)
(* tables of different lengths; one of the two exits and the processor     *)
(* times change order between the readings.  One filter keeps the two of a *)
(* name, another nothing.                                                  *)
EXTENDS ProcWidget

P(pid, name, cpu) ==
    [Pid |-> pid, CommandName |-> name, FullCommand |-> pid + 200, CPU |-> cpu, Mem |-> 1]

MCReadings ==
    { <<P(11, 101, 4), P(12, 101, 1)>>,
      <<P(12, 101, 1), P(13, 102, 3)>> }

(* For the liveness run: one of two processes of a name exits. *)
MCFewReadings == { <<P(11, 101, 4), P(12, 101, 1)>>, <<P(12, 101, 1)>> }

MCMatches(p, f) == f = <<"x">> /\ p.CommandName = 101

(* The texts a cell of these processes or their groups can hold. *)
MCCell == {NoItem} \cup (1 .. 2) \cup {11, 12, 13, 101, 102, 211, 212, 213}
MCRowLists == UNION {[1 .. n -> MadeRow] : n \in 0 .. 2}
=============================================================================
