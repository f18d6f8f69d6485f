---------------------------- MODULE MCFrameCodec ----------------------------
(***************************************************************************)
(* The frames of other devices for the runs of FrameCodec.                 *)
(***************************************************************************)
EXTENDS FrameCodec

(* First octets: every row of Individual and Group, and both sides of its   *)
(* limits; second ones: both sides of the four APCIs.                       *)
MCTpcis == {0, 1, 3, 4, 5, 8, 16, 63, 64, 68, 95, 124, 127, 128, 129, 130, 132, 144, 192,
            194, 195, 198, 222, 254, 255}
MCSeconds == {0, 63, 64, 144, 255}

(* Every length from one octet to 16, and in five octets a third one that   *)
(* can be taken for the length field of a frame of nine.                    *)
MCTpdus == {<<t>> : t \in MCTpcis} \cup {<<t, a>> : t \in MCTpcis, a \in MCSeconds}
           \cup {<<0, a, 7>> : a \in MCSeconds}
           \cup {<<0, 128>> \o [i \in 1 .. k |-> i] : k \in 2 .. 14}

(* An urgent repetition that has come straight, and one of low priority.    *)
MCHeaders == {[priority |-> 0, hop |-> 7, repeated |-> TRUE],
              [priority |-> 3, hop |-> 6, repeated |-> FALSE]}

(* For the extended format. *)
MCReads == {<<0>>, <<0, 0>>, <<0, 64>>, <<0, 0, 7>>, <<0, 64, 7>>,
            <<0, 128>> \o [i \in 1 .. 14 |-> i]}
=============================================================================
