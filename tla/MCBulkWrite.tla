------------------------------ MODULE MCBulkWrite ------------------------------
(***************************************************************************)
(* Small messages and images for DeviceWrites.                             *)
(***************************************************************************)
EXTENDS DeviceWrites

\* Packets of two bytes, chunks of three packets and then of two: sizes below,
\* at and above every boundary.
AllSizes == 0..13

\* Images of every size up to three sequences of two parts and a byte, with
\* files that hold all of it or end at any byte before.
AllImages == {m \in [thor : BOOLEAN, size : 0..25, stream : 0..25] : m.stream <= m.size}

ASSUME Img!CutAssumption /\ Img!ImagesAssumption
=============================================================================
