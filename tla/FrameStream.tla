---------------------------- MODULE FrameStream ----------------------------
(***************************************************************************)
(* A byte stream of frames (modules/ipc/frame.rs).  A frame is written as  *)
(* its five byte header and its payload, and read in the same two steps;   *)
(* either can arrive without the other.  A reader that starts at a payload *)
(* takes data for a header, and may read any frame at all.                 *)
(***************************************************************************)
EXTENDS Naturals, Sequences

Header(f) == [part |-> "header", frame |-> f]
Payload(f) == [part |-> "payload", frame |-> f]
Encode(f) == <<Header(f), Payload(f)>>

Units(S) == [part : {"header", "payload"}, frame : S]

\* The frames of S that a reader may see announced in the next five bytes.
Announced(unit, S) == IF unit.part = "header" THEN {unit.frame} ELSE S
=============================================================================
