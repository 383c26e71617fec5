---------------------------- MODULE MergedWindows ----------------------------
(***************************************************************************)
(* Every SELECT with up to MaxWindows windows over one partition and order *)
(* out of Frames, at all relative addresses, and what an aggregate over    *)
(* each of them reads at the last row of a history.                        *)
(***************************************************************************)
EXTENDS WindowMerge

CONSTANTS Frames, MaxWindows, Histories

VARIABLES stmt, hist, fresh

vars == <<stmt, hist, fresh>>

(* The rows, newest first and the current row first, that a window with    *)
(* frame f holds: those of its range or among its rows, the newest MAXSIZE *)
Holds(f, h) ==
    LET inrange(i) == f.range # <<>> /\ h[i] >= h[1] + f.range[1] /\ h[i] <= h[1] + f.range[2]
        inrows(i) == f.rows # <<>> /\ i <= 1 - f.rows[1]
        rows == {i \in DOMAIN h : inrange(i) \/ inrows(i)}
    IN {i \in rows : f.max = 0 \/ Cardinality({j \in rows : j <= i}) <= f.max}

(* What an aggregate over frame f reads of a window built for frame g: the  *)
(* whole window if that is its own frame and ends at the current row, and   *)
(* otherwise an inner list of it                                            *)
Reads(f, g, h) ==
    LET ws == Holds(g, h)
        at(i) == Cardinality({j \in ws : j <= i})
    IN IF f = g /\ ~IsPureHistoryFrame(f) THEN ws
       ELSE IF f.type = "rows" THEN {i \in ws : at(i) >= 1 - f.rows[2] /\ at(i) <= 1 - f.rows[1]}
       ELSE {i \in ws : h[i] >= h[1] + f.range[1] /\ h[i] <= h[1] + f.range[2]}

(* The rows of a frame, of the whole history *)
FrameOf(f, h) ==
    IF f.type = "rows" THEN {i \in DOMAIN h : i >= 1 - f.rows[2] /\ i <= 1 - f.rows[1]}
    ELSE Holds(f, h)

Init == stmt = <<>> /\ hist \in Histories /\ fresh \in {-100, 100}

AddWindow ==
    /\ Len(stmt) < MaxWindows
    /\ \E f \in Frames, a \in 1 .. MaxWindows :
          /\ \A i \in DOMAIN stmt : stmt[i].addr # a
          /\ stmt' = Append(stmt, WindowDef(a, "w", <<"k">>, <<"ts">>, f, <<>>, FALSE, FALSE))
    /\ UNCHANGED <<hist, fresh>>

Spec == Init /\ [][AddWindow]_vars

FramesOf(s) == {s[i].frame : i \in DOMAIN s}

(* Which frames may be merged is an equivalence on the statement: a window  *)
(* is merged with all the windows it could be merged with.                 *)
Transitive(s) ==
    \A f, g, h \in FramesOf(s) :
        FrameCanMergeWith(f, g) /\ FrameCanMergeWith(g, h) => FrameCanMergeWith(f, h)

(* Merged frames with a MAXSIZE have one end, and ROWS frames need fewer    *)
(* rows than it.                                                           *)
OneEnd(s) ==
    \A f, g \in FramesOf(s) :
        f.max > 0 => /\ g.max > 0 => f.range[2] = g.range[2]
                     /\ g.type = "rows" => f.max > -g.rows[1]

AllReadTheirFrames(s) ==
    LET r == MergeProjectMap(s, fresh)
    IN r.ok /\ \A i \in DOMAIN s :
           Reads(s[i].frame, r.home[i].frame, hist) = FrameOf(s[i].frame, hist)

(* Windows are put together (MergeWindows, MergeProjectMap) so that every   *)
(* aggregate still reads exactly the rows of the frame it was written with, *)
(* as long as merging is transitive on the statement's frames and frames    *)
(* with a MAXSIZE end together.                                             *)
ReadsOwnFrame == Transitive(stmt) /\ OneEnd(stmt) => AllReadTheirFrames(stmt)
=============================================================================
