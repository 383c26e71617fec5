----------------------------- MODULE MCWindows -----------------------------
(***************************************************************************)
(* Small instances of the drivers of windows, 4-bit integers.  A behaviour *)
(* belongs to one part, the other parts' variables keep a fixed value:     *)
(*   "agg"      RunWindowAggOnKey over any two union tables (WindowAgg);   *)
(*   "request"  the loop of RequestUnionWindow (RequestUnion);             *)
(*   "modes"    one store read in both modes (OnlineOffline).              *)
(***************************************************************************)
EXTENDS OnlineOffline, MCHistoryWindow

CONSTANT Parts

VARIABLES part, output_request_row, ts_gen, window_table, pc

requestvars == <<output_request_row, ts_gen, window_table, pc>>

FewKeys == {1, 2, 3}

Agg == INSTANCE WindowAgg WITH
          Keys <- FewKeys, Ranges <- SampleRangesFew, ExcludeFlags <- {FALSE},
          Limits <- {0, 1}, Earlier <- {0, 1}

Union == INSTANCE RequestUnion WITH Keys <- FewKeys

ASSUME Union!RequestAssumption

NoRequest ==
    output_request_row = TRUE /\ ts_gen = -1 /\ window_table = << >> /\ pc = "none"

NoBatch ==
    /\ instance_not_in_window = FALSE /\ table = << >> /\ current_history_buffer = << >>
    /\ fed = 0 /\ last_key = 0 /\ in_order = TRUE /\ accepted = << >> /\ shown = NoCall
    /\ limit_cnt = 0 /\ instance_segment = << >> /\ instance_segment_iter = 1
    /\ origin = << >> /\ output_table = << >>

MCInit ==
    /\ part \in Parts
    /\ \/ /\ part = "agg" /\ Agg!AggInit /\ (limit_cnt = 0 => cnt = 0)
          /\ mode = "offline" /\ online = << >> /\ NoRequest
       \/ part = "request" /\ Union!Init /\ NoBatch /\ mode = "online" /\ online = << >>
       \/ part = "modes" /\ OnlineInit /\ NoRequest

AggStep ==
    part = "agg" /\ Agg!AggNext /\ UNCHANGED <<part, requestvars, mode, online>>

RequestStep ==
    /\ part = "request"
    /\ Union!Next
    /\ UNCHANGED <<part, instance_not_in_window, table, current_history_buffer, fed, last_key,
                   in_order, accepted, shown, limit_cnt, instance_segment,
                   instance_segment_iter, origin, output_table, mode, online>>

ModesStep ==
    part = "modes" /\ OnlineOfflineNext /\ UNCHANGED <<part, requestvars>>

MCNext == AggStep \/ RequestStep \/ ModesStep

mcvars == <<allvars, part, requestvars>>

MCSpec == MCInit /\ [][MCNext]_mcvars /\ WF_mcvars(AggStep)

----------------------------------------------------------------------------
\* RunWindowAggOnKey answers every instance row up to the LIMIT, also when udfs
\* fail: the merge does not stop early and does not hang.
BatchAnswersEveryRow == part = "agg" => EveryInstanceRowAnswered

\* What an aggregate reads from the window RequestUnionWindow builds is the frame
\* of the request, the window has every row once and newest first, and it is the
\* closed form that OnlineOffline takes for the loop, also when
\* PostRequestUnionRunner adds the request row.
RequestReadsFrame ==
    part = "request" =>
        Union!RequestWindowIsFrame /\ Union!WindowDescending /\ Union!ReturnsClosedForm
=============================================================================
