---------------------------- MODULE MCCollector ----------------------------
(***************************************************************************)
(* Two runs of the collector on one file.  The hand made file is unsorted, *)
(* names one title twice and holds an entry that is not whole; MangaDex    *)
(* retells one of its titles, and both sources have untitled entries.      *)
(***************************************************************************)
EXTENDS Collector

MCManga(id, title, status, whole) ==
    [id |-> id, title |-> title, status |-> status, whole |-> whole]
MCItem(id, title, status, genre) ==
    [id |-> id, title |-> title, titled |-> title > 0, status |-> status, genre |-> genre]

MCHandMade == <<MCManga(1, 3, "completed", TRUE), MCManga(2, 1, "finished", TRUE),
                MCManga(3, 3, "ongoing", TRUE), MCManga(4, 2, "ongoing", FALSE)>>
MCMangaDex == << <<MCItem(11, 3, "ongoing", FALSE), MCItem(12, 0, "hiatus", TRUE)>>,
                 <<MCItem(13, 5, "", FALSE), MCItem(14, 2, "hiatus", TRUE)>> >>
MCJikan == <<MCItem(21, 6, "finished", TRUE), MCItem(22, 0, "ongoing", TRUE),
             MCItem(23, 5, "completed", TRUE), MCItem(24, 4, "ongoing", FALSE)>>
=============================================================================
