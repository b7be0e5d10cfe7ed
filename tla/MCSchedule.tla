----------------------------- MODULE MCSchedule -----------------------------
(* An instance of Schedule for TLC.                                        *)
EXTENDS Schedule

CONSTANT site

OneTask == {site}
\* Every minute, every other minute, 30 February, and what does not parse.
FourCrons == {"minutely", "even", "feb30", "bad"}
Valid == {"minutely", "even", "feb30"}
NoRun == -1
Occurrence ==
    [c \in FourCrons |-> [t \in 0..MaxTime |->
        CASE c = "minutely" -> t + 1
          [] c = "even"     -> (t + 2) - (t % 2)
          [] OTHER          -> NoRun]]
=============================================================================
