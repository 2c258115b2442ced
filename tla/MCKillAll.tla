------------------------------ MODULE MCKillAll ------------------------------
(* Six processes of three priorities.  The first is short, has the name    *)
(* that killall looks for and is over by then; of the three that share its *)
(* priority the last one has that name too, and the others similar names,  *)
(* one of which load() cuts short.  The fifth, of the highest priority,    *)
(* calls killall.                                                          *)
EXTENDS KillAll

MCPrioMix == <<1, 1, 1, 1, 0, 2>>
MCMixSize == <<1, 4, 4, 3, 4, 3>>
MCMixStart == <<0, 0, 0, 0, 0, 0>>
MCName == << <<"s", "c">>, <<"s", "c", "1", "2">>, <<"s">>, <<"s", "c">>, <<"k">>, <<"s">> >>
MCTarget == <<"s", "c">>

\* one priority, and a killer that is loaded first; the name is nobody's,
\* as in input/proc/sc2
MCRacePrio == <<0, 0, 0>>
MCRaceSize == <<2, 2, 2>>
MCRaceStart == <<0, 0, 0>>
MCRaceName == << <<"k">>, <<"a">>, <<"b">> >>
MCNobody == <<"p", "0">>
==============================================================================
