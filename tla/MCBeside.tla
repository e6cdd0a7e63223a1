------------------------------ MODULE MCBeside ------------------------------
(***************************************************************************)
(* What runs beside the table, for TLC: the records of its hands, a bot in *)
(* a process of its own, a self-play corpus and the control panel.  They   *)
(* share no state, so each behaviour is of one of them.                    *)
(***************************************************************************)
EXTENDS MCMatchRecords, BotSeat, SelfPlay, Console

CONSTANTS p1, p2

VARIABLE part

allVars == <<part, vars, botVars, selfPlayVars, consoleVars>>

MCInit ==
    /\ part \in {"records", "bot", "corpus", "panel"}
    /\ Init /\ BotInit /\ SelfPlayInit /\ ConsoleInit
\* Bounds: the last run of the server plays one hand, and the first page only goes
\* when a spawn it asked for raises.
Shorter == boot = MaxBoots => index' = 0
Stays == p1 \in open \ open' => unspawned' # unspawned \/ line' # line

MCNext ==
    /\ UNCHANGED part
    /\ \/ part = "records" /\ Next /\ Shorter /\ UNCHANGED <<botVars, selfPlayVars, consoleVars>>
       \/ part = "bot" /\ BotNext /\ UNCHANGED <<vars, selfPlayVars, consoleVars>>
       \/ part = "corpus" /\ SelfPlayNext /\ UNCHANGED <<vars, botVars, consoleVars>>
       \/ part = "panel" /\ ConsoleNext /\ Stays /\ UNCHANGED <<vars, botVars, selfPlayVars>>
\* Fairness and ConsoleFairness, each for the behaviours of its own part.
MCFairness ==
    /\ WF_vars(part = "records" /\ ServerStep) /\ WF_vars(part = "records" /\ Start)
    /\ WF_consoleVars(part = "panel" /\ Supervises)
    /\ WF_consoleVars(part = "panel" /\ StartTimesOut)
    /\ WF_consoleVars(part = "panel" /\ Watch)
    /\ WF_consoleVars(part = "panel" /\ TimerTicks)
    /\ \A b \in Pages \cup {Timer} : WF_consoleVars(part = "panel" /\ StatusSent(b))
MCSpec == MCInit /\ [][MCNext]_allVars /\ MCFairness
=============================================================================
