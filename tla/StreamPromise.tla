--------------------------- MODULE StreamPromise ---------------------------
(***************************************************************************)
(* What somebody who follows a deploy in the console may rely on, however  *)
(* its log is kept.                                                        *)
(*                                                                         *)
(* What has been shown stays as it was shown and only grows.  Lines come   *)
(* in the order they were logged in and none comes twice; a marker stands  *)
(* for lines that are no longer kept.  As long as nothing was taken from   *)
(* the log a follower is shown every line, the newest included, each time  *)
(* the console looks.  It stops looking only after a verdict, and by then  *)
(* has shown what was logged before it.                                    *)
(***************************************************************************)
EXTENDS Naturals, Sequences, SequencesExt

CONSTANTS
    Follower,     \* those who follow
    Gap           \* the marker, smaller than every line

VARIABLES
    written,      \* lines logged so far: 1 to written
    whole,        \* nothing has been taken from the log
    ended,        \* there is a verdict the console knows
    at,           \* a follower has not come yet, is there, or has been let go
    shown         \* the lines a follower has been shown

pvars == <<written, whole, ended, at, shown>>

PInit ==
    /\ written = 0
    /\ whole = TRUE /\ ended = FALSE
    /\ at = [f \in Follower |-> "off"]
    /\ shown = [f \in Follower |-> <<>>]

\* A line is logged, which may cost the log another.
Write ==
    /\ written' = written + 1
    /\ whole' => whole
    /\ UNCHANGED <<ended, at, shown>>

Decide ==
    /\ ~ended /\ ended'
    /\ UNCHANGED <<written, whole, at, shown>>

Come(f) ==
    /\ at[f] = "off"
    /\ at' = [at EXCEPT ![f] = "on"]
    /\ UNCHANGED <<written, whole, ended, shown>>

Upward(lines) ==
    \A i, j \in 1 .. Len(lines) : i < j /\ lines[j] # Gap => lines[i] < lines[j]

\* The console looks.
Look(f) ==
    /\ at[f] = "on"
    /\ at' = [at EXCEPT ![f] = IF ended THEN "over" ELSE "on"]
    /\ \A g \in Follower \ {f} : shown'[g] = shown[g]
    /\ IsPrefix(shown[f], shown'[f])
    /\ Upward(shown'[f])
    /\ \A i \in 1 .. Len(shown'[f]) : shown'[f][i] <= written
    /\ whole => shown'[f] = [i \in 1 .. written |-> i]
    /\ UNCHANGED <<written, whole, ended>>

PNext == Write \/ Decide \/ \E f \in Follower : Come(f) \/ Look(f)

PSafety == PInit /\ [][PNext]_pvars

=============================================================================
