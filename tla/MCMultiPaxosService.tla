------------------------- MODULE MCMultiPaxosService -------------------------
(* Instance of MultiPaxosService for TLC. *)
EXTENDS MultiPaxosService

CONSTANTS MaxRound, MaxInst

MCRound == 0 .. MaxRound
MCInst  == 0 .. MaxInst

\* The leader of the first round crashes: from then on it handles neither
\* messages nor ticks, so it sees no vote and no later round.
FirstLeaderCrashes ==
    /\ heard'[1] = 0
    /\ current_round'[1] <= 1
    /\ inst_status'[1] # inst_status[1] => next_inst'[1] # next_inst[1]
=============================================================================
