----------------------------- MODULE KillSwitch -----------------------------
(***************************************************************************)
(* What the kill switch promises (spec 4.4), with no torrents, requests or *)
(* ticks: the user turns the switch on or off, the VPN comes and goes, and *)
(* at evaluation points the enforcement state moves only along the         *)
(* allowed transitions while the policy's network gate is refreshed from   *)
(* the live switch and VPN.                                                *)
(*                                                                         *)
(*   Armed    -> Engaged  only when the VPN is down;                       *)
(*   Engaged  -> Armed    only when the VPN is back;                       *)
(*   Disarmed -> Armed    only when the switch is on and the VPN is up;    *)
(*   turning the switch on arms it, turning it off disarms it.             *)
(*                                                                         *)
(* An evaluation may also change nothing: the code evaluates at every      *)
(* tick, and most ticks leave the state where it is.  Releasing is never   *)
(* entered by the code and is left out.                                    *)
(***************************************************************************)
VARIABLES
    enabled,     \* the switch is on
    state,       \* enforcement state
    vpn,         \* live VPN connectivity
    netAllowed   \* the effective policy's network gate

ksVars == <<enabled, state, vpn, netAllowed>>

States == {"Disarmed", "Armed", "Engaged"}

\* the value the gate must take whenever it is refreshed
Gate == IF enabled THEN vpn ELSE TRUE

Init ==
    /\ enabled = FALSE
    /\ state = "Disarmed"
    /\ netAllowed = TRUE
    /\ vpn \in BOOLEAN

Toggle(en) ==
    /\ enabled' = en
    /\ state' = IF en THEN "Armed" ELSE "Disarmed"
    /\ UNCHANGED <<vpn, netAllowed>>

VpnFlip ==
    /\ vpn' = ~vpn
    /\ UNCHANGED <<enabled, state, netAllowed>>

Allowed(s, t) ==
    \/ s = "Armed"    /\ t = "Engaged" /\ ~vpn
    \/ s = "Engaged"  /\ t = "Armed"   /\ vpn
    \/ s = "Disarmed" /\ t = "Armed"   /\ vpn /\ enabled

Evaluate ==
    /\ state' \in States
    /\ state' = state \/ Allowed(state, state')
    /\ netAllowed' \in {netAllowed, Gate}
    /\ UNCHANGED <<enabled, vpn>>

Next == (\E en \in BOOLEAN : Toggle(en)) \/ VpnFlip \/ Evaluate

Spec == Init /\ [][Next]_ksVars

=============================================================================
