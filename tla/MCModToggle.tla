----------------------------- MODULE MCModToggle -----------------------------
(***************************************************************************)
(* ModToggle with the mods and ConVars whose callbacks and overrides meet: *)
(* PopMgr_Extensions (pop), JoinTeam_Blue_Allow (blue), Set_Credit_Team    *)
(* (credit) and a mod that is enabled by default (kvcond).                 *)
(***************************************************************************)
EXTENDS ModToggle, TLC

CONSTANTS pop, blue, credit, kvcond,
    sig_pop_popmgr_extensions, sig_mvm_red_team_max_players,
    sig_mvm_jointeam_blue_allow, sig_mvm_jointeam_blue_allow_max,
    sig_mvm_jointeam_blue_allow_force, sig_mvm_set_credit_team

\* PopMgr_Extensions is unloaded after the mods whose ConVars it restores.
MCModOrder == SelectSeq(<<kvcond, blue, credit, pop>>, LAMBDA m : m \in Mod)

\* As declared: the ConVars of popmgr_extensions.cpp in the order of the file.
MCVarOrder == SelectSeq(<<sig_mvm_set_credit_team, sig_mvm_jointeam_blue_allow_max,
                          sig_mvm_jointeam_blue_allow, sig_mvm_jointeam_blue_allow_force,
                           sig_mvm_red_team_max_players,
                          sig_pop_popmgr_extensions>>, LAMBDA v : v \in Var)

\* The order of PopState::Reset.
MCOverrides == SelectSeq(<<sig_mvm_jointeam_blue_allow_force, sig_mvm_jointeam_blue_allow,
                           sig_mvm_jointeam_blue_allow_max, sig_mvm_set_credit_team,
                           sig_mvm_red_team_max_players>>,
                         LAMBDA v : v \in Var)

MCCounted == Var \cap {sig_mvm_red_team_max_players, sig_mvm_jointeam_blue_allow,
                       sig_mvm_jointeam_blue_allow_max, sig_mvm_jointeam_blue_allow_force}

MCKind == [v \in Var |->
    IF v = sig_mvm_red_team_max_players THEN "refresh"
    ELSE IF v = sig_mvm_jointeam_blue_allow_force THEN "force"
    ELSE IF v = sig_mvm_set_credit_team THEN "credit"
    ELSE IF v = sig_mvm_jointeam_blue_allow_max THEN "plain"
    ELSE "enable"]
\* Switches are on or off; a team or a number of players matters as such.
MCMaxValue == [v \in Var |->
    IF v \in {sig_mvm_red_team_max_players, sig_mvm_set_credit_team} THEN 2 ELSE 1]
MCModOf == [v \in Var |->
    IF v \in {sig_mvm_red_team_max_players, sig_pop_popmgr_extensions} THEN pop
    ELSE IF v = sig_mvm_set_credit_team THEN credit
    ELSE blue]
=============================================================================
