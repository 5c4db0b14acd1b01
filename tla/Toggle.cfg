SPECIFICATION Spec
CONSTANTS
  pop = pop
  blue = blue
  credit = credit
  kvcond = kvcond
  sig_pop_popmgr_extensions = sig_pop_popmgr_extensions
  sig_mvm_red_team_max_players = sig_mvm_red_team_max_players
  sig_mvm_jointeam_blue_allow = sig_mvm_jointeam_blue_allow
  sig_mvm_jointeam_blue_allow_max = sig_mvm_jointeam_blue_allow_max
  sig_mvm_jointeam_blue_allow_force = sig_mvm_jointeam_blue_allow_force
  sig_mvm_set_credit_team = sig_mvm_set_credit_team
  OFF = OFF
  Mod = {kvcond, pop, blue, credit}
  DefaultOn = {kvcond}
  Var = {sig_pop_popmgr_extensions, sig_mvm_jointeam_blue_allow, sig_mvm_jointeam_blue_allow_force, sig_mvm_set_credit_team}
  ModOrder <- MCModOrder
  VarOrder <- MCVarOrder
  Overrides <- MCOverrides
  Counted <- MCCounted
  Kind <- MCKind
  ModOf <- MCModOf
  Keeper = pop
  MaxValue <- MCMaxValue
  MaxSettings = 2
CHECK_DEADLOCK FALSE
INVARIANTS
  PatchesFollowMods
  PatchesAreCurrent
  MissionsLeaveNoTrace
  FailedStaysOff
  DetoursFollowMods
  EnabledFollowsVars
  NothingLeftBehind
