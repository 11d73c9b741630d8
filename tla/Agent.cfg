SPECIFICATION MCSpec
CONSTANTS
  Messages = {m1, m2}
  Causes = {"user", "disposed"}
  MaxSteps = 2
  MaxDepth = 2
  MaxChanges = 2
  MaxPrompts = 1
  MaxCancels = 1
  MaxRounds = 2
  Runs = {1, 2, 3}
  OuterAwaits = TRUE
  Rules <- ShotAndRepeating
  Horizon = 2
  MaxCalls = 2
  MaxTurns = 1
  MaxFails = 1
  MaxLives = 2
  MaxBack = 0
INVARIANTS NoStrandedWake OnePlace IdleIsBalanced LatchNeedsCancel FollowUpsAreSound
PROPERTIES TurnsNest WhenIdleSound CancelStops StepsDecideFromStored OwedIsServed WhenIdleReturns FollowUpsCome
