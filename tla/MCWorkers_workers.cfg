SPECIFICATION FairSpec
CONSTANTS
  s1 = s1
  s2 = s2
  w1 = w1
  w2 = w2
  Server = {s1, s2}
  Worker = {w1, w2}
  Deployments <- InstanceDeployments
  HexStrings = {"c0ffee"}
  Width = 6
INVARIANTS SlotsConserved BackoffWithinPolicy
PROPERTIES OnlyHolderCounts AnswersHeard EveryActivityAnswered
