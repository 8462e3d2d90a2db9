CONSTANTS
  Deployer = {d1, d2}
  MaxUploads = 3
SPECIFICATION FairLaunchSpec
\* Developers may stop deploying.
CHECK_DEADLOCK FALSE
INVARIANTS DeploysSound
PROPERTIES RestartIsUseful UpdateNoticed
