SPECIFICATION FairSpec
CONSTANTS
  Uni <- MCUni
  Requests <- MCRequests
  Scripts <- MCScripts
  maxRequestBytes = 4
  maxFieldSection = 2
  Sizes = {1, 3}
  RefusalSize = 1
  Statuses = {103, 404}
  MaxWrites = 2
INVARIANTS VerdictsRight ControlHeard SettingsBindResponses
PROPERTIES EveryRequestSettles
