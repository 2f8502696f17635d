SPECIFICATION WebhookLiveSpec
CONSTANTS
  s1 = s1
  s2 = s2
  Says <- OneCharge
  Stories <- OneStory
  Server = {s1, s2}
  NoServer = NoServer
  MaxTrouble = 1
PROPERTIES ReplayNotSwallowed
CHECK_DEADLOCK FALSE
